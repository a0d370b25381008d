---------------------------- MODULE ServerAidedProofs ----------------------------
(***************************************************************************)
(* Proofs about ServerAided: what parse_options reads, the order of the    *)
(* connections, and from them that the state has its types and that what   *)
(* a client reports is exact.                                              *)
(***************************************************************************)
EXTENDS ServerAided, TaskPartitionProofs, SequenceTheorems, FiniteSetTheorems

Argv(p) == setup[p].argv

(* The variable x of p has its default, or a number that the command line gives it. *)
IsGiven(argv, x, n) ==
  \E i \in 1 .. Len(argv) - 1 : argv[i] = <<"opt", x>> /\ argv[i + 1] = <<"num", n>>

FromArgs(p, s, x) == s.val[x] = Defaults(setup[p].program)[x] \/ IsGiven(Argv(p), x, s.val[x])

Fields == {"args", "result", "set", "val"}

Rest(p, k) == SubSeq(Argv(p), k, Len(Argv(p)))

(* What is left of the command line, and the numbers that decide on what follows. *)
ArgsOK(p, s) ==
  /\ DOMAIN s = Fields
  /\ s.result \in Nat
  /\ \E k \in 1 .. Len(Argv(p)) + 1 : s.args = Rest(p, k)
  /\ s.set \subseteq {o.name : o \in Options(p)}
  /\ DOMAIN s.val = DOMAIN Defaults(setup[p].program)
  /\ FromArgs(p, s, "n")
  /\ IsBench(p) => FromArgs(p, s, "t") /\ FromArgs(p, s, "c")

ParseOK ==
  /\ setup \in Setups
  /\ pc \in [Process -> PC]
  /\ DOMAIN parse = Process
  /\ \A p \in Process : ArgsOK(p, parse[p])

(* The sockets: those of the listener are server ends, those of a client are its own
   connections in the order in which it made them. *)
Early == {"parse", "listen"}

SocketsOK ==
  /\ DOMAIN sockets = Process
  /\ \A p \in Process : sockets[p] \in Seq(End \cup {NoSocket}) /\ Len(sockets[p]) <= MaxSockets
  /\ listener \in Process \cup {NoProcess}
  /\ backlog \in Seq(Conn)
  /\ listener = NoProcess => backlog = <<>>
  /\ \A p \in Process :
       /\ pc[p] \in Early => sockets[p] = <<>>
       /\ pc[p] = "connect" => Len(sockets[p]) < Sockets(p)
       /\ pc[p] = "accept" => Len(sockets[p]) < Slots(p)
       /\ p = listener => pc[p] \notin Early \cup {"connect"}
       /\ p = listener => \A i \in DOMAIN sockets[p] : sockets[p][i] \in Conn \X {"server"}
       /\ p # listener => \A i \in DOMAIN sockets[p] :
            sockets[p][i] = NoSocket \/ sockets[p][i] = <<<<p, i - 1>>, "client">>

NInv == ParseOK /\ SocketsOK

(***************************************************************************)
(* What the loop of parse_options leaves of the command line.              *)
(***************************************************************************)

(* The command line from k on, taken apart. *)
LEMMA RestOfArgs ==
  ASSUME NEW a \in Seq(Argument), NEW k \in 1 .. Len(a) + 1
  PROVE  LET r == SubSeq(a, k, Len(a))
         IN /\ Len(r) = Len(a) + 1 - k
            /\ r = <<>> <=> k = Len(a) + 1
            /\ \A i \in 1 .. Len(r) : r[i] = a[k + i - 1]
            /\ \A j \in 1 .. Len(r) : SubSeq(r, j + 1, Len(r)) = SubSeq(a, k + j, Len(a))
<1> DEFINE r == SubSeq(a, k, Len(a))
<1>1. /\ Len(a) \in Nat /\ \A i \in k .. Len(a) : a[i] \in Argument
  BY LenProperties, ElementOfSeq
<1>2. /\ r \in Seq(Argument) /\ Len(r) = Len(a) + 1 - k
      /\ \A i \in 1 .. Len(a) - k + 1 : r[i] = a[k + i - 1]
  BY <1>1, SubSeqProperties
<1> HIDE DEF r
<1>3. r = <<>> <=> k = Len(a) + 1
  BY <1>1, <1>2, EmptySeq
<1>4. ASSUME NEW j \in 1 .. Len(r) PROVE SubSeq(r, j + 1, Len(r)) = SubSeq(a, k + j, Len(a))
  <2>1. CASE j = Len(r)
    <3>1. SubSeq(r, j + 1, Len(r)) = <<>>
      BY <1>1, <1>2, <2>1, SubSeqEmpty
    <3>2. SubSeq(a, k + j, Len(a)) = <<>>
      BY <1>1, <1>2, <2>1, SubSeqEmpty
    <3> QED
      BY <3>1, <3>2
  <2>2. CASE j < Len(r)
    <3>1. k \in 1 .. Len(a) /\ Len(a) \in 1 .. Len(a)
      BY <1>1, <1>2, <2>2
    <3>2. j + 1 \in 1 .. Len(a) - k + 1 /\ Len(r) \in 1 .. Len(a) - k + 1
      BY <1>1, <1>2, <2>2
    <3>3. SubSeq(SubSeq(a, k, Len(a)), j + 1, Len(r)) = SubSeq(a, k + (j + 1) - 1, k + Len(r) - 1)
      BY <3>1, <3>2, SubSeqOfSubSeq
    <3>4. k + (j + 1) - 1 = k + j /\ k + Len(r) - 1 = Len(a)
      BY <1>1, <1>2
    <3> QED
      BY <3>3, <3>4 DEF r
  <2> QED
    BY SMTT(30), <1>1, <1>2, <2>1, <2>2
<1> QED
  BY <1>1, <1>2, <1>3, <1>4 DEF r

(* An argument is a pair; a number is the text of one of its kind. *)
LEMMA ArgumentIs ==
  ASSUME NEW x \in Argument
  PROVE  /\ x = <<x[1], x[2]>> /\ x[1] \in {"opt", "word", "num"}
         /\ x[1] = "num" => x[2] \in Nat
BY DEF Argument

(* The name and the type of an option. *)
LEMMA OptionParts ==
  ASSUME NEW n, NEW t, NEW r
  PROVE  Option(n, t, r).name = n /\ Option(n, t, r).type = t
BY DEF Option

(* The options of a table by their types. *)
LEMMA BenchTypes ==
  ASSUME NEW o \in BenchOptions
  PROVE  /\ o.name \in {"y", "f", "d"} => o.type = "flag"
         /\ o.name \in {"a"} => o.type = "str"
         /\ o.name \in {"e"} => o.type = "double"
         /\ o.name \in {"r", "p", "n", "b", "s", "o", "t", "c"} => o.type = "num"
         /\ o.name \in {"r", "p", "n", "b", "s", "a", "o", "t", "c", "e", "y", "f", "d"}
         /\ o.name # "h"
<1> DEFINE Is(n, t) == o.name = n /\ o.type = t
<1>1. \/ o = Option("r", "num", TRUE)
      \/ o = Option("p", "num", TRUE)
      \/ o = Option("n", "num", TRUE)
      \/ o = Option("b", "num", TRUE)
      \/ o = Option("s", "num", FALSE)
      \/ o = Option("a", "str", FALSE)
      \/ o = Option("o", "num", FALSE)
      \/ o = Option("t", "num", FALSE)
      \/ o = Option("c", "num", FALSE)
      \/ o = Option("e", "double", FALSE)
      \/ o = Option("y", "flag", FALSE)
      \/ o = Option("f", "flag", FALSE)
      \/ o = Option("d", "flag", FALSE)
  BY Zenon DEF BenchOptions
<1>0. \A n, t, r : o = Option(n, t, r) => Is(n, t)
  BY OptionParts
<1> HIDE DEF Is
<1>2. \/ Is("r", "num")
      \/ Is("p", "num")
      \/ Is("n", "num")
      \/ Is("b", "num")
      \/ Is("s", "num")
      \/ Is("a", "str")
      \/ Is("o", "num")
      \/ Is("t", "num")
      \/ Is("c", "num")
      \/ Is("e", "double")
      \/ Is("y", "flag")
      \/ Is("f", "flag")
      \/ Is("d", "flag")
  BY Zenon, <1>0, <1>1
<1>3. ASSUME o.type # "flag" PROVE o.name \notin {"y", "f", "d"}
  BY Zenon, <1>2, <1>3 DEF Is
<1>4. ASSUME o.type # "str" PROVE o.name \notin {"a"}
  BY Zenon, <1>2, <1>4 DEF Is
<1>5. ASSUME o.type # "double" PROVE o.name \notin {"e"}
  BY Zenon, <1>2, <1>5 DEF Is
<1>6. ASSUME o.type # "num" PROVE o.name \notin {"r", "p", "n", "b", "s", "o", "t", "c"}
  BY Zenon, <1>2, <1>6 DEF Is
<1>7. o.name \in {"r", "p", "n", "b", "s", "a", "o", "t", "c", "e", "y", "f", "d"}
  BY Zenon, <1>2 DEF Is
<1>8. o.name # "h"
  BY Zenon, <1>2 DEF Is
<1> QED
  BY Zenon, <1>3, <1>4, <1>5, <1>6, <1>7, <1>8

(* The options of a table by their types. *)
LEMMA DemoTypes ==
  ASSUME NEW o \in DemoOptions
  PROVE  /\ o.name \in {"t"} => o.type = "flag"
         /\ o.name \in {"f", "a"} => o.type = "str"
         /\ o.name \in {} => o.type = "double"
         /\ o.name \in {"r", "p", "n"} => o.type = "num"
         /\ o.name \in {"r", "p", "f", "a", "n", "t"}
         /\ o.name # "h"
<1> DEFINE Is(n, t) == o.name = n /\ o.type = t
<1>1. \/ o = Option("r", "num", TRUE)
      \/ o = Option("p", "num", TRUE)
      \/ o = Option("f", "str", TRUE)
      \/ o = Option("a", "str", FALSE)
      \/ o = Option("n", "num", FALSE)
      \/ o = Option("t", "flag", FALSE)
  BY Zenon DEF DemoOptions
<1>0. \A n, t, r : o = Option(n, t, r) => Is(n, t)
  BY OptionParts
<1> HIDE DEF Is
<1>2. \/ Is("r", "num")
      \/ Is("p", "num")
      \/ Is("f", "str")
      \/ Is("a", "str")
      \/ Is("n", "num")
      \/ Is("t", "flag")
  BY Zenon, <1>0, <1>1
<1>3. ASSUME o.type # "flag" PROVE o.name \notin {"t"}
  BY Zenon, <1>2, <1>3 DEF Is
<1>4. ASSUME o.type # "str" PROVE o.name \notin {"f", "a"}
  BY Zenon, <1>2, <1>4 DEF Is
<1>6. ASSUME o.type # "num" PROVE o.name \notin {"r", "p", "n"}
  BY Zenon, <1>2, <1>6 DEF Is
<1>7. o.name \in {"r", "p", "f", "a", "n", "t"}
  BY Zenon, <1>2 DEF Is
<1>8. o.name # "h"
  BY Zenon, <1>2 DEF Is
<1> QED
  BY Zenon, <1>3, <1>4, <1>6, <1>7, <1>8

(* An option's type goes by its name. *)
LEMMA TypesByName ==
  ASSUME NEW p, NEW o \in Options(p), NEW q \in Options(p), o.name = q.name
  PROVE  o.type = q.type /\ o.name # "h"
<1>1. CASE setup[p].program = "bench"
  BY Zenon, <1>1, BenchTypes DEF Options
<1>2. CASE setup[p].program # "bench"
  BY Zenon, <1>2, DemoTypes DEF Options
<1> QED
  BY <1>1, <1>2

(* The options that hold the numbers which later steps use are numbers. *)
LEMMA NumberOptions ==
  ASSUME NEW p, NEW o \in Options(p)
  PROVE  /\ o.name = "n" => o.type = "num"
         /\ IsBench(p) /\ o.name \in {"t", "c"} => o.type = "num"
         /\ o.type \in {"num", "str", "double", "flag"}
BY Zenon, BenchTypes, DemoTypes DEF Options, IsBench

(* What a round of the loop leaves, field by field. *)
LEMMA ParsedParts ==
  ASSUME NEW o, NEW s
  PROVE  LET takes == TakesValue(o, s)
             q == Parsed(o, s)
         IN /\ DOMAIN q = Fields
            /\ q.args = SubSeq(s.args, IF takes THEN 3 ELSE 2, Len(s.args))
            /\ q.result = s.result + 1 /\ q.set = s.set \cup {o.name}
            /\ q.val = [s.val EXCEPT ![o.name] =
                          IF takes THEN s.args[2][2] ELSE IF o.type = "flag" THEN TRUE ELSE @]
BY DEF Parsed, Fields

(* A round of the loop: which argument it reads and how many. *)
LEMMA RoundReads ==
  ASSUME setup \in Setups, NEW p \in Process, NEW s, NEW k \in 1 .. Len(Argv(p)) + 1,
         s.args = Rest(p, k),
         ~ Stopped(s), NEW o \in Matching(Options(p), s), ~ ReadsBeyond(o, s)
  PROVE  /\ k \in 1 .. Len(Argv(p)) /\ Argv(p)[k] = <<"opt", o.name>>
         /\ TakesValue(o, s) =>
              /\ k + 1 \in 1 .. Len(Argv(p)) /\ s.args[2] = Argv(p)[k + 1]
              /\ Parsed(o, s).args = Rest(p, k + 2)
         /\ ~ TakesValue(o, s) => Parsed(o, s).args = Rest(p, k + 1)
         /\ Len(s.args) = Len(Argv(p)) + 1 - k
         /\ Len(s.args) >= 2 => s.args[2] = Argv(p)[k + 1]
<1> DEFINE a == Argv(p)
           r == SubSeq(a, k, Len(a))
<1>1. a \in Seq(Argument) /\ Len(a) \in Nat
  BY SetupsOK, LenProperties DEF Argv
<1> HIDE DEF a
<1>2. /\ Len(r) = Len(a) + 1 - k
      /\ r = <<>> <=> k = Len(a) + 1
      /\ \A i \in 1 .. Len(r) : r[i] = a[k + i - 1]
      /\ \A j \in 1 .. Len(r) : SubSeq(r, j + 1, Len(r)) = SubSeq(a, k + j, Len(a))
  BY <1>1, RestOfArgs DEF a
<1> HIDE DEF r
<1>3. s.args = r /\ \A j \in Int : Rest(p, j) = SubSeq(a, j, Len(a))
  BY DEF a, r, Rest
<1>4. r # <<>> /\ r[1][1] = "opt" /\ o.name = r[1][2] /\ o \in Options(p)
  BY <1>3 DEF Stopped, Matching
<1>5. k \in 1 .. Len(a) /\ Len(r) \in Nat /\ 1 <= Len(r) /\ r[1] = a[k]
  BY <1>1, <1>2, <1>4 DEF a
<1>6. a[k] = <<"opt", o.name>>
  <2>1. a[k] \in Argument
    BY <1>1, <1>5, ElementOfSeq
  <2> QED
    BY <1>4, <1>5, <2>1, ArgumentIs
<1>7. TakesValue(o, s) => 2 <= Len(r)
  <2> SUFFICES ASSUME TakesValue(o, s) PROVE 2 <= Len(r)
    OBVIOUS
  <2>1. o.type # "flag"
    BY Zenon DEF TakesValue
  <2>2. Len(r) # 1
    BY <1>3, <2>1 DEF ReadsBeyond
  <2> QED
    BY SMTT(30), <1>5, <2>2
<1>8. 2 <= Len(r) => /\ k + 1 \in 1 .. Len(a) /\ r[2] = a[k + 1]
                     /\ SubSeq(r, 3, Len(r)) = SubSeq(a, k + 2, Len(a))
  <2> SUFFICES ASSUME 2 <= Len(r)
               PROVE  /\ k + 1 \in 1 .. Len(a) /\ r[2] = a[k + 1]
                      /\ SubSeq(r, 3, Len(r)) = SubSeq(a, k + 2, Len(a))
    OBVIOUS
  <2>1. 2 \in 1 .. Len(r) /\ k + 2 - 1 = k + 1 /\ 2 + 1 = 3
    BY <1>5
  <2>2. r[2] = a[k + 2 - 1] /\ SubSeq(r, 2 + 1, Len(r)) = SubSeq(a, k + 2, Len(a))
    BY <1>2, <2>1
  <2> QED
    BY <1>1, <1>2, <1>5, <2>1, <2>2
<1>9. SubSeq(r, 2, Len(r)) = SubSeq(a, k + 1, Len(a))
  <2>1. 1 \in 1 .. Len(r) /\ 1 + 1 = 2
    BY <1>5
  <2> QED
    BY <1>2, <2>1
<1>10. Parsed(o, s).args = SubSeq(r, IF TakesValue(o, s) THEN 3 ELSE 2, Len(r))
  BY <1>3, ParsedParts
<1>11. k + 1 \in Int /\ k + 2 \in Int
  BY <1>5
<1>12. TakesValue(o, s) => Parsed(o, s).args = Rest(p, k + 2) /\ r[2] = a[k + 1] /\ k + 1 \in 1 .. Len(a)
  BY <1>3, <1>7, <1>8, <1>10, <1>11
<1>13. ~ TakesValue(o, s) => Parsed(o, s).args = Rest(p, k + 1)
  BY <1>3, <1>9, <1>10, <1>11
<1> QED
  BY <1>2, <1>3, <1>5, <1>6, <1>8, <1>12, <1>13 DEF a

(***************************************************************************)
(* The state of the loop.                                                  *)
(***************************************************************************)

(* The variables that both tables of options have. *)
LEMMA DefaultsHave ==
  ASSUME NEW p
  PROVE  LET d == Defaults(setup[p].program)
         IN /\ "n" \in DOMAIN d /\ "r" \in DOMAIN d /\ d["n"] = 0
            /\ IsBench(p) => "t" \in DOMAIN d /\ "c" \in DOMAIN d /\ d["t"] = 1 /\ d["c"] = 2
<1>1. CASE setup[p].program = "bench"
  BY <1>1 DEF Defaults, BenchDefaults, IsBench
<1>2. CASE setup[p].program # "bench"
  BY <1>2 DEF Defaults, DemoDefaults, IsBench
<1> QED
  BY <1>1, <1>2

(* A number that a round of the loop leaves in a variable is a default or an argument. *)
LEMMA RoundGives ==
  ASSUME setup \in Setups, NEW p \in Process, NEW s, ArgsOK(p, s), ~ Stopped(s),
         NEW o \in Matching(Options(p), s), ~ ReadsBeyond(o, s),
         NEW x \in DOMAIN s.val, o.name = x => o.type = "num",
         FromArgs(p, s, x)
  PROVE  FromArgs(p, Parsed(o, s), x)
<1>1. PICK k \in 1 .. Len(Argv(p)) + 1 : s.args = Rest(p, k)
  BY DEF ArgsOK
<1>2. /\ k \in 1 .. Len(Argv(p)) /\ Argv(p)[k] = <<"opt", o.name>>
      /\ TakesValue(o, s) => k + 1 \in 1 .. Len(Argv(p)) /\ s.args[2] = Argv(p)[k + 1]
  BY ZenonT(40), <1>1, RoundReads
<1>3. Parsed(o, s).val = [s.val EXCEPT ![o.name] =
                            IF TakesValue(o, s) THEN s.args[2][2]
                            ELSE IF o.type = "flag" THEN TRUE ELSE @]
  BY ParsedParts
<1>4. CASE o.name # x
  BY <1>3, <1>4 DEF FromArgs
<1>5. CASE o.name = x /\ ~ TakesValue(o, s)
  <2>1. o.type # "flag"
    BY <1>5
  <2>2. Parsed(o, s).val[x] = s.val[x]
    BY <1>3, <1>5, <2>1
  <2> QED
    BY <2>2 DEF FromArgs
<1>6. CASE o.name = x /\ TakesValue(o, s)
  <2>1. s.args[2][1] = "num"
    BY Zenon, <1>6 DEF TakesValue
  <2>2. Argv(p) \in Seq(Argument) /\ Len(Argv(p)) \in Nat
    BY SetupsOK, LenProperties DEF Argv
  <2>3. Argv(p)[k + 1] \in Argument
    BY <1>2, <1>6, <2>2, ElementOfSeq
  <2>4. Argv(p)[k + 1] = <<"num", s.args[2][2]>>
    BY <1>2, <1>6, <2>1, <2>3, ArgumentIs
  <2>5. Parsed(o, s).val[x] = s.args[2][2]
    BY <1>3, <1>6
  <2>6. k \in 1 .. Len(Argv(p)) - 1
    BY <1>2, <1>6, <2>2
  <2>7. IsGiven(Argv(p), x, Parsed(o, s).val[x])
    BY <1>2, <1>6, <2>4, <2>5, <2>6 DEF IsGiven
  <2> QED
    BY <2>7 DEF FromArgs
<1> QED
  BY <1>4, <1>5, <1>6

(* A round of the loop keeps its state in shape. *)
LEMMA ParsedOK ==
  ASSUME setup \in Setups, NEW p \in Process, NEW s, ArgsOK(p, s), ~ Stopped(s),
         NEW o \in Matching(Options(p), s), ~ ReadsBeyond(o, s)
  PROVE  ArgsOK(p, Parsed(o, s))
<1> DEFINE q == Parsed(o, s)
<1>1. PICK k \in 1 .. Len(Argv(p)) + 1 : s.args = Rest(p, k)
  BY DEF ArgsOK
<1>2. /\ k \in 1 .. Len(Argv(p))
      /\ TakesValue(o, s) => k + 1 \in 1 .. Len(Argv(p)) /\ q.args = Rest(p, k + 2)
      /\ ~ TakesValue(o, s) => q.args = Rest(p, k + 1)
  BY ZenonT(40), <1>1, RoundReads
<1>3. /\ DOMAIN q = Fields /\ q.result = s.result + 1 /\ q.set = s.set \cup {o.name}
      /\ DOMAIN q.val = DOMAIN s.val
  <2>1. /\ DOMAIN q = Fields /\ q.result = s.result + 1 /\ q.set = s.set \cup {o.name}
    BY ParsedParts
  <2>2. q.val = [s.val EXCEPT ![o.name] =
                   IF TakesValue(o, s) THEN s.args[2][2]
                   ELSE IF o.type = "flag" THEN TRUE ELSE @]
    BY ParsedParts
  <2> HIDE DEF q
  <2>3. DOMAIN q.val = DOMAIN s.val
    BY <2>2
  <2> QED
    BY <2>1, <2>3
<1>4. s.result \in Nat /\ DOMAIN s.val = DOMAIN Defaults(setup[p].program)
  BY DEF ArgsOK
<1>5. \E j \in 1 .. Len(Argv(p)) + 1 : q.args = Rest(p, j)
  <2>1. Len(Argv(p)) \in Nat
    BY SetupsOK, LenProperties DEF Argv
  <2>2. CASE TakesValue(o, s)
    <3>1. k + 2 \in 1 .. Len(Argv(p)) + 1
      BY <1>2, <2>1, <2>2
    <3> QED
      BY <1>2, <2>2, <3>1
  <2>3. CASE ~ TakesValue(o, s)
    <3>1. k + 1 \in 1 .. Len(Argv(p)) + 1
      BY <1>2, <2>1
    <3> QED
      BY <1>2, <2>3, <3>1
  <2> QED
    BY <2>2, <2>3
<1>6. o \in Options(p) /\ q.set \subseteq {a.name : a \in Options(p)}
  <2>1. o \in Options(p)
    BY DEF Matching
  <2> QED
    BY <1>3, <2>1 DEF ArgsOK
<1>7. FromArgs(p, q, "n")
  BY <1>4, <1>6, RoundGives, DefaultsHave, NumberOptions DEF ArgsOK
<1>8. ASSUME IsBench(p) PROVE FromArgs(p, q, "t") /\ FromArgs(p, q, "c")
  <2>1. "t" \in DOMAIN s.val /\ "c" \in DOMAIN s.val
    BY <1>4, <1>8, DefaultsHave
  <2>2. o.name \in {"t", "c"} => o.type = "num"
    BY <1>6, <1>8, NumberOptions
  <2> QED
    BY <1>8, <2>1, <2>2, RoundGives DEF ArgsOK
<1> HIDE DEF q
<1> QED
  BY <1>3, <1>4, <1>5, <1>6, <1>7, <1>8 DEF ArgsOK, q

(***************************************************************************)
(* What the steps of a process leave alone.                                *)
(***************************************************************************)

(* The steps that make connections. *)
Connecting(p) == Listen(p) \/ Accept(p) \/ Connect(p)

(* A step that makes none: where p is afterwards. *)
Moves(p, l) ==
  /\ pc' = [pc EXCEPT ![p] = l]
  /\ l \in PC \ {"accept"}
  /\ l \in {"parse", "usage", "listen", "connect"} => pc[p] = "parse"
  /\ l = "connect" => Sockets(p)' = Sockets(p)
  /\ \A q \in Process : q # p => parse'[q] = parse[q]
  /\ UNCHANGED <<setup, sockets, listener, backlog>>

(* The steps that make no connection, by the way in which they go on. *)
LEMMA GotoMoves ==
  ASSUME NEW p \in Process, NEW l \in PC \ {"listen", "accept", "connect"}, UNCHANGED setup,
         l \in {"parse", "usage"} => pc[p] = "parse",
         \A q \in Process : q # p => parse'[q] = parse[q]
  PROVE  /\ GoesOn(p, l) => Moves(p, l)
         /\ Exit(p, l) => Moves(p, l)
         /\ Dies(p) => Moves(p, "aborted")
         /\ \A e : Goto(p, l) /\ Took(e) => Moves(p, l)
         /\ \A m : SendOrDie(p, m, l) => \E k \in PC : Moves(p, k)
  BY Zenon DEF Moves, GoesOn, Exit, Dies, Goto, Took, SendOrDie, PC, Ended, netVars

(* The command line moves on, or its variables are set and the protocol begins. *)
LEMMA ReadMoves ==
  ASSUME ParseOK, NEW p \in Process, ReadOption(p) \/ ExitWithUsage(p) \/ AcceptOptions(p)
  PROVE  /\ \E l \in PC : Moves(p, l)
         /\ ParseOK'
<1>1. setup \in Setups /\ ArgsOK(p, parse[p]) /\ DOMAIN parse = Process
  BY DEF ParseOK
<1>2. setup' = setup
  BY DEF ReadOption, ExitWithUsage, AcceptOptions
<1>3. \A q \in Process : \A s : ArgsOK(q, s) => ArgsOK(q, s)'
  BY <1>2 DEF ArgsOK, Argv, FromArgs, Rest, Options, Defaults, IsBench
<1>4. ASSUME NEW l \in PC, Moves(p, l), DOMAIN parse' = Process, ArgsOK(p, parse'[p]),
             \A q \in Process : q # p => parse'[q] = parse[q]
      PROVE  ParseOK'
  <2>1. pc' \in [Process -> PC]
    BY <1>4 DEF Moves, ParseOK
  <2>2. \A q \in Process : ArgsOK(q, parse'[q])
    BY <1>4 DEF ParseOK
  <2> QED
    BY <1>1, <1>2, <1>3, <1>4, <2>1, <2>2 DEF ParseOK
<1>5. CASE ReadOption(p)
  <2>1. PICK o \in Matching(Options(p), parse[p]) :
          \/ Dies(p) /\ parse' = parse
          \/ /\ ~ ReadsBeyond(o, parse[p])
             /\ parse' = [parse EXCEPT ![p] = Parsed(o, parse[p])]
             /\ GoesOn(p, "parse")
    BY <1>5 DEF ReadOption
  <2>2. ~ Stopped(parse[p])
    BY <1>5 DEF ReadOption
  <2>4. DOMAIN parse' = Process /\ \A q \in Process : q # p => parse'[q] = parse[q]
    BY <1>1, <2>1
  <2>3. \E l \in PC : Moves(p, l)
    <3>1. pc[p] = "parse"
      BY <1>5 DEF ReadOption
    <3>2. "parse" \in PC \ {"listen", "accept", "connect"}
          /\ "aborted" \in PC \ {"listen", "accept", "connect"}
      BY DEF PC, Ended
    <3> QED
      BY <1>2, <2>1, <2>4, <3>1, <3>2, GotoMoves
  <2>5. ArgsOK(p, parse'[p])
    <3>1. CASE parse' = parse
      BY <1>1, <3>1
    <3>2. CASE ~ ReadsBeyond(o, parse[p]) /\ parse' = [parse EXCEPT ![p] = Parsed(o, parse[p])]
      BY <1>1, <2>2, <3>2, ParsedOK
    <3> QED
      BY <2>1, <3>1, <3>2
  <2> QED
    BY <1>4, <2>3, <2>4, <2>5
<1>6. CASE ExitWithUsage(p)
  <2>1. \E l \in PC : Moves(p, l)
    <3>1. Exit(p, "usage") /\ parse' = parse
      BY <1>6 DEF ExitWithUsage
    <3>2. "usage" \in PC \ {"listen", "accept", "connect"} /\ pc[p] = "parse"
      BY <1>6 DEF PC, Ended, ExitWithUsage
    <3> QED
      BY <1>2, <3>1, <3>2, GotoMoves
  <2>2. parse' = parse
    BY <1>6 DEF ExitWithUsage
  <2> QED
    BY <1>1, <1>4, <2>1, <2>2
<1>7. CASE AcceptOptions(p)
  <2>1. PICK r \in Roles(p) :
          /\ parse' = [parse EXCEPT ![p].val.r = r]
          /\ \/ Dies(p)
             \/ Exit(p, "other")
             \/ GoesOn(p, IF r = 0 THEN "listen" ELSE "connect")
    BY <1>7 DEF AcceptOptions
  <2>3. DOMAIN parse' = Process /\ \A q \in Process : q # p => parse'[q] = parse[q]
    BY <1>1, <2>1
  <2>4. ArgsOK(p, parse'[p]) /\ parse'[p].val["t"] = val(p)["t"]
    <3> DEFINE s == parse[p]
               u == parse'[p]
    <3>1. u = [s EXCEPT !.val = [s.val EXCEPT !["r"] = r]]
      BY <1>1, <2>1
    <3>2. /\ DOMAIN u = DOMAIN s /\ u.args = s.args /\ u.result = s.result /\ u.set = s.set
          /\ u.val = [s.val EXCEPT !["r"] = r]
      BY <1>1, <3>1 DEF ArgsOK, Fields
    <3> HIDE DEF s, u
    <3>3. DOMAIN u.val = DOMAIN s.val /\ u.val["n"] = s.val["n"] /\ u.val["t"] = s.val["t"]
            /\ u.val["c"] = s.val["c"]
      BY <3>2
    <3>4. \A x \in {"n", "t", "c"} : FromArgs(p, s, x) => FromArgs(p, u, x)
      BY <3>3 DEF FromArgs
    <3> QED
      BY <1>1, <3>2, <3>3, <3>4 DEF ArgsOK, s, u, val
  <2>2. \E l \in PC : Moves(p, l)
    <3>1. pc[p] = "parse"
      BY <1>7 DEF AcceptOptions
    <3>2. ASSUME NEW l \in {"listen", "connect"}, GoesOn(p, l) PROVE Moves(p, l)
      <4>1. Sockets(p)' = Sockets(p)
        BY <1>2, <2>4 DEF Sockets, IsBench, val
      <4> QED
        BY <1>2, <2>3, <3>1, <3>2, <4>1 DEF GoesOn, Goto, Moves, netVars, PC
    <3>3. /\ "other" \in PC \ {"listen", "accept", "connect"} /\ "other" \notin {"parse", "usage"}
          /\ "aborted" \in PC \ {"listen", "accept", "connect"} /\ "aborted" \notin {"parse", "usage"}
          /\ "listen" \in PC /\ "connect" \in PC
      BY DEF PC, Ended
    <3> QED
      BY <1>2, <2>1, <2>3, <3>2, <3>3, GotoMoves
  <2> QED
    BY <1>4, <2>2, <2>3, <2>4
<1> QED
  BY <1>5, <1>6, <1>7

(* The steps behind the connections make none and leave the options as they are. *)
LEMMA OthersMove ==
  ASSUME ParseOK, NEW p \in Process,
         \/ Elements(p) \/ ReceiveSizes(p) \/ ReceiveSet(p) \/ Compute(p) \/ AnswerNext(p)
         \/ ServerDone(p) \/ Start(p) \/ SendMasks(p) \/ ReceiveAnswer(p)
  PROVE  /\ \E l \in PC : Moves(p, l)
         /\ UNCHANGED <<setup, parse>>
<1>14. SUFFICES \E l \in PC : Moves(p, l)
  BY DEF Elements, ReceiveSizes, ReceiveSet, Compute, AnswerNext, ServerDone, Start, SendMasks,
         ReceiveAnswer
<1> DEFINE Quiet == PC \ {"parse", "usage", "listen", "accept", "connect"}
<1>1. UNCHANGED <<setup, parse>>
  BY DEF Elements, ReceiveSizes, ReceiveSet, Compute, AnswerNext, ServerDone, Start, SendMasks,
         ReceiveAnswer
<1>2. ASSUME NEW l \in Quiet
      PROVE  /\ GoesOn(p, l) => Moves(p, l)
             /\ Exit(p, l) => Moves(p, l)
             /\ Dies(p) => Moves(p, "aborted")
             /\ \A e : Goto(p, l) /\ Took(e) => Moves(p, l)
             /\ \A m : SendOrDie(p, m, l) => \E k \in PC : Moves(p, k)
  BY Zenon, <1>1, GotoMoves
<1>3. \A l \in {"sizes", "sets", "compute", "answer", "start", "masks", "receive", "done", "exit",
          "aborted", "other"} : l \in Quiet /\ l \in PC
  BY DEF PC, Ended
<1>4. Begin(p) \in {"start", "compute", "sizes"}
  BY DEF Begin
<1> HIDE DEF Quiet
<1>5. CASE Elements(p)
  <2>1. GoesOn(p, Begin(p)) \/ Exit(p, "exit") \/ Dies(p)
    BY <1>5 DEF Elements, DrawElements, ReadElements
  <2> QED
    BY Zenon, <1>2, <1>3, <1>4, <2>1
<1>6. CASE ReceiveSizes(p)
  <2>1. \/ \E l \in {"sizes", "sets"} : GoesOn(p, l) \/ \E e : Goto(p, l) /\ Took(e)
        \/ Dies(p)
    BY <1>6 DEF ReceiveSizes
  <2> QED
    BY Zenon, <1>2, <1>3, <2>1
<1>7. CASE ReceiveSet(p)
  <2>1. \E l \in {"compute", "sets"} : GoesOn(p, l) \/ \E e : Goto(p, l) /\ Took(e)
    BY <1>7 DEF ReceiveSet
  <2> QED
    BY Zenon, <1>2, <1>3, <2>1
<1>8. CASE Compute(p)
  <2>1. GoesOn(p, "answer") \/ Dies(p)
    BY <1>8 DEF Compute
  <2> QED
    BY Zenon, <1>2, <1>3, <2>1
<1>9. CASE AnswerNext(p)
  <2>1. CASE Dies(p)
    BY Zenon, <1>2, <1>3, <2>1
  <2>2. CASE UNCHANGED <<pc, sockets, tries, listener, backlog, exited>>
    <3>1. pc[p] = "answer" /\ pc \in [Process -> PC]
      BY <1>9 DEF AnswerNext, ParseOK
    <3>2. pc' = [pc EXCEPT ![p] = "answer"] /\ "answer" \in PC \ {"accept"}
      BY <2>2, <3>1 DEF PC
    <3>3. Moves(p, "answer")
      BY <1>1, <2>2, <3>2 DEF Moves
    <3> QED
      BY <3>2, <3>3
  <2> QED
    BY <1>9, <2>1, <2>2 DEF AnswerNext
<1>10. CASE ServerDone(p)
  <2>1. Exit(p, "done")
    BY <1>10 DEF ServerDone
  <2> QED
    BY Zenon, <1>2, <1>3, <2>1
<1>11. CASE Start(p)
  <2>1. \E m : SendOrDie(p, m, "masks")
    BY <1>11 DEF Start
  <2> QED
    BY Zenon, <1>2, <1>3, <2>1
<1>12. CASE SendMasks(p)
  <2>1. \E m : SendOrDie(p, m, "receive")
    BY <1>12 DEF SendMasks
  <2> QED
    BY Zenon, <1>2, <1>3, <2>1
<1>13. CASE ReceiveAnswer(p)
  <2>1. CASE Exit(p, "done") \/ Dies(p)
    BY Zenon, <1>2, <1>3, <2>1
  <2>2. CASE Goto(p, "done") /\ UNCHANGED <<sockets, listener, backlog>>
    BY <1>1, <1>3, <2>2 DEF Moves, Goto
  <2> QED
    BY <1>13, <2>1, <2>2 DEF ReceiveAnswer
<1> QED
  BY <1>1, <1>5, <1>6, <1>7, <1>8, <1>9, <1>10, <1>11, <1>12, <1>13

(* What the command lines say of the numbers of connections. *)
LEMMA SlotsBound ==
  ASSUME ParseOK, NEW p \in Process
  PROVE  Slots(p) \in 1 .. MaxSockets /\ Sockets(p) \in 1 .. MaxSockets
<1> DEFINE a == Argv(p)
<1>1. setup \in Setups /\ ArgsOK(p, parse[p]) /\ MaxSockets \in Nat /\ MaxSockets >= 2
  BY SetupsOK, ConnectionOK DEF ParseOK
<1>2. CASE ~ IsBench(p)
  BY <1>1, <1>2 DEF Slots, Sockets
<1>3. CASE IsBench(p)
  <2>1. ASSUME NEW x \in {"t", "c"}, NEW n, IsGiven(a, x, n) PROVE n \in 1 .. MaxSockets
    <3>1. PICK i \in 1 .. Len(a) - 1 : a[i] = <<"opt", x>> /\ a[i + 1] = <<"num", n>>
      BY <2>1 DEF IsGiven
    <3>2. HasNumber(a, i) /\ a[i][2] \in {"t", "c"} /\ a[i + 1][2] = n /\ setup[p].program = "bench"
      BY <1>3, <2>1, <3>1 DEF HasNumber, IsBench
    <3> QED
      BY <1>1, <3>1, <3>2, SetupsOK DEF Argv
  <2>2. /\ Defaults(setup[p].program)["t"] = 1 /\ Defaults(setup[p].program)["c"] = 2
    BY <1>3, DefaultsHave
  <2>3. FromArgs(p, parse[p], "t") /\ FromArgs(p, parse[p], "c")
    BY <1>1, <1>3 DEF ArgsOK
  <2>4. val(p)["t"] \in 1 .. MaxSockets /\ val(p)["c"] \in 1 .. MaxSockets
    BY <1>1, <2>1, <2>2, <2>3 DEF FromArgs, val
  <2> QED
    BY <1>3, <2>4 DEF Slots, Sockets
<1> QED
  BY <1>2, <1>3

(***************************************************************************)
(* The sockets.                                                            *)
(***************************************************************************)

(* What SocketsOK says of one process. *)
SocketOK(p) ==
  /\ sockets[p] \in Seq(End \cup {NoSocket}) /\ Len(sockets[p]) <= MaxSockets
  /\ pc[p] \in Early => sockets[p] = <<>>
  /\ pc[p] = "connect" => Len(sockets[p]) < Sockets(p)
  /\ pc[p] = "accept" => Len(sockets[p]) < Slots(p)
  /\ p = listener => pc[p] \notin Early \cup {"connect"}
  /\ p = listener => \A i \in DOMAIN sockets[p] : sockets[p][i] \in Conn \X {"server"}
  /\ p # listener => \A i \in DOMAIN sockets[p] :
       sockets[p][i] = NoSocket \/ sockets[p][i] = <<<<p, i - 1>>, "client">>

(* The sockets are in shape when those of every process are. *)
LEMMA SocketsAreOK ==
  SocketsOK <=> /\ DOMAIN sockets = Process
                /\ listener \in Process \cup {NoProcess}
                /\ backlog \in Seq(Conn)
                /\ listener = NoProcess => backlog = <<>>
                /\ \A p \in Process : SocketOK(p)
BY DEF SocketsOK, SocketOK

(* A step that makes no connection. *)
LEMMA MovesKeepSockets ==
  ASSUME ParseOK, SocketsOK, NEW p \in Process, NEW l \in PC, Moves(p, l)
  PROVE  SocketsOK'
<1>1. /\ DOMAIN sockets' = Process
      /\ listener' \in Process \cup {NoProcess}
      /\ backlog' \in Seq(Conn)'
      /\ listener' = NoProcess => backlog' = <<>>
  BY DEF SocketsOK, Moves, Conn
<1>2. pc' = [pc EXCEPT ![p] = l] /\ pc \in [Process -> PC]
  BY DEF Moves, ParseOK
<1>3. ASSUME NEW q \in Process, q # p PROVE SocketOK(q)'
  <2>1. pc'[q] = pc[q] /\ Sockets(q)' = Sockets(q) /\ Slots(q)' = Slots(q)
    BY <1>2, <1>3 DEF Moves, Sockets, Slots, IsBench, val
  <2> QED
    BY <1>3, <2>1, SocketsAreOK DEF SocketOK, Moves, End, Conn
<1>4. SocketOK(p)'
  <2>1. pc'[p] = l /\ Sockets(p) \in Nat \ {0}
    BY <1>2, SlotsBound, ConnectionOK
  <2>2. SocketOK(p)
    BY SocketsAreOK
  <2>3. pc'[p] # "accept" /\ (pc'[p] \in Early \cup {"connect"} => pc[p] = "parse")
    BY <2>1 DEF Moves, Early
  <2>4. pc'[p] = "connect" => Len(sockets'[p]) < Sockets(p)'
    <3> SUFFICES ASSUME pc'[p] = "connect" PROVE Len(sockets[p]) < Sockets(p)'
      BY DEF Moves
    <3>1. sockets[p] = <<>> /\ Sockets(p)' = Sockets(p)
      BY <2>1, <2>2, <2>3 DEF SocketOK, Moves, Early
    <3> QED
      BY <2>1, <3>1
  <2> QED
    BY <2>2, <2>3, <2>4 DEF SocketOK, Moves, End, Conn, Early
<1> QED
  BY <1>1, <1>3, <1>4, SocketsAreOK DEF SocketsOK, SocketOK

(* The processes that take no step. *)
LEMMA OthersKeepSockets ==
  ASSUME ParseOK, SocketsOK, NEW p \in Process, NEW q \in Process, q # p, NEW l,
         pc' = [pc EXCEPT ![p] = l], UNCHANGED <<setup, parse>>,
         sockets'[q] = sockets[q], listener' = listener \/ (listener = NoProcess /\ listener' = p)
  PROVE  SocketOK(q)'
<1>1. pc'[q] = pc[q] /\ Sockets(q)' = Sockets(q) /\ Slots(q)' = Slots(q)
  BY DEF ParseOK, Sockets, Slots, IsBench, val
<1>2. SocketOK(q) /\ (q = listener' <=> q = listener)
  BY SocketsAreOK, ConnectionOK
<1> QED
  BY <1>1, <1>2 DEF SocketOK, End, Conn

(* The listener begins without a socket; one that fails to listen has none that is open. *)
LEMMA ListenKeepsSockets ==
  ASSUME ParseOK, SocketsOK, NEW p \in Process, Listen(p)
  PROVE  SocketsOK'
<1>1. PICK l \in {"accept", "elements"} : pc' = [pc EXCEPT ![p] = l]
  BY DEF Listen, Goto
<1>2. UNCHANGED <<setup, parse, backlog>> /\ pc[p] = "listen" /\ pc \in [Process -> PC]
  BY DEF Listen, Bind, BindFails, ParseOK
<1>3. SocketOK(p) /\ sockets[p] = <<>> /\ p # listener /\ DOMAIN sockets = Process /\ backlog \in Seq(Conn)
  BY <1>2, SocketsAreOK DEF SocketOK, Early
<1>4. Slots(p)' = Slots(p) /\ Slots(p) \in 1 .. MaxSockets /\ Sockets(p)' = Sockets(p)
      /\ MaxSockets \in Nat
  BY <1>2, SlotsBound, ConnectionOK DEF Slots, Sockets, IsBench, val
<1>5. CASE Bind(p) /\ Goto(p, "accept")
  <2>1. /\ listener = NoProcess /\ listener' = p /\ sockets' = sockets /\ pc'[p] = "accept"
    BY <1>2, <1>5 DEF Bind, Goto
  <2>2. SocketOK(p)'
    BY <1>3, <1>4, <2>1 DEF SocketOK, Early, End, Conn
  <2>3. \A q \in Process : q # p => SocketOK(q)'
    BY <1>1, <1>2, <2>1, OthersKeepSockets
  <2>4. p # NoProcess
    BY ConnectionOK
  <2> QED
    BY <1>2, <1>3, <2>1, <2>2, <2>3, <2>4 DEF SocketsOK, SocketOK, Conn
<1>6. CASE BindFails(p, Slots(p)) /\ Goto(p, "elements")
  <2>1. /\ listener # NoProcess /\ listener' = listener /\ pc'[p] = "elements"
        /\ sockets' = [sockets EXCEPT ![p] = [i \in 1 .. Slots(p) |-> NoSocket]]
    BY <1>2, <1>6 DEF BindFails, Goto
  <2>2. sockets'[p] = [i \in 1 .. Slots(p) |-> NoSocket]
    BY <1>3, <2>1
  <2>3. sockets'[p] \in Seq(End \cup {NoSocket}) /\ Len(sockets'[p]) = Slots(p)
        /\ \A i \in DOMAIN sockets'[p] : sockets'[p][i] = NoSocket
    BY <1>4, <2>2, SeqDef
  <2>4. SocketOK(p)'
    BY <1>3, <1>4, <2>1, <2>3 DEF SocketOK, Early, End, Conn
  <2>5. \A q \in Process : q # p => SocketOK(q)'
    BY <1>1, <1>2, <1>3, <2>1, OthersKeepSockets
  <2>6. DOMAIN sockets' = Process /\ listener' \in Process \cup {NoProcess}
    BY <1>3, <2>1, SocketsAreOK
  <2> QED
    BY <1>2, <1>3, <2>1, <2>4, <2>5, <2>6 DEF SocketsOK, SocketOK, Conn
<1> QED
  BY <1>5, <1>6 DEF Listen

(* A queue without its oldest connection. *)
LEMMA OldestRemoved ==
  ASSUME NEW S, NEW s \in Seq(S), s # <<>>
  PROVE  /\ RemoveAt(s, 1) \in Seq(S) /\ Len(RemoveAt(s, 1)) = Len(s) - 1
         /\ Len(s) \in Nat \ {0} /\ s[1] \in S
         /\ \A i \in 1 .. Len(s) - 1 : RemoveAt(s, 1)[i] = s[i + 1]
<1> DEFINE a == SubSeq(s, 1, 0)
           b == SubSeq(s, 2, Len(s))
<1>1. Len(s) \in Nat \ {0} /\ s[1] \in S
  BY EmptySeq, LenProperties, ElementOfSeq
<1>2. a = <<>>
  BY <1>1, SubSeqEmpty
<1>3. b \in Seq(S) /\ Len(b) = Len(s) - 1 /\ \A i \in 1 .. Len(s) - 1 : b[i] = s[i + 1]
  <2>1. \A i \in 2 .. Len(s) : s[i] \in S
    BY ElementOfSeq
  <2>2. b \in Seq(S) /\ Len(b) = (IF 2 <= Len(s) THEN Len(s) - 2 + 1 ELSE 0)
        /\ \A i \in 1 .. Len(s) - 2 + 1 : b[i] = s[2 + i - 1]
    BY <1>1, <2>1, SubSeqProperties
  <2> HIDE DEF b
  <2>0. \A m \in Nat \ {0} : /\ m - 2 + 1 = m - 1
                           /\ (IF 2 <= m THEN m - 2 + 1 ELSE 0) = m - 1
    OBVIOUS
  <2>3. /\ Len(s) - 2 + 1 = Len(s) - 1
        /\ (IF 2 <= Len(s) THEN Len(s) - 2 + 1 ELSE 0) = Len(s) - 1
    BY Zenon, <1>1, <2>0
  <2>4. Len(b) = Len(s) - 1
    BY Zenon, <2>2, <2>3
  <2>5. ASSUME NEW i \in 1 .. Len(s) - 1 PROVE b[i] = s[i + 1]
    <3>1. 2 + i - 1 = i + 1
      OBVIOUS
    <3> QED
      BY <2>2, <2>3, <3>1
  <2> QED
    BY <2>2, <2>4, <2>5
<1>4. RemoveAt(s, 1) = a \o b
  BY <1>1 DEF RemoveAt
<1> HIDE DEF a, b
<1>5. a \o b = b
  BY <1>2, <1>3, ConcatEmptySeq
<1> QED
  BY <1>1, <1>3, <1>4, <1>5

(* Accepting takes the oldest connection of the queue into the next socket. *)
LEMMA AcceptFacts ==
  ASSUME ParseOK, SocketsOK, NEW p \in Process, Accept(p)
  PROVE  LET n == Len(sockets[p])
             c == backlog[1]
         IN /\ p = listener /\ listener' = listener /\ c \in Conn
            /\ n \in Nat /\ n < Slots(p) /\ Slots(p) \in 1 .. MaxSockets
            /\ sockets' = [sockets EXCEPT ![p] = Append(sockets[p], <<c, "server">>)]
            /\ sockets'[p] \in Seq(End \cup {NoSocket}) /\ Len(sockets'[p]) = n + 1
            /\ \A i \in 1 .. n : sockets'[p][i] = sockets[p][i]
            /\ sockets'[p][n + 1] = <<c, "server">>
            /\ backlog' \in Seq(Conn) /\ Len(backlog') = Len(backlog) - 1
            /\ Len(backlog) \in Nat \ {0}
            /\ \A i \in 1 .. Len(backlog) - 1 : backlog'[i] = backlog[i + 1]
            /\ UNCHANGED <<setup, parse>>
            /\ pc' = [pc EXCEPT ![p] = IF n + 1 = Slots(p) THEN "elements" ELSE "accept"]
<1> DEFINE n == Len(sockets[p])
           c == backlog[1]
<1>1. /\ p = listener /\ listener' = listener /\ backlog # <<>> /\ pc[p] = "accept"
      /\ sockets' = [sockets EXCEPT ![p] = Append(sockets[p], <<c, "server">>)]
      /\ backlog' = RemoveAt(backlog, 1)
      /\ UNCHANGED <<setup, parse>>
      /\ pc' = [pc EXCEPT ![p] = IF n + 1 = Slots(p) THEN "elements" ELSE "accept"]
  BY DEF Accept, AcceptNext, Accepted, Oldest, Goto
<1>2. SocketOK(p) /\ DOMAIN sockets = Process /\ backlog \in Seq(Conn) /\ Slots(p) \in 1 .. MaxSockets
  BY SocketsAreOK, SlotsBound
<1>3. c \in Conn /\ backlog' \in Seq(Conn) /\ Len(backlog') = Len(backlog) - 1
      /\ Len(backlog) \in Nat \ {0} /\ \A i \in 1 .. Len(backlog) - 1 : backlog'[i] = backlog[i + 1]
  BY <1>1, <1>2, OldestRemoved
<1>4. <<c, "server">> \in End \cup {NoSocket}
  BY <1>3 DEF End
<1>5. sockets[p] \in Seq(End \cup {NoSocket}) /\ n \in Nat /\ n < Slots(p)
  BY <1>1, <1>2, LenProperties DEF SocketOK
<1>6. sockets'[p] = Append(sockets[p], <<c, "server">>)
  BY <1>1, <1>2
<1>7. /\ sockets'[p] \in Seq(End \cup {NoSocket}) /\ Len(sockets'[p]) = n + 1
      /\ \A i \in 1 .. n : sockets'[p][i] = sockets[p][i]
      /\ sockets'[p][n + 1] = <<c, "server">>
  BY <1>4, <1>5, <1>6, AppendProperties
<1> QED
  BY <1>1, <1>2, <1>3, <1>5, <1>7

(* Accepting keeps the sockets in shape. *)
LEMMA AcceptKeepsSockets ==
  ASSUME ParseOK, SocketsOK, NEW p \in Process, Accept(p)
  PROVE  SocketsOK'
<1> DEFINE n == Len(sockets[p])
           c == backlog[1]
<1>1. /\ p = listener /\ listener' = listener /\ c \in Conn
      /\ n \in Nat /\ n < Slots(p) /\ Slots(p) \in 1 .. MaxSockets
      /\ sockets' = [sockets EXCEPT ![p] = Append(sockets[p], <<c, "server">>)]
      /\ sockets'[p] \in Seq(End \cup {NoSocket}) /\ Len(sockets'[p]) = n + 1
      /\ \A i \in 1 .. n : sockets'[p][i] = sockets[p][i]
      /\ sockets'[p][n + 1] = <<c, "server">>
      /\ backlog' \in Seq(Conn)
      /\ UNCHANGED <<setup, parse>>
      /\ pc' = [pc EXCEPT ![p] = IF n + 1 = Slots(p) THEN "elements" ELSE "accept"]
  BY AcceptFacts
<1>2. DOMAIN sockets = Process /\ SocketOK(p) /\ pc \in [Process -> PC] /\ p # NoProcess
  BY SocketsAreOK, ConnectionOK DEF ParseOK
<1>3. \A q \in Process : q # p => SocketOK(q)'
  BY <1>1, <1>2, OthersKeepSockets
<1>4. SocketOK(p)'
  <2>1. Slots(p)' = Slots(p) /\ MaxSockets \in Nat
    BY <1>1, ConnectionOK DEF Slots, IsBench, val
  <2>2. pc'[p] = (IF n + 1 = Slots(p) THEN "elements" ELSE "accept")
    BY <1>1, <1>2
  <2>3. \A i \in DOMAIN sockets'[p] : sockets'[p][i] \in Conn \X {"server"}
    <3> SUFFICES ASSUME NEW i \in 1 .. n + 1 PROVE sockets'[p][i] \in Conn \X {"server"}
      BY <1>1, LenProperties
    <3>1. i = n + 1 \/ i \in 1 .. n
      BY <1>1
    <3>2. \A j \in 1 .. n : sockets[p][j] \in Conn \X {"server"}
      BY <1>1, <1>2, LenProperties DEF SocketOK
    <3> QED
      BY <1>1, <3>1, <3>2
  <2>4. Len(sockets'[p]) <= MaxSockets /\ (pc'[p] = "accept" => Len(sockets'[p]) < Slots(p))
    BY <1>1, <2>1, <2>2
  <2> QED
    BY <1>1, <2>1, <2>2, <2>3, <2>4 DEF SocketOK, Early, End, Conn
<1> QED
  BY <1>1, <1>2, <1>3, <1>4 DEF SocketsOK, SocketOK, Conn

(* Connecting adds a connection to the end of the queue, or fails. *)
LEMMA ConnectFacts ==
  ASSUME ParseOK, SocketsOK, NEW p \in Process, Connect(p)
  PROVE  LET n == Len(sockets[p])
             c == <<p, n>>
         IN /\ p # listener /\ listener' = listener
            /\ n \in Nat /\ n < Sockets(p) /\ Sockets(p) \in 1 .. MaxSockets
            /\ UNCHANGED <<setup, parse>>
            /\ DOMAIN sockets' = Process
            /\ \A q \in Process : q # p => sockets'[q] = sockets[q]
            /\ pc' = [pc EXCEPT ![p] = IF Len(sockets'[p]) = Sockets(p) THEN "elements" ELSE "connect"]
            /\ \/ /\ sockets'[p] = Append(sockets[p], <<c, "client">>) /\ c \in Conn
                  /\ backlog' = Append(backlog, c) /\ Listening
               \/ sockets' = sockets /\ backlog' = backlog
               \/ sockets'[p] = Append(sockets[p], NoSocket) /\ backlog' = backlog
<1> DEFINE n == Len(sockets[p])
           c == <<p, n>>
<1>1. /\ DOMAIN sockets = Process /\ SocketOK(p) /\ pc[p] = "connect" /\ Sockets(p) \in 1 .. MaxSockets
      /\ MaxSockets \in Nat
  BY SocketsAreOK, SlotsBound, ConnectionOK DEF Connect
<1>2. n \in Nat /\ n < Sockets(p) /\ p # listener
  BY <1>1, LenProperties DEF SocketOK
<1>3. c \in Conn
  BY <1>1, <1>2 DEF Conn
<1>4. /\ listener' = listener /\ UNCHANGED <<setup, parse>>
      /\ pc' = [pc EXCEPT ![p] = IF Len(sockets'[p]) = Sockets(p) THEN "elements" ELSE "connect"]
  BY DEF Connect, ConnectSucceeds, ConnectFails, Goto
<1>5. \/ /\ sockets' = [sockets EXCEPT ![p] = Append(sockets[p], <<c, "client">>)]
         /\ backlog' = Append(backlog, c) /\ Listening
      \/ sockets' = sockets /\ backlog' = backlog
      \/ sockets' = [sockets EXCEPT ![p] = Append(sockets[p], NoSocket)] /\ backlog' = backlog
  BY DEF Connect, ConnectSucceeds, ConnectFails
<1> QED
  BY <1>1, <1>2, <1>3, <1>4, <1>5

(* Connecting keeps the sockets in shape. *)
LEMMA ConnectKeepsSockets ==
  ASSUME ParseOK, SocketsOK, NEW p \in Process, Connect(p)
  PROVE  SocketsOK'
<1> DEFINE n == Len(sockets[p])
           c == <<p, n>>
<1>1. /\ p # listener /\ listener' = listener
      /\ n \in Nat /\ n < Sockets(p) /\ Sockets(p) \in 1 .. MaxSockets
      /\ UNCHANGED <<setup, parse>>
      /\ DOMAIN sockets' = Process
      /\ \A q \in Process : q # p => sockets'[q] = sockets[q]
      /\ pc' = [pc EXCEPT ![p] = IF Len(sockets'[p]) = Sockets(p) THEN "elements" ELSE "connect"]
      /\ \/ /\ sockets'[p] = Append(sockets[p], <<c, "client">>) /\ c \in Conn
            /\ backlog' = Append(backlog, c) /\ Listening
         \/ sockets' = sockets /\ backlog' = backlog
         \/ sockets'[p] = Append(sockets[p], NoSocket) /\ backlog' = backlog
  BY ConnectFacts
<1>2. /\ SocketOK(p) /\ pc \in [Process -> PC] /\ backlog \in Seq(Conn) /\ MaxSockets \in Nat
      /\ listener \in Process \cup {NoProcess} /\ (listener = NoProcess => backlog = <<>>)
  BY SocketsAreOK, ConnectionOK DEF ParseOK
<1>3. \A q \in Process : q # p => SocketOK(q)'
  BY <1>1, <1>2, OthersKeepSockets
<1>4. /\ backlog' \in Seq(Conn) /\ (listener' = NoProcess => backlog' = <<>>)
  <2>1. CASE backlog' = backlog
    BY <1>1, <1>2, <2>1
  <2>2. CASE backlog' = Append(backlog, c) /\ c \in Conn /\ Listening
    <3>1. listener # NoProcess
      BY <2>2, ConnectionOK DEF Listening
    <3> QED
      BY <1>1, <1>2, <2>2, <3>1, AppendProperties
  <2> QED
    BY <1>1, <2>1, <2>2
<1>5. SocketOK(p)'
  <2>1. Sockets(p)' = Sockets(p) /\ pc'[p] = (IF Len(sockets'[p]) = Sockets(p) THEN "elements" ELSE "connect")
    BY <1>1, <1>2 DEF Sockets, IsBench, val
  <2>2. /\ sockets[p] \in Seq(End \cup {NoSocket})
        /\ \A i \in 1 .. n : sockets[p][i] = NoSocket \/ sockets[p][i] = <<<<p, i - 1>>, "client">>
    BY <1>1, <1>2, LenProperties DEF SocketOK
  <2>3. ASSUME NEW e \in End \cup {NoSocket}, sockets'[p] = Append(sockets[p], e),
               e = NoSocket \/ e = <<c, "client">>
        PROVE  SocketOK(p)'
    <3>1. /\ sockets'[p] \in Seq(End \cup {NoSocket}) /\ Len(sockets'[p]) = n + 1
          /\ \A i \in 1 .. n : sockets'[p][i] = sockets[p][i]
          /\ sockets'[p][n + 1] = e
      BY <2>2, <2>3, AppendProperties
    <3>2. \A i \in DOMAIN sockets'[p] :
            sockets'[p][i] = NoSocket \/ sockets'[p][i] = <<<<p, i - 1>>, "client">>
      <4> SUFFICES ASSUME NEW i \in 1 .. n + 1
                   PROVE sockets'[p][i] = NoSocket \/ sockets'[p][i] = <<<<p, i - 1>>, "client">>
        BY <3>1, LenProperties
      <4>1. i = n + 1 \/ i \in 1 .. n
        BY <1>1
      <4>2. n + 1 - 1 = n
        BY <1>1
      <4> QED
        BY <2>2, <2>3, <3>1, <4>1, <4>2
    <3>3. Len(sockets'[p]) <= MaxSockets /\ (pc'[p] = "connect" => Len(sockets'[p]) < Sockets(p))
      BY <1>1, <1>2, <2>1, <3>1
    <3> QED
      BY <1>1, <2>1, <3>1, <3>2, <3>3 DEF SocketOK, Early, End, Conn
  <2>4. CASE sockets' = sockets
    <3>1. n # Sockets(p)
      BY <1>1
    <3> QED
      BY <1>1, <1>2, <2>1, <2>4, <3>1 DEF SocketOK, Early, End, Conn
  <2>5. c \in Conn => <<c, "client">> \in End \cup {NoSocket}
    BY DEF End
  <2> QED
    BY <1>1, <2>3, <2>4, <2>5
<1>6. DOMAIN sockets' = Process /\ listener' \in Process \cup {NoProcess}
  BY <1>1, <1>2
<1>7. \A q \in Process : SocketOK(q)'
  BY <1>3, <1>5
<1> QED
  BY <1>4, <1>6, <1>7 DEF SocketsOK, SocketOK, Conn

(* The options, the control state and the sockets stay in shape. *)
LEMMA NInitially ==
  ASSUME Init
  PROVE  NInv
<1>1. /\ setup \in Setups
      /\ pc = [p \in Process |-> "parse"]
      /\ parse = [p \in Process |-> ParseInit(setup[p].argv, Defaults(setup[p].program))]
      /\ sockets = [p \in Process |-> <<>>] /\ listener = NoProcess /\ backlog = <<>>
  BY DEF Init, NetInit
<1>2. ParseOK
  <2> SUFFICES ASSUME NEW p \in Process PROVE ArgsOK(p, parse[p])
    BY <1>1 DEF ParseOK, PC
  <2> DEFINE s == parse[p]
             d == Defaults(setup[p].program)
  <2>1. s = [args |-> Argv(p), result |-> 0, set |-> {}, val |-> d]
    BY <1>1 DEF ParseInit, Argv
  <2>2. DOMAIN s = Fields /\ s.args = Argv(p) /\ s.result = 0 /\ s.set = {} /\ s.val = d
    BY <2>1 DEF Fields
  <2>3. \E k \in 1 .. Len(Argv(p)) + 1 : Argv(p) = Rest(p, k)
    <3>1. Argv(p) \in Seq(Argument) /\ Len(Argv(p)) \in Nat
      BY <1>1, SetupsOK, LenProperties DEF Argv
    <3>2. Rest(p, 1) = Argv(p)
      BY <3>1, SubSeqFull DEF Rest
    <3> QED
      BY <3>1, <3>2
  <2> HIDE DEF s, d
  <2>4. FromArgs(p, s, "n") /\ FromArgs(p, s, "t") /\ FromArgs(p, s, "c")
    BY <2>2 DEF FromArgs, d
  <2>5. s.result \in Nat /\ s.set \subseteq {o.name : o \in Options(p)} /\ DOMAIN s.val = DOMAIN d
        /\ \E k \in 1 .. Len(Argv(p)) + 1 : s.args = Rest(p, k)
    BY <2>2, <2>3
  <2> QED
    BY <2>2, <2>4, <2>5 DEF ArgsOK, s, d
<1>3. SocketsOK
  <2>1. \A p \in Process : sockets[p] = <<>> /\ pc[p] = "parse" /\ p # listener
    BY <1>1, ConnectionOK
  <2>2. <<>> \in Seq(End \cup {NoSocket}) /\ Len(<<>>) = 0 /\ DOMAIN <<>> = {} /\ <<>> \in Seq(Conn)
    BY EmptySeq
  <2>3. \A p \in Process : SocketOK(p)
    <3> SUFFICES ASSUME NEW p \in Process PROVE SocketOK(p)
      OBVIOUS
    <3>1. /\ sockets[p] = <<>> /\ sockets[p] \in Seq(End \cup {NoSocket}) /\ DOMAIN sockets[p] = {}
          /\ Len(sockets[p]) = 0 /\ pc[p] = "parse" /\ p # listener
      BY Zenon, <2>1, <2>2
    <3>2. Len(sockets[p]) <= MaxSockets
      BY <3>1, ConnectionOK
    <3>3. pc[p] # "connect" /\ pc[p] # "accept"
      BY <3>1
    <3> QED
      BY Zenon, <3>1, <3>2, <3>3 DEF SocketOK
  <2> QED
    BY <1>1, <2>2, <2>3, SocketsAreOK
<1> QED
  BY <1>2, <1>3 DEF NInv

(* Every step keeps the shape; it makes a connection or none. *)
LEMMA StepKeepsN ==
  ASSUME NInv, NEW p \in Process, Step(p)
  PROVE  NInv' /\ (Connecting(p) \/ \E l \in PC : Moves(p, l))
<1>1. ParseOK /\ SocketsOK
  BY DEF NInv
<1>2. CASE ReadOption(p) \/ ExitWithUsage(p) \/ AcceptOptions(p)
  BY <1>1, <1>2, ReadMoves, MovesKeepSockets DEF NInv
<1>3. ASSUME NEW l \in PC, pc' = [pc EXCEPT ![p] = l], UNCHANGED <<setup, parse>>
      PROVE  ParseOK'
  <2>1. \A q \in Process : \A s : ArgsOK(q, s) => ArgsOK(q, s)'
    BY <1>3 DEF ArgsOK, Argv, FromArgs, Rest, Options, Defaults, IsBench
  <2>2. pc' \in [Process -> PC]
    BY <1>1, <1>3 DEF ParseOK
  <2> QED
    BY <1>1, <1>3, <2>1, <2>2 DEF ParseOK
<1>4. CASE Listen(p)
  <2>1. \E l \in PC : pc' = [pc EXCEPT ![p] = l]
    BY <1>4 DEF Listen, Goto, PC
  <2>2. UNCHANGED <<setup, parse>>
    BY <1>4 DEF Listen
  <2> QED
    BY <1>1, <1>3, <1>4, <2>1, <2>2, ListenKeepsSockets DEF NInv, Connecting
<1>5. CASE Accept(p)
  <2>1. \E l \in PC : pc' = [pc EXCEPT ![p] = l]
    BY <1>5 DEF Accept, Goto, PC
  <2>2. UNCHANGED <<setup, parse>>
    BY <1>5 DEF Accept
  <2> QED
    BY <1>1, <1>3, <1>5, <2>1, <2>2, AcceptKeepsSockets DEF NInv, Connecting
<1>6. CASE Connect(p)
  <2>1. \E l \in PC : pc' = [pc EXCEPT ![p] = l]
    BY <1>6 DEF Connect, Goto, PC
  <2>2. UNCHANGED <<setup, parse>>
    BY <1>6 DEF Connect
  <2> QED
    BY <1>1, <1>3, <1>6, <2>1, <2>2, ConnectKeepsSockets DEF NInv, Connecting
<1>7. CASE \/ Elements(p) \/ ReceiveSizes(p) \/ ReceiveSet(p) \/ Compute(p) \/ AnswerNext(p)
           \/ ServerDone(p) \/ Start(p) \/ SendMasks(p) \/ ReceiveAnswer(p)
  <2>1. (\E l \in PC : Moves(p, l)) /\ UNCHANGED <<setup, parse>>
    BY <1>1, <1>7, OthersMove
  <2> QED
    BY <1>1, <1>3, <2>1, MovesKeepSockets DEF NInv, Moves
<1> QED
  BY <1>2, <1>4, <1>5, <1>6, <1>7 DEF Step

(* Nothing changes when nothing does. *)
LEMMA NStutters ==
  ASSUME NInv, UNCHANGED vars
  PROVE  NInv'
<1>1. UNCHANGED <<setup, pc, parse, sockets, listener, backlog>>
  BY DEF vars, netVars
<1>2. \A q \in Process : \A s : ArgsOK(q, s) => ArgsOK(q, s)'
  BY <1>1 DEF ArgsOK, Argv, FromArgs, Rest, Options, Defaults, IsBench
<1>3. \A q \in Process : SocketOK(q) => SocketOK(q)'
  BY <1>1 DEF SocketOK, Sockets, Slots, IsBench, val, End, Conn
<1>4. ParseOK'
  BY <1>1, <1>2 DEF NInv, ParseOK
<1>5. \A q \in Process : SocketOK(q)'
  BY <1>3, SocketsAreOK DEF NInv
<1>6. SocketsOK'
  BY <1>1, <1>5 DEF NInv, SocketsOK, SocketOK, Conn
<1> QED
  BY <1>4, <1>6 DEF NInv

(***************************************************************************)
(* The order of the connections.                                           *)
(***************************************************************************)

Opened == {c \in Conn : <<c, "client">> \in Range(sockets[c[1]])}

(* The connections behind the sockets of a server. *)
Heads(s) == [i \in DOMAIN s |-> s[i][1]]

(* The connections behind the sockets are a queue of the same length. *)
LEMMA HeadsAre ==
  ASSUME NEW S, NEW s \in Seq(S), \A i \in DOMAIN s : s[i] \in Conn \X {"server"}
  PROVE  Heads(s) \in Seq(Conn) /\ Len(Heads(s)) = Len(s) /\ \A i \in 1 .. Len(s) : Heads(s)[i] = s[i][1]
<1>1. Len(s) \in Nat /\ DOMAIN s = 1 .. Len(s)
  BY LenProperties
<1>2. Heads(s) \in [1 .. Len(s) -> Conn]
  BY <1>1 DEF Heads
<1>3. Heads(s) \in Seq(Conn)
  BY <1>1, <1>2, SeqDef
<1>4. DOMAIN Heads(s) = 1 .. Len(Heads(s)) /\ Len(Heads(s)) \in Nat
  BY <1>3, LenProperties
<1>5. Len(Heads(s)) = Len(s)
  BY <1>1, <1>2, <1>4
<1> QED
  BY <1>1, <1>3, <1>5 DEF Heads

(* What has arrived: accepted, and then queued. *)
LEMMA ArrivalsAre ==
  ASSUME NInv
  PROVE  LET h == IF listener = NoProcess THEN <<>> ELSE Heads(sockets[listener])
         IN Arrivals = h \o backlog /\ h \in Seq(Conn) /\ backlog \in Seq(Conn) /\ Arrivals \in Seq(Conn)
<1> DEFINE h == IF listener = NoProcess THEN <<>> ELSE Heads(sockets[listener])
<1>1. Arrivals = h \o backlog
  BY DEF Arrivals, Heads
<1>2. backlog \in Seq(Conn)
  BY DEF NInv, SocketsOK
<1>3. h \in Seq(Conn)
  <2>1. CASE listener = NoProcess
    BY <2>1, EmptySeq
  <2>2. CASE listener # NoProcess
    <3>1. listener \in Process /\ SocketOK(listener)
      BY <2>2, SocketsAreOK DEF NInv
    <3> QED
      BY <2>2, <3>1, HeadsAre DEF SocketOK
  <2> QED
    BY <2>1, <2>2
<1> QED
  BY <1>1, <1>2, <1>3, ConcatProperties

(* Two queues with the same connections at the same places. *)
LEMMA MovedOver ==
  ASSUME NEW h \in Seq(Conn), NEW b \in Seq(Conn), b # <<>>, NEW g \in Seq(Conn), NEW a \in Seq(Conn),
         Len(g) = Len(h) + 1, \A i \in 1 .. Len(h) : g[i] = h[i], g[Len(h) + 1] = b[1],
         Len(a) = Len(b) - 1, \A i \in 1 .. Len(b) - 1 : a[i] = b[i + 1]
  PROVE  g \o a = h \o b
<1> DEFINE m == Len(h)
           n == Len(b)
<1>1. m \in Nat /\ n \in Nat \ {0}
  BY LenProperties, EmptySeq
<1>2. /\ g \o a \in Seq(Conn) /\ h \o b \in Seq(Conn)
      /\ Len(g \o a) = (m + 1) + (n - 1) /\ Len(h \o b) = m + n
      /\ \A i \in 1 .. m + n : (h \o b)[i] = IF i <= m THEN h[i] ELSE b[i - m]
      /\ \A i \in 1 .. (m + 1) + (n - 1) : (g \o a)[i] = IF i <= m + 1 THEN g[i] ELSE a[i - (m + 1)]
  <2>1. /\ h \o b \in Seq(Conn) /\ Len(h \o b) = m + n
        /\ \A i \in 1 .. m + n : (h \o b)[i] = IF i <= m THEN h[i] ELSE b[i - m]
    BY ConcatProperties
  <2>2. /\ g \o a \in Seq(Conn) /\ Len(g \o a) = Len(g) + Len(a)
        /\ \A i \in 1 .. Len(g) + Len(a) : (g \o a)[i] = IF i <= Len(g) THEN g[i] ELSE a[i - Len(g)]
    BY ConcatProperties
  <2>3. Len(g) = m + 1 /\ Len(a) = n - 1
    OBVIOUS
  <2> QED
    BY Zenon, <2>1, <2>2, <2>3
<1> DEFINE u == g \o a
           v == h \o b
<1> HIDE DEF m, n, u, v
<1>3. (m + 1) + (n - 1) = m + n
  BY <1>1
<1>4. ASSUME NEW i \in 1 .. m + n PROVE u[i] = v[i]
  <2>1. CASE i <= m
    <3>1. u[i] = g[i] /\ v[i] = h[i] /\ i \in 1 .. Len(h)
      BY <1>1, <1>2, <1>3, <2>1 DEF u, v, m
    <3> QED
      BY <3>1
  <2>2. CASE i = m + 1
    <3>1. u[i] = g[i] /\ v[i] = b[i - m] /\ i - m = 1
      <4>1. i - m = 1 /\ ~ (i <= m) /\ i <= m + 1 /\ i \in 1 .. (m + 1) + (n - 1)
        BY <1>1, <1>3, <2>2
      <4> QED
        BY Zenon, <1>2, <4>1 DEF u, v
    <3> QED
      BY <2>2, <3>1 DEF m
  <2>3. CASE i > m + 1
    <3>1. u[i] = a[i - (m + 1)] /\ v[i] = b[i - m]
      BY <1>1, <1>2, <1>3, <2>3 DEF u, v
    <3>2. i - (m + 1) \in 1 .. n - 1 /\ i - (m + 1) + 1 = i - m
      BY <1>1, <2>3
    <3>3. a[i - (m + 1)] = b[i - (m + 1) + 1]
      BY <3>2 DEF n
    <3> QED
      BY <3>1, <3>2, <3>3
  <2> QED
    BY <1>1, <2>1, <2>2, <2>3
<1>5. u \in Seq(Conn) /\ v \in Seq(Conn) /\ Len(u) = m + n /\ Len(v) = m + n
  BY <1>2, <1>3 DEF u, v
<1>6. u = v
  BY <1>4, <1>5, SeqEqual
<1> QED
  BY <1>6 DEF u, v

(* The client's end of a connection is neither a server's end nor no socket. *)
LEMMA EndsDiffer ==
  ASSUME NEW c \in Conn, NEW d
  PROVE  <<c, "client">> # NoSocket /\ <<c, "client">> # <<d, "server">>
<1>1. <<c, "client">> \in (Process \X Nat) \X {"client", "server"}
  BY ConnectionOK DEF Conn
<1>2. <<c, "client">> # NoSocket
  BY <1>1, ConnectionOK
<1> QED
  BY <1>2

(* One more socket. *)
LEMMA RangeAppended ==
  ASSUME NEW S, NEW s \in Seq(S), NEW e
  PROVE  Range(Append(s, e)) = Range(s) \cup {e}
<1>1. /\ DOMAIN Append(s, e) = 1 .. Len(s) + 1 /\ DOMAIN s = 1 .. Len(s) /\ Len(s) \in Nat
      /\ \A i \in 1 .. Len(s) : Append(s, e)[i] = s[i]
      /\ Append(s, e)[Len(s) + 1] = e
  OBVIOUS
<1> DEFINE t == Append(s, e)
           n == Len(s)
<1> HIDE DEF t, n
<1>2. DOMAIN t = 1 .. n + 1 /\ DOMAIN s = 1 .. n /\ n \in Nat /\ (\A i \in 1 .. n : t[i] = s[i]) /\ t[n + 1] = e
  BY <1>1 DEF t, n
<1>3. ASSUME NEW x \in Range(t) PROVE x \in Range(s) \cup {e}
  <2>1. PICK i \in 1 .. n + 1 : x = t[i]
    BY <1>2 DEF Range
  <2>2. i \in 1 .. n \/ i = n + 1
    BY <1>2
  <2> QED
    BY <1>2, <2>1, <2>2 DEF Range
<1>4. ASSUME NEW x \in Range(s) \cup {e} PROVE x \in Range(t)
  <2>1. CASE x = e
    <3>1. n + 1 \in 1 .. n + 1
      BY <1>2
    <3> QED
      BY <1>2, <2>1, <3>1 DEF Range
  <2>2. CASE x \in Range(s)
    <3>1. PICK i \in 1 .. n : x = s[i]
      BY <1>2, <2>2 DEF Range
    <3>2. i \in 1 .. n + 1
      BY <1>2
    <3> QED
      BY <1>2, <3>1, <3>2 DEF Range
  <2> QED
    BY <2>1, <2>2
<1> QED
  BY <1>3, <1>4 DEF t

(* The connection that p would open next has not been opened, and its earlier ones have
   smaller numbers. *)
LEMMA NextIsNew ==
  ASSUME SocketsOK, NEW p \in Process, p # listener, NEW c \in Opened, c[1] = p
  PROVE  c[2] \in Nat /\ c[2] < Len(sockets[p])
<1>1. SocketOK(p) /\ c \in Conn
  BY SocketsAreOK DEF Opened
<1>2. PICK i \in DOMAIN sockets[p] : sockets[p][i] = <<c, "client">>
  BY DEF Opened, Range
<1>3. sockets[p][i] = <<<<p, i - 1>>, "client">>
  BY <1>1, <1>2, EndsDiffer DEF SocketOK
<1>4. i \in 1 .. Len(sockets[p]) /\ Len(sockets[p]) \in Nat
  BY <1>1, LenProperties DEF SocketOK
<1>5. c = <<p, i - 1>>
  BY <1>2, <1>3
<1> QED
  BY <1>4, <1>5

(* A step opens no connection and leaves their order as it is, or it opens the next one
   of a process, which is the last in the order. *)
Same == Arrivals' = Arrivals /\ Opened' = Opened

Opens(p) ==
  LET c == <<p, Len(sockets[p])>>
  IN /\ p # listener /\ c \in Conn
     /\ Arrivals' = Append(Arrivals, c) /\ Opened' = Opened \cup {c}

(* Listening lets nothing arrive. *)
LEMMA ListenKeepsOrder ==
  ASSUME NInv, NEW p \in Process, Listen(p)
  PROVE  Same
<1>1. ParseOK /\ SocketsOK
  BY DEF NInv
<1>2. pc[p] = "listen" /\ SocketOK(p) /\ DOMAIN sockets = Process /\ backlog' = backlog
  BY <1>1, SocketsAreOK DEF Listen, Bind, BindFails
<1>3. sockets[p] = <<>>
  BY <1>2 DEF SocketOK, Early
<1>4. CASE Bind(p)
  <2>1. listener = NoProcess /\ listener' = p /\ sockets' = sockets /\ p # NoProcess
    BY <1>4, ConnectionOK DEF Bind
  <2>2. Heads(sockets[p]) = <<>>
    BY <1>3 DEF Heads
  <2>3. Arrivals = <<>> \o backlog
    BY <2>1 DEF Arrivals
  <2>4. Arrivals' = Heads(sockets[p]) \o backlog
    BY <1>2, <2>1 DEF Arrivals, Heads
  <2>5. Opened' = Opened
    BY <2>1 DEF Opened, Conn
  <2> QED
    BY <2>2, <2>3, <2>4, <2>5 DEF Same
<1>5. CASE BindFails(p, Slots(p))
  <2>1. /\ listener # NoProcess /\ listener' = listener
        /\ sockets' = [sockets EXCEPT ![p] = [i \in 1 .. Slots(p) |-> NoSocket]]
    BY <1>5 DEF BindFails
  <2>2. p # listener
    BY <1>2 DEF SocketOK, Early
  <2>3. sockets'[listener] = sockets[listener]
    BY <2>1, <2>2
  <2>4. Arrivals' = Arrivals
    <3>1. Arrivals = Heads(sockets[listener]) \o backlog
      BY <2>1 DEF Arrivals, Heads
    <3>2. Arrivals' = Heads(sockets'[listener]) \o backlog
      BY <1>2, <2>1 DEF Arrivals, Heads
    <3> QED
      BY <2>3, <3>1, <3>2
  <2>5. ASSUME NEW c \in Conn
        PROVE  <<c, "client">> \in Range(sockets'[c[1]]) <=> <<c, "client">> \in Range(sockets[c[1]])
    <3>1. CASE c[1] = p
      <4>1. <<c, "client">> \notin Range(sockets[p])
        BY <1>3 DEF Range
      <4>2. sockets'[p] = [i \in 1 .. Slots(p) |-> NoSocket]
        BY <1>2, <2>1
      <4>3. <<c, "client">> \notin Range(sockets'[p])
        BY <4>2, EndsDiffer DEF Range
      <4> QED
        BY <3>1, <4>1, <4>3
    <3>2. CASE c[1] # p
      <4>1. sockets'[c[1]] = sockets[c[1]]
        BY <1>2, <2>1, <3>2 DEF Conn
      <4> QED
        BY <4>1
    <3> QED
      BY <3>1, <3>2
  <2>6. Opened' = Opened
    BY <2>5 DEF Opened, Conn
  <2> QED
    BY <2>4, <2>6 DEF Same
<1> QED
  BY <1>4, <1>5 DEF Listen

(* Accepting moves a connection from the queue behind those in the sockets: the order of
   arrival stays. *)
LEMMA AcceptKeepsOrder ==
  ASSUME NInv, NEW p \in Process, Accept(p)
  PROVE  Same
<1> DEFINE n == Len(sockets[p])
           c == backlog[1]
<1>1. ParseOK /\ SocketsOK
  BY DEF NInv
<1>2. /\ p = listener /\ listener' = listener /\ c \in Conn
      /\ n \in Nat /\ n < Slots(p) /\ Slots(p) \in 1 .. MaxSockets
      /\ sockets' = [sockets EXCEPT ![p] = Append(sockets[p], <<c, "server">>)]
      /\ sockets'[p] \in Seq(End \cup {NoSocket}) /\ Len(sockets'[p]) = n + 1
      /\ \A i \in 1 .. n : sockets'[p][i] = sockets[p][i]
      /\ sockets'[p][n + 1] = <<c, "server">>
      /\ backlog' \in Seq(Conn) /\ Len(backlog') = Len(backlog) - 1
      /\ Len(backlog) \in Nat \ {0}
      /\ \A i \in 1 .. Len(backlog) - 1 : backlog'[i] = backlog[i + 1]
      /\ UNCHANGED <<setup, parse>>
  BY <1>1, AcceptFacts
<1>3. /\ SocketOK(p) /\ DOMAIN sockets = Process /\ p # NoProcess
      /\ SocketsOK'
  BY <1>1, SocketsAreOK, AcceptKeepsSockets, ConnectionOK
<1>4. \A i \in DOMAIN sockets'[p] : sockets'[p][i] \in Conn \X {"server"}
  BY <1>2, <1>3 DEF SocketsOK, Conn
<1>5. /\ Heads(sockets[p]) \in Seq(Conn) /\ Len(Heads(sockets[p])) = n
      /\ \A i \in 1 .. n : Heads(sockets[p])[i] = sockets[p][i][1]
  <2>1. \A i \in DOMAIN sockets[p] : sockets[p][i] \in Conn \X {"server"}
    BY <1>2, <1>3 DEF SocketOK
  <2> QED
    BY <1>3, <2>1, HeadsAre DEF SocketOK
<1> DEFINE g == Heads(sockets'[p])
<1>6. /\ g \in Seq(Conn) /\ Len(g) = n + 1
      /\ \A i \in 1 .. n + 1 : g[i] = sockets'[p][i][1]
  <2> DEFINE s == sockets'[p]
  <2>1. s \in Seq(End \cup {NoSocket}) /\ Len(s) = n + 1 /\ g = Heads(s)
        /\ \A i \in DOMAIN s : s[i] \in Conn \X {"server"}
    BY <1>2, <1>4
  <2> HIDE DEF s, g, n
  <2>2. g \in Seq(Conn) /\ Len(g) = n + 1 /\ \A i \in 1 .. n + 1 : g[i] = s[i][1]
    BY <2>1, HeadsAre
  <2> QED
    BY <2>2 DEF s
<1>7. Arrivals = Heads(sockets[p]) \o backlog /\ backlog \in Seq(Conn)
  BY <1>2, <1>3, ArrivalsAre
<1>8. Arrivals' = g \o backlog'
  BY <1>2, <1>3 DEF Arrivals, Heads
<1> HIDE DEF g
<1>9. g \o backlog' = Heads(sockets[p]) \o backlog
  <2>1. g[n + 1] = c
    <3>1. n + 1 \in 1 .. n + 1 /\ sockets'[p][n + 1][1] = c
      BY <1>2
    <3> QED
      BY <1>6, <3>1
  <2>2. \A i \in 1 .. n : g[i] = Heads(sockets[p])[i]
    <3> SUFFICES ASSUME NEW i \in 1 .. n PROVE g[i] = Heads(sockets[p])[i]
      OBVIOUS
    <3>1. i \in 1 .. n + 1
      BY <1>2
    <3> QED
      BY <1>2, <1>5, <1>6, <3>1
  <2>3. backlog # <<>>
    BY <1>2
  <2> QED
    <3> DEFINE h == Heads(sockets[p])
               a == backlog'
    <3>1. /\ h \in Seq(Conn) /\ backlog \in Seq(Conn) /\ g \in Seq(Conn) /\ a \in Seq(Conn)
          /\ Len(h) = n
      BY <1>2, <1>5, <1>6, <1>7
    <3>2. /\ Len(g) = Len(h) + 1 /\ \A i \in 1 .. Len(h) : g[i] = h[i]
          /\ g[Len(h) + 1] = backlog[1]
      BY <1>6, <2>1, <2>2, <3>1
    <3>3. /\ Len(a) = Len(backlog) - 1
          /\ \A i \in 1 .. Len(backlog) - 1 : a[i] = backlog[i + 1]
      BY <1>2
    <3> HIDE DEF h, a, n, c
    <3>4. g \o a = h \o backlog
      BY ZenonT(40), <2>3, <3>1, <3>2, <3>3, MovedOver
    <3> QED
      BY <3>4 DEF h, a
<1>10. Opened' = Opened
  <2>1. ASSUME NEW d \in Conn
        PROVE  <<d, "client">> \in Range(sockets'[d[1]]) <=> <<d, "client">> \in Range(sockets[d[1]])
    <3>1. CASE d[1] = p
      <4>1. sockets'[p] = Append(sockets[p], <<c, "server">>)
        BY <1>2, <1>3
      <4>2. Range(sockets'[p]) = Range(sockets[p]) \cup {<<c, "server">>}
        BY <1>3, <4>1, RangeAppended DEF SocketOK
      <4> QED
        BY <3>1, <4>2, EndsDiffer
    <3>2. CASE d[1] # p
      <4>1. sockets'[d[1]] = sockets[d[1]]
        BY <1>2, <1>3, <3>2 DEF Conn
      <4> QED
        BY <4>1
    <3> QED
      BY <3>1, <3>2
  <2> QED
    BY <2>1 DEF Opened, Conn
<1> QED
  BY <1>7, <1>8, <1>9, <1>10 DEF Same

(* Connecting appends to what has arrived, or opens nothing. *)
LEMMA ConnectOpens ==
  ASSUME NInv, NEW p \in Process, Connect(p)
  PROVE  Same \/ Opens(p)
<1> DEFINE n == Len(sockets[p])
           c == <<p, n>>
<1>1. ParseOK /\ SocketsOK
  BY DEF NInv
<1>2. /\ p # listener /\ listener' = listener
      /\ DOMAIN sockets' = Process
      /\ \A q \in Process : q # p => sockets'[q] = sockets[q]
      /\ \/ /\ sockets'[p] = Append(sockets[p], <<c, "client">>) /\ c \in Conn
            /\ backlog' = Append(backlog, c) /\ Listening
         \/ sockets' = sockets /\ backlog' = backlog
         \/ sockets'[p] = Append(sockets[p], NoSocket) /\ backlog' = backlog
  BY <1>1, ConnectFacts
<1>3. SocketOK(p) /\ DOMAIN sockets = Process
  BY <1>1, SocketsAreOK
<1>4. listener # NoProcess => sockets'[listener] = sockets[listener]
  BY <1>1, <1>2 DEF SocketsOK
<1>5. backlog' = backlog => Arrivals' = Arrivals
  BY <1>2, <1>4 DEF Arrivals
<1>6. ASSUME NEW e, sockets'[p] = Append(sockets[p], e)
      PROVE  \A d \in Conn : <<d, "client">> \in Range(sockets'[d[1]]) <=>
               <<d, "client">> \in Range(sockets[d[1]]) \/ (d[1] = p /\ <<d, "client">> = e)
  <2> SUFFICES ASSUME NEW d \in Conn
               PROVE  <<d, "client">> \in Range(sockets'[d[1]]) <=>
                        <<d, "client">> \in Range(sockets[d[1]]) \/ (d[1] = p /\ <<d, "client">> = e)
    OBVIOUS
  <2>1. Range(sockets'[p]) = Range(sockets[p]) \cup {e}
    BY <1>3, <1>6, RangeAppended DEF SocketOK
  <2>2. d[1] # p => sockets'[d[1]] = sockets[d[1]]
    BY <1>2 DEF Conn
  <2> QED
    BY <2>1, <2>2
<1>7. CASE sockets' = sockets /\ backlog' = backlog
  BY <1>5, <1>7 DEF Same, Opened, Conn
<1>8. CASE sockets'[p] = Append(sockets[p], NoSocket) /\ backlog' = backlog
  <2>1. \A d \in Conn : <<d, "client">> \in Range(sockets'[d[1]]) <=> <<d, "client">> \in Range(sockets[d[1]])
    BY <1>6, <1>8, EndsDiffer
  <2>2. Opened' = Opened
    BY <2>1 DEF Opened, Conn
  <2> QED
    BY <1>5, <1>8, <2>2 DEF Same
<1>9. CASE /\ sockets'[p] = Append(sockets[p], <<c, "client">>) /\ c \in Conn
           /\ backlog' = Append(backlog, c) /\ Listening
  <2> DEFINE h == IF listener = NoProcess THEN <<>> ELSE Heads(sockets[listener])
  <2>1. Arrivals = h \o backlog /\ h \in Seq(Conn) /\ backlog \in Seq(Conn)
    BY ArrivalsAre
  <2>2. Arrivals' = h \o backlog'
    BY <1>2, <1>4 DEF Arrivals, Heads
  <2> HIDE DEF h
  <2>3. h \o Append(backlog, c) = Append(h \o backlog, c)
    BY SMTT(30), <1>9, <2>1, AppendIsConcat, ConcatAssociative, ConcatProperties
  <2>4. \A d \in Conn : <<d, "client">> \in Range(sockets'[d[1]]) <=>
          <<d, "client">> \in Range(sockets[d[1]]) \/ d = c
    <3>1. \A d : <<d, "client">> = <<c, "client">> <=> d = c
      OBVIOUS
    <3>2. c[1] = p
      OBVIOUS
    <3> QED
      BY Zenon, <1>6, <1>9, <3>1, <3>2
  <2>5. Opened' = Opened \cup {c}
    BY <1>9, <2>4 DEF Opened, Conn
  <2> QED
    BY <1>2, <1>9, <2>1, <2>2, <2>3, <2>5 DEF Opens
<1> QED
  BY <1>2, <1>7, <1>8, <1>9

(* What has arrived stays, or one connection comes behind it. *)
LEMMA StepKeepsOrder ==
  ASSUME NInv, NEW p \in Process, Step(p)
  PROVE  Same \/ Opens(p)
<1>1. Connecting(p) \/ \E l \in PC : Moves(p, l)
  BY StepKeepsN
<1>2. (\E l \in PC : Moves(p, l)) => Same
  BY DEF Moves, Same, Arrivals, Opened, Conn
<1> QED
  BY <1>1, <1>2, ListenKeepsOrder, AcceptKeepsOrder, ConnectOpens DEF Connecting

(* The inductive invariant of the order. *)
OrderInv == NInv /\ SlotsInOrder

(* A new connection comes behind those that its process opened before. *)
LEMMA OpensInOrder ==
  ASSUME NInv, SlotsInOrder, NEW p \in Process, Opens(p)
  PROVE  SlotsInOrder'
<1> DEFINE c == <<p, Len(sockets[p])>>
           s == Arrivals
           t == Append(s, c)
           n == Len(s)
<1>1. s \in Seq(Conn) /\ n \in Nat /\ Arrivals' = t /\ Opened' = Opened \cup {c} /\ c \in Conn
      /\ p # listener
  BY ArrivalsAre, LenProperties DEF Opens
<1>2. Range(s) = Opened
  BY DEF SlotsInOrder, Opened
<1>3. \A i, j \in DOMAIN s : i < j => s[i] # s[j] /\ (s[i][1] = s[j][1] => s[i][2] < s[j][2])
  BY DEF SlotsInOrder
<1>4. Range(t) = Range(s) \cup {c}
  BY <1>1, RangeAppended
<1>5. DOMAIN t = 1 .. n + 1 /\ DOMAIN s = 1 .. n /\ (\A i \in 1 .. n : t[i] = s[i]) /\ t[n + 1] = c
  BY <1>1, AppendProperties, LenProperties
<1>6. \A i \in 1 .. n : s[i] # c /\ (s[i][1] = p => s[i][2] < c[2])
  <2> SUFFICES ASSUME NEW i \in 1 .. n PROVE s[i] # c /\ (s[i][1] = p => s[i][2] < c[2])
    OBVIOUS
  <2>1. s[i] \in Opened
    BY <1>2, <1>5 DEF Range
  <2>2. s[i][1] = p => s[i][2] \in Nat /\ s[i][2] < Len(sockets[p])
    BY <1>1, <2>1, NextIsNew DEF NInv
  <2>3. c[1] = p /\ c[2] = Len(sockets[p])
    OBVIOUS
  <2>4. SocketOK(p) /\ Len(sockets[p]) \in Nat
    BY SocketsAreOK, LenProperties DEF NInv, SocketOK
  <2>5. \A x, y \in Nat : x < y => x # y
    OBVIOUS
  <2> HIDE DEF c, s
  <2> QED
    BY <2>2, <2>3, <2>4, <2>5
<1> HIDE DEF t, s, n
<1>7. ASSUME NEW i \in DOMAIN t, NEW j \in DOMAIN t, i < j
      PROVE  t[i] # t[j] /\ (t[i][1] = t[j][1] => t[i][2] < t[j][2])
  <2>1. i \in 1 .. n
    BY <1>1, <1>5, <1>7
  <2>2. CASE j \in 1 .. n
    BY <1>3, <1>5, <1>7, <2>1, <2>2
  <2>3. CASE j = n + 1
    <3>1. t[i] = s[i] /\ t[j] = c /\ c[1] = p
      BY <1>5, <2>1, <2>3
    <3> HIDE DEF c
    <3> QED
      BY <1>6, <2>1, <3>1
  <2> QED
    BY <1>1, <1>5, <2>2, <2>3
<1>8. Range(Arrivals') = Opened'
  BY <1>1, <1>2, <1>4
<1> QED
  BY <1>1, <1>7, <1>8 DEF SlotsInOrder, Opened

(* Without a new connection the order stays. *)
LEMMA SameInOrder ==
  ASSUME SlotsInOrder, Same
  PROVE  SlotsInOrder'
<1>1. Range(Arrivals) = Opened
      /\ \A i, j \in DOMAIN Arrivals : i < j =>
           /\ Arrivals[i] # Arrivals[j]
           /\ Arrivals[i][1] = Arrivals[j][1] => Arrivals[i][2] < Arrivals[j][2]
  BY DEF SlotsInOrder, Opened
<1>2. Range(Arrivals') = Opened'
      /\ \A i, j \in DOMAIN Arrivals' : i < j =>
           /\ Arrivals'[i] # Arrivals'[j]
           /\ Arrivals'[i][1] = Arrivals'[j][1] => Arrivals'[i][2] < Arrivals'[j][2]
  BY <1>1 DEF Same
<1> QED
  BY <1>2 DEF SlotsInOrder, Opened

(* Nothing has arrived in the beginning. *)
LEMMA InOrderInitially ==
  ASSUME Init
  PROVE  OrderInv
<1>1. NInv
  BY NInitially
<1>2. /\ sockets = [p \in Process |-> <<>>] /\ listener = NoProcess /\ backlog = <<>>
  BY DEF Init, NetInit
<1>3. Arrivals = <<>>
  BY <1>2 DEF Arrivals
<1>4. Range(Arrivals) = {} /\ DOMAIN Arrivals = {}
  BY <1>3 DEF Range
<1>5. ASSUME NEW c \in Conn PROVE <<c, "client">> \notin Range(sockets[c[1]])
  <2>1. sockets[c[1]] = <<>>
    BY <1>2 DEF Conn
  <2> QED
    BY <2>1 DEF Range
<1> QED
  BY <1>1, <1>4, <1>5 DEF OrderInv, SlotsInOrder

(* A server's socket i belongs to the connection that came as the i-th, none is in two
   places or in none, and the connections of one process keep their order. *)
THEOREM SlotsAreInOrder == Spec => []SlotsInOrder
<1>1. Init => OrderInv
  BY InOrderInitially
<1>2. OrderInv /\ [Next]_vars => OrderInv'
  <2> SUFFICES ASSUME OrderInv, [Next]_vars PROVE OrderInv'
    OBVIOUS
  <2>1. CASE UNCHANGED vars
    <3>1. Same
      BY <2>1 DEF Same, Arrivals, Opened, Conn, vars, netVars
    <3> QED
      BY <2>1, <3>1, NStutters, SameInOrder DEF OrderInv
  <2>2. ASSUME NEW p \in Process, Step(p) PROVE OrderInv'
    BY <2>2, StepKeepsN, StepKeepsOrder, SameInOrder, OpensInOrder DEF OrderInv
  <2> QED
    BY <2>1, <2>2 DEF Next
<1>3. OrderInv => SlotsInOrder
  BY DEF OrderInv
<1> QED
  BY <1>1, <1>2, <1>3, PTL DEF Spec

(***************************************************************************)
(* What a well-formed command line says is what is read.                   *)
(***************************************************************************)

(* The loop has come to the k-th argument, which is not the value of an option. *)
WantsValue(p, i) == IsOpt(Argv(p), i) /\ OptionAt(p, i).type # "flag"

Begins(p, k) == k \in 1 .. Len(Argv(p)) + 1 /\ (k > 1 => ~ WantsValue(p, k - 1))

(* The last place before k where the option x is given. *)
LastBefore(p, x, k, i) ==
  /\ i \in 1 .. k - 1 /\ Argv(p)[i] = <<"opt", x>>
  /\ \A j \in 1 .. k - 1 : Argv(p)[j] = <<"opt", x>> => j <= i

GivenAt(p, i) == IF OptionAt(p, i).type = "flag" THEN TRUE ELSE Argv(p)[i + 1][2]

(* The options before k are in s, and nothing else is. *)
ReadUpTo(p, s, k) ==
  /\ s.set = {Argv(p)[i][2] : i \in {j \in 1 .. k - 1 : IsOpt(Argv(p), j)}}
  /\ \A x \in DOMAIN s.val :
       /\ (\A i \in 1 .. k - 1 : Argv(p)[i] # <<"opt", x>>) =>
            s.val[x] = Defaults(setup[p].program)[x]
       /\ \A i : LastBefore(p, x, k, i) => s.val[x] = GivenAt(p, i)

(* p is still reading, or has read all of it. *)
ReadOK(p) ==
  /\ pc[p] = "parse" /\ WellFormed(p) =>
       \E k : Begins(p, k) /\ parse[p].args = Rest(p, k) /\ ReadUpTo(p, parse[p], k)
  /\ pc[p] # "parse" /\ WellFormed(p) =>
       IF Required(p) \subseteq Given(p)
         THEN pc[p] # "usage" /\ \A x \in DOMAIN val(p) : val(p)[x] = Written(p, x)
         ELSE pc[p] = "usage"
  /\ pc[p] \notin {"parse", "usage", "aborted"} =>
       Required(p) \subseteq parse[p].set \/ parse[p].args # <<>>

ReadInv == NInv /\ \A p \in Process : ReadOK(p)

(* The parts of being well-formed. *)
LEMMA WellFormedIs ==
  ASSUME NEW p, WellFormed(p)
  PROVE  /\ \A i \in DOMAIN Argv(p) : IsOpt(Argv(p), i) => \E o \in Options(p) : o.name = Argv(p)[i][2]
         /\ \A i \in DOMAIN Argv(p) : WantsValue(p, i) =>
              /\ i + 1 \in DOMAIN Argv(p) /\ ~ IsOpt(Argv(p), i + 1)
              /\ OptionAt(p, i).type = "num" => Argv(p)[i + 1][1] = "num"
         /\ \A i \in DOMAIN Argv(p) : ~ IsOpt(Argv(p), i) => i > 1 /\ WantsValue(p, i - 1)
BY DEF WellFormed, WantsValue, Argv

(* The table has one option for the argument at i: the type is that of any of its name. *)
LEMMA OptionOfArgument ==
  ASSUME NEW p, NEW i, NEW o \in Options(p), o.name = Argv(p)[i][2]
  PROVE  OptionAt(p, i).type = o.type
<1> DEFINE q == CHOOSE a \in Options(p) : a.name = setup[p].argv[i][2]
<1>1. \E a \in Options(p) : a.name = setup[p].argv[i][2]
  BY DEF Argv
<1>2. q \in Options(p) /\ q.name = setup[p].argv[i][2]
  BY <1>1
<1>3. OptionAt(p, i) = q
  BY DEF OptionAt
<1> HIDE DEF q
<1> QED
  BY <1>2, <1>3, TypesByName DEF Argv

(* The number of arguments that are left. *)
LEMMA Remaining ==
  ASSUME NEW n \in Nat, NEW k \in 1 .. n + 1, NEW m, m = n + 1 - k, k # n + 1
  PROVE  k \in 1 .. n /\ m \in Nat /\ 1 <= m
  OBVIOUS

(* A round of the loop on a well-formed command line reads the option at k, and its value
   where it takes one, and begins again at an option. *)
LEMMA RoundIsRight ==
  ASSUME setup \in Setups, NEW p \in Process, WellFormed(p), NEW s, NEW k,
         DOMAIN s.val = DOMAIN Defaults(setup[p].program),
         Begins(p, k), s.args = Rest(p, k), ReadUpTo(p, s, k),
         ~ Stopped(s), NEW o \in Matching(Options(p), s)
  PROVE  /\ ~ ReadsBeyond(o, s)
         /\ \E j : Begins(p, j) /\ Parsed(o, s).args = Rest(p, j) /\ ReadUpTo(p, Parsed(o, s), j)
<1> DEFINE a == Argv(p)
           u == Parsed(o, s)
<1>1. a \in Seq(Argument) /\ Len(a) \in Nat /\ DOMAIN a = 1 .. Len(a) /\ k \in 1 .. Len(a) + 1
  BY SetupsOK, LenProperties DEF Argv, Begins
<1>2. PICK r : s.args = r /\ r = SubSeq(a, k, Len(a)) /\ Len(r) = Len(a) + 1 - k
               /\ (r = <<>> <=> k = Len(a) + 1) /\ (\A i \in 1 .. Len(r) : r[i] = a[k + i - 1])
  <2>1. s.args = SubSeq(a, k, Len(a))
    BY DEF Rest
  <2> DEFINE q == SubSeq(a, k, Len(a))
  <2>2. /\ Len(q) = Len(a) + 1 - k /\ (q = <<>> <=> k = Len(a) + 1)
        /\ \A i \in 1 .. Len(q) : q[i] = a[k + i - 1]
    BY <1>1, RestOfArgs
  <2> QED
    BY Zenon, <2>1, <2>2
<1>3. r # <<>> /\ r[1][1] = "opt" /\ o.name = r[1][2] /\ o \in Options(p)
  BY <1>2 DEF Stopped, Matching
<1>4. k \in 1 .. Len(a) /\ r[1] = a[k] /\ (2 <= Len(r) => r[2] = a[k + 1])
  <2>1. k \in 1 .. Len(a) /\ Len(r) \in Nat /\ 1 <= Len(r)
    BY Zenon, <1>1, <1>2, <1>3, Remaining
  <2>2. k + 1 - 1 = k /\ k + 2 - 1 = k + 1 /\ 1 \in 1 .. Len(r) /\ (2 <= Len(r) => 2 \in 1 .. Len(r))
    BY <2>1
  <2>3. r[1] = a[k + 1 - 1] /\ (2 <= Len(r) => r[2] = a[k + 2 - 1])
    BY Zenon, <1>2, <2>2
  <2> QED
    BY Zenon, <2>1, <2>2, <2>3
<1>5. IsOpt(a, k) /\ OptionAt(p, k).type = o.type /\ o.name = a[k][2]
  BY <1>3, <1>4, OptionOfArgument DEF IsOpt
<1>6. o.type # "flag" => /\ k + 1 \in 1 .. Len(a) /\ ~ IsOpt(a, k + 1)
                         /\ o.type = "num" => a[k + 1][1] = "num"
  BY <1>1, <1>4, <1>5, WellFormedIs DEF WantsValue
<1>7. o.type \in {"num", "str", "double", "flag"}
  BY <1>3, NumberOptions
<1>8. o.type # "flag" => 2 <= Len(r) /\ Len(r) # 1
  BY <1>1, <1>2, <1>6
<1>9. ~ ReadsBeyond(o, s)
  BY <1>2, <1>8 DEF ReadsBeyond
<1>10. TakesValue(o, s) <=> o.type # "flag"
  BY Zenon, <1>2, <1>4, <1>6, <1>7, <1>8 DEF TakesValue
<1> DEFINE j == IF o.type # "flag" THEN k + 2 ELSE k + 1
<1>11. u.args = Rest(p, j)
  BY <1>1, <1>9, <1>10, RoundReads
<1>12. Begins(p, j)
  <2>1. CASE o.type = "flag"
    <3>1. ~ WantsValue(p, k) /\ j = k + 1 /\ j \in 1 .. Len(a) + 1 /\ j - 1 = k
      BY <1>1, <1>4, <1>5, <2>1 DEF WantsValue
    <3> QED
      BY <3>1 DEF Begins
  <2>2. CASE o.type # "flag"
    <3>1. ~ WantsValue(p, k + 1) /\ j = k + 2 /\ j \in 1 .. Len(a) + 1 /\ j - 1 = k + 1
      BY <1>1, <1>4, <1>6, <2>2 DEF WantsValue
    <3> QED
      BY <3>1 DEF Begins
  <2> QED
    BY <2>1, <2>2
<1>13. \A i : i \in 1 .. j - 1 /\ IsOpt(a, i) <=> (i \in 1 .. k - 1 /\ IsOpt(a, i)) \/ i = k
  <2>1. k \in Nat /\ k >= 1
    BY <1>4
  <2>2. CASE o.type = "flag"
    <3>1. \A i : i \in 1 .. j - 1 <=> i \in 1 .. k - 1 \/ i = k
      BY <2>1, <2>2
    <3> QED
      BY Zenon, <1>5, <3>1
  <2>3. CASE o.type # "flag"
    <3>1. \A i : i \in 1 .. j - 1 <=> i \in 1 .. k - 1 \/ i = k \/ i = k + 1
      BY <2>1, <2>3
    <3> QED
      BY Zenon, <1>5, <1>6, <2>3, <3>1
  <2> QED
    BY <2>2, <2>3
<1>14. a[k] = <<"opt", o.name>> /\ \A i, x : a[i] = <<"opt", x>> => IsOpt(a, i)
  <2>1. a[k] = <<"opt", o.name>>
    BY <1>1, <1>9, RoundReads
  <2> QED
    BY <2>1 DEF IsOpt
<1> HIDE DEF j, a
<1>15. \A x, i : i \in 1 .. j - 1 /\ a[i] = <<"opt", x>> <=>
                (i \in 1 .. k - 1 /\ a[i] = <<"opt", x>>) \/ (i = k /\ x = o.name)
  <2>1. \A x, y : <<"opt", x>> = <<"opt", y>> <=> x = y
    OBVIOUS
  <2> QED
    BY Zenon, <1>13, <1>14, <2>1
<1>16. u.set = {a[i][2] : i \in {n \in 1 .. j - 1 : IsOpt(a, n)}}
  <2>1. u.set = s.set \cup {a[k][2]}
    BY <1>5, ParsedParts
  <2>2. s.set = {a[i][2] : i \in {n \in 1 .. k - 1 : IsOpt(a, n)}}
    BY DEF ReadUpTo, a
  <2>3. {n \in 1 .. j - 1 : IsOpt(a, n)} = {n \in 1 .. k - 1 : IsOpt(a, n)} \cup {k}
    BY <1>13
  <2> QED
    BY <2>1, <2>2, <2>3
<1>17. u.val = [s.val EXCEPT ![o.name] = IF o.type # "flag" THEN a[k + 1][2] ELSE TRUE]
  <2>1. u.val = [s.val EXCEPT ![o.name] = IF TakesValue(o, s) THEN s.args[2][2]
                                          ELSE IF o.type = "flag" THEN TRUE ELSE @]
    BY ParsedParts
  <2>2. CASE o.type = "flag"
    <3>1. u.val = [s.val EXCEPT ![o.name] = TRUE]
      BY <1>10, <2>1, <2>2
    <3> QED
      BY <2>2, <3>1
  <2>3. CASE o.type # "flag"
    <3>1. s.args[2][2] = a[k + 1][2]
      BY <1>2, <1>4, <1>8, <2>3
    <3>2. u.val = [s.val EXCEPT ![o.name] = s.args[2][2]]
      BY <1>10, <2>1, <2>3
    <3> QED
      BY <2>3, <3>1, <3>2
  <2> QED
    BY <2>2, <2>3
<1> HIDE DEF u
<1>18. ASSUME NEW x \in DOMAIN u.val
       PROVE  /\ (\A i \in 1 .. j - 1 : a[i] # <<"opt", x>>) =>
                   u.val[x] = Defaults(setup[p].program)[x]
              /\ \A i : LastBefore(p, x, j, i) => u.val[x] = GivenAt(p, i)
  <2>1. CASE x # o.name
    <3>1. x \in DOMAIN s.val /\ u.val[x] = s.val[x]
      BY <1>17, <2>1
    <3>2. \A i : LastBefore(p, x, j, i) <=> LastBefore(p, x, k, i)
      BY Zenon, <1>15, <2>1 DEF LastBefore, a
    <3>3. (\A i \in 1 .. j - 1 : a[i] # <<"opt", x>>) <=> (\A i \in 1 .. k - 1 : a[i] # <<"opt", x>>)
      BY Zenon, <1>15, <2>1
    <3> QED
      BY Zenon, <3>1, <3>2, <3>3 DEF ReadUpTo, a
  <2>2. CASE x = o.name
    <3>1. u.val[x] = IF o.type # "flag" THEN a[k + 1][2] ELSE TRUE
      BY <1>17, <2>2
    <3>2. u.val[x] = GivenAt(p, k)
      BY <1>5, <3>1 DEF GivenAt, a
    <3>3. k \in 1 .. j - 1 /\ a[k] = <<"opt", x>>
      BY Zenon, <1>15, <2>2
    <3>4. ASSUME NEW i, LastBefore(p, x, j, i) PROVE i = k
      <4>1. i \in 1 .. j - 1 /\ a[i] = <<"opt", x>> /\ k <= i
        BY <3>3, <3>4 DEF LastBefore, a
      <4>2. i \in 1 .. k - 1 \/ i = k
        BY Zenon, <1>15, <4>1
      <4> QED
        BY <1>4, <4>1, <4>2
    <3> QED
      BY Zenon, <3>2, <3>3, <3>4
  <2> QED
    BY <2>1, <2>2
<1>19. ReadUpTo(p, u, j)
  BY <1>16, <1>18 DEF ReadUpTo, a
<1> QED
  BY <1>9, <1>11, <1>12, <1>19 DEF u

(* The last of some places. *)
LEMMA LastExists ==
  ASSUME NEW n \in Nat, NEW S \in SUBSET (1 .. n), S # {}
  PROVE  \E m \in S : \A i \in S : i <= m
<1> DEFINE T == {m \in Nat : \A i \in S : i <= m}
<1>1. n \in T
  OBVIOUS
<1>2. PICK m \in T : \A k \in T : m <= k
  BY <1>1, Least
<1>3. m \in S
  <2> SUFFICES ASSUME m \notin S PROVE FALSE
    OBVIOUS
  <2>1. PICK j \in S : TRUE
    OBVIOUS
  <2>2. m - 1 \in Nat
    BY <1>2, <2>1
  <2>3. m - 1 \in T
    BY <1>2, <2>2
  <2> QED
    BY <1>2, <2>2, <2>3
<1> QED
  BY <1>2, <1>3

(* Both tables require a role, which is a number. *)
LEMMA RoleIsRequired ==
  ASSUME NEW p
  PROVE  \E o \in Options(p) : o.name = "r" /\ o.required /\ o.type = "num"
<1> DEFINE o == Option("r", "num", TRUE)
<1>1. o.name = "r" /\ o.required /\ o.type = "num"
  BY DEF Option
<1> HIDE DEF o
<1>2. o \in BenchOptions /\ o \in DemoOptions
  BY Zenon DEF BenchOptions, DemoOptions, o
<1> QED
  BY <1>1, <1>2 DEF Options

(* Where the loop ends on a well-formed command line. *)
LEMMA EndIsRight ==
  ASSUME setup \in Setups, NEW p \in Process, WellFormed(p), NEW s, NEW k,
         Begins(p, k), s.args = Rest(p, k), ReadUpTo(p, s, k), Stopped(s)
  PROVE  /\ s.args = <<>> /\ s.set = Given(p)
         /\ \A x \in DOMAIN s.val : s.val[x] = Written(p, x)
         /\ "r" \in DOMAIN s.val /\ "r" \in Given(p) => s.val["r"] # Unset
<1> DEFINE a == Argv(p)
           n == Len(a)
<1>1. a \in Seq(Argument) /\ n \in Nat /\ DOMAIN a = 1 .. n /\ k \in 1 .. n + 1
  BY SetupsOK, LenProperties DEF Argv, Begins
<1>2. k = n + 1 /\ s.args = <<>>
  <2> DEFINE r == SubSeq(a, k, Len(a))
  <2>1. /\ Len(r) = n + 1 - k /\ (r = <<>> <=> k = n + 1)
        /\ \A i \in 1 .. Len(r) : r[i] = a[k + i - 1]
    BY <1>1, RestOfArgs
  <2>2. s.args = r
    BY DEF Rest
  <2> HIDE DEF r
  <2>3. ASSUME k # n + 1 PROVE FALSE
    <3>1. k \in 1 .. n /\ 1 \in 1 .. Len(r) /\ k + 1 - 1 = k
      BY <1>1, <2>1, <2>3
    <3>2. r[1] = a[k] /\ r # <<>>
      BY Zenon, <2>1, <2>3, <3>1
    <3>3. ~ IsOpt(a, k)
      BY <2>2, <3>2 DEF Stopped, IsOpt
    <3> QED
      BY <1>1, <3>1, <3>3, WellFormedIs DEF Begins
  <2> QED
    BY <2>1, <2>2, <2>3
<1>3. k - 1 = n
  BY <1>1, <1>2
<1>4. Given(p) = {a[i][2] : i \in {j \in 1 .. n : IsOpt(a, j)}}
  BY <1>1 DEF Given, Argv
<1>5. s.set = Given(p)
  BY <1>3, <1>4 DEF ReadUpTo
<1>6. \A i \in 1 .. n : \A x : a[i] = <<"opt", x>> <=> IsOpt(a, i) /\ a[i][2] = x
  <2> SUFFICES ASSUME NEW i \in 1 .. n, NEW x PROVE a[i] = <<"opt", x>> <=> IsOpt(a, i) /\ a[i][2] = x
    OBVIOUS
  <2>1. a[i] = <<a[i][1], a[i][2]>>
    BY <1>1, ElementOfSeq, ArgumentIs
  <2> HIDE DEF a
  <2> QED
    BY <2>1 DEF IsOpt
<1>7. ASSUME NEW x
      PROVE  /\ x \notin Given(p) => Written(p, x) = Defaults(setup[p].program)[x]
                                     /\ \A i \in 1 .. n : a[i] # <<"opt", x>>
             /\ x \in Given(p) => \E i : LastBefore(p, x, k, i) /\ Written(p, x) = GivenAt(p, i)
  <2> DEFINE S == {i \in DOMAIN setup[p].argv : setup[p].argv[i] = <<"opt", x>>}
  <2>1. S \in SUBSET (1 .. n) /\ \A i : i \in S <=> i \in 1 .. n /\ a[i] = <<"opt", x>>
    BY <1>1 DEF Argv
  <2>2. x \in Given(p) <=> S # {}
    BY <1>4, <1>6, <2>1
  <2>3. CASE x \notin Given(p)
    <3>1. Written(p, x) = Defaults(setup[p].program)[x]
      BY <2>3 DEF Written
    <3> QED
      BY <2>1, <2>2, <2>3, <3>1
  <2>4. CASE x \in Given(p)
    <3> DEFINE at == Max(S)
    <3> HIDE DEF S
    <3>1. \E m \in S : \A i \in S : i <= m
      BY <1>1, <2>1, <2>2, <2>4, LastExists
    <3>2. at \in S /\ \A i \in S : i <= at
      <4>1. \E m \in S : \A i \in S : m >= i
        BY <1>1, <2>1, <3>1
      <4>2. at \in S /\ \A i \in S : at >= i
        BY <4>1 DEF Max
      <4> QED
        BY <1>1, <2>1, <4>2
    <3>3. Written(p, x) = IF OptionAt(p, at).type = "flag" THEN TRUE ELSE a[at + 1][2]
      BY <2>4 DEF Written, S, Argv
    <3> HIDE DEF at
    <3>4. Written(p, x) = GivenAt(p, at)
      BY <3>3 DEF GivenAt
    <3>5. LastBefore(p, x, k, at)
      BY <1>3, <2>1, <3>2 DEF LastBefore
    <3> QED
      BY <2>4, <3>4, <3>5
  <2> QED
    BY <2>3, <2>4
<1>8. ASSUME NEW x \in DOMAIN s.val PROVE s.val[x] = Written(p, x)
  BY <1>3, <1>7 DEF ReadUpTo
<1>9. ASSUME "r" \in DOMAIN s.val, "r" \in Given(p) PROVE s.val["r"] # Unset
  <2>1. PICK i : LastBefore(p, "r", k, i) /\ s.val["r"] = GivenAt(p, i)
    BY <1>7, <1>8, <1>9
  <2>2. i \in 1 .. n /\ a[i] = <<"opt", "r">>
    BY <1>3, <2>1 DEF LastBefore
  <2>3. OptionAt(p, i).type = "num"
    BY <2>2, RoleIsRequired, OptionOfArgument
  <2>4. WantsValue(p, i)
    BY <2>2, <2>3 DEF WantsValue, IsOpt
  <2>5. i + 1 \in 1 .. n /\ a[i + 1][1] = "num"
    BY <1>1, <2>2, <2>3, <2>4, WellFormedIs
  <2>6. a[i + 1][2] \in Nat
    BY <1>1, <2>5, ElementOfSeq, ArgumentIs
  <2>7. s.val["r"] = a[i + 1][2]
    BY <2>1, <2>3 DEF GivenAt
  <2> QED
    BY <2>6, <2>7 DEF Unset
<1> QED
  BY <1>2, <1>5, <1>8, <1>9

(* What is said of the command line does not change with the rest. *)
LEMMA ArgsKept ==
  ASSUME setup' = setup, NEW p
  PROVE  /\ Argv(p)' = Argv(p) /\ (WellFormed(p)' <=> WellFormed(p))
         /\ Required(p)' = Required(p) /\ Given(p)' = Given(p)
         /\ \A x : Written(p, x)' = Written(p, x)
         /\ \A k : Begins(p, k)' <=> Begins(p, k)
         /\ \A k : Rest(p, k)' = Rest(p, k)
         /\ \A s, k : ReadUpTo(p, s, k)' <=> ReadUpTo(p, s, k)
<1>1. Options(p)' = Options(p) /\ Argv(p)' = Argv(p)
  BY DEF Options, Argv
<1>2. \A i : OptionAt(p, i)' = OptionAt(p, i)
  BY <1>1 DEF OptionAt
<1>3. WellFormed(p)' <=> WellFormed(p)
  BY <1>1, <1>2 DEF WellFormed
<1>4. Required(p)' = Required(p) /\ Given(p)' = Given(p)
  BY <1>1 DEF Required, Given
<1>5. \A x : Written(p, x)' = Written(p, x)
  BY <1>2, <1>4 DEF Written
<1>6. \A k : Begins(p, k)' <=> Begins(p, k)
  BY <1>1, <1>2 DEF Begins, WantsValue
<1>7. \A k : Rest(p, k)' = Rest(p, k)
  BY <1>1 DEF Rest
<1>8. \A s, k : ReadUpTo(p, s, k)' <=> ReadUpTo(p, s, k)
  <2>1. \A x, k, i : LastBefore(p, x, k, i)' <=> LastBefore(p, x, k, i)
    BY <1>1 DEF LastBefore
  <2>2. \A i : GivenAt(p, i)' = GivenAt(p, i)
    <3> SUFFICES ASSUME NEW i PROVE GivenAt(p, i)' = GivenAt(p, i)
      OBVIOUS
    <3>1. OptionAt(p, i)'.type = OptionAt(p, i).type /\ Argv(p)' = Argv(p)
      BY <1>1, <1>2
    <3> QED
      BY <3>1 DEF GivenAt
  <2> SUFFICES ASSUME NEW s, NEW k PROVE ReadUpTo(p, s, k)' <=> ReadUpTo(p, s, k)
    OBVIOUS
  <2>3. {Argv(p)'[i][2] : i \in {j \in 1 .. k - 1 : IsOpt(Argv(p)', j)}}
          = {Argv(p)[i][2] : i \in {j \in 1 .. k - 1 : IsOpt(Argv(p), j)}}
    BY <1>1
  <2>4. Defaults(setup'[p].program) = Defaults(setup[p].program)
    OBVIOUS
  <2> QED
    BY Zenon, <1>1, <2>1, <2>2, <2>3, <2>4 DEF ReadUpTo
<1> QED
  BY <1>1, <1>3, <1>4, <1>5, <1>6, <1>7, <1>8

(* What a process has read stays read. *)
LEMMA ReadOKKept ==
  ASSUME setup' = setup, NEW p, ReadOK(p), parse'[p] = parse[p],
         pc'[p] = pc[p] \/ (pc[p] \notin {"parse", "usage", "aborted"} /\ pc'[p] \notin {"parse", "usage"})
  PROVE  ReadOK(p)'
<1>1. val(p)' = val(p)
  BY DEF val
<1> QED
  BY <1>1, ArgsKept DEF ReadOK

(* Before the first round nothing has been read. *)
LEMMA ReadInitially ==
  ASSUME Init
  PROVE  ReadInv
<1>1. NInv /\ setup \in Setups
  BY NInitially DEF Init
<1>2. ASSUME NEW p \in Process PROVE ReadOK(p)
  <2> DEFINE s == parse[p]
             d == Defaults(setup[p].program)
  <2>1. pc[p] = "parse" /\ s = [args |-> Argv(p), result |-> 0, set |-> {}, val |-> d]
    BY DEF Init, ParseInit, Argv
  <2>2. s.args = Argv(p) /\ s.set = {} /\ s.val = d
    BY <2>1
  <2> HIDE DEF s, d
  <2>3. Argv(p) \in Seq(Argument) /\ Len(Argv(p)) \in Nat
    BY <1>1, SetupsOK, LenProperties DEF Argv
  <2>4. Begins(p, 1)
    BY <2>3 DEF Begins
  <2>5. s.args = Rest(p, 1)
    BY <2>2, <2>3, SubSeqFull DEF Rest
  <2>6. 1 .. 1 - 1 = {}
    OBVIOUS
  <2>7. ReadUpTo(p, s, 1)
    BY <2>2, <2>6 DEF ReadUpTo, LastBefore, d
  <2> QED
    BY <2>1, <2>4, <2>5, <2>7 DEF ReadOK, s
<1> QED
  BY <1>1, <1>2 DEF ReadInv

(* A round of the loop. *)
LEMMA ReadOptionKeepsRead ==
  ASSUME ReadInv, NEW p \in Process, ReadOption(p)
  PROVE  ReadOK(p)'
<1> DEFINE s == parse[p]
<1>1. setup \in Setups /\ setup' = setup /\ pc[p] = "parse" /\ ReadOK(p) /\ ~ Stopped(s)
      /\ DOMAIN parse = Process /\ DOMAIN pc = Process /\ ArgsOK(p, s)
  BY DEF ReadInv, NInv, ParseOK, ReadOption
<1>2. PICK o \in Matching(Options(p), s) :
        \/ ReadsBeyond(o, s) /\ Dies(p) /\ parse' = parse
        \/ /\ ~ ReadsBeyond(o, s)
           /\ parse' = [parse EXCEPT ![p] = Parsed(o, s)]
           /\ GoesOn(p, "parse")
  BY DEF ReadOption
<1>3. CASE ~ WellFormed(p)
  <2>1. pc'[p] \in {"parse", "aborted"}
    BY <1>1, <1>2 DEF Dies, Exit, GoesOn, Goto
  <2> QED
    BY <1>1, <1>3, <2>1, ArgsKept DEF ReadOK
<1>4. CASE WellFormed(p)
  <2>1. PICK k : Begins(p, k) /\ s.args = Rest(p, k) /\ ReadUpTo(p, s, k)
    BY <1>1, <1>4 DEF ReadOK
  <2>2. /\ ~ ReadsBeyond(o, s)
        /\ \E j : Begins(p, j) /\ Parsed(o, s).args = Rest(p, j) /\ ReadUpTo(p, Parsed(o, s), j)
    BY <1>1, <1>4, <2>1, RoundIsRight DEF ArgsOK
  <2>3. parse'[p] = Parsed(o, s) /\ pc'[p] = "parse"
    BY <1>1, <1>2, <2>2 DEF GoesOn, Goto
  <2>4. \E j : Begins(p, j)' /\ parse'[p].args = Rest(p, j)' /\ ReadUpTo(p, parse[p], j)'
    <3>1. PICK j : Begins(p, j) /\ Parsed(o, s).args = Rest(p, j) /\ ReadUpTo(p, Parsed(o, s), j)
      BY <2>2
    <3>2. Begins(p, j)' /\ parse'[p].args = Rest(p, j)'
      BY <1>1, <2>3, <3>1, ArgsKept
    <3>3. \A u : ReadUpTo(p, u, j) => ReadUpTo(p, u, j)'
      BY <1>1, ArgsKept
    <3>4. ReadUpTo(p, parse[p], j)'
      BY <2>3, <3>1, <3>3
    <3> QED
      BY <3>2, <3>4
  <2> QED
    BY <2>3, <2>4 DEF ReadOK
<1> QED
  BY <1>3, <1>4

(* The command line is taken or refused: which, when it is well-formed. *)
LEMMA AcceptedIffGiven ==
  ASSUME ReadInv, NEW p \in Process, pc[p] = "parse", WellFormed(p), Stopped(parse[p])
  PROVE  /\ Accepts(p) <=> Required(p) \subseteq Given(p)
         /\ parse[p].args = <<>> /\ parse[p].set = Given(p)
         /\ \A x \in DOMAIN val(p) : val(p)[x] = Written(p, x)
         /\ Accepts(p) => Roles(p) = {val(p).r}
<1> DEFINE s == parse[p]
<1>1. setup \in Setups /\ ReadOK(p) /\ ArgsOK(p, s)
  BY DEF ReadInv, NInv, ParseOK
<1>2. PICK k : Begins(p, k) /\ s.args = Rest(p, k) /\ ReadUpTo(p, s, k)
  BY <1>1 DEF ReadOK
<1>3. /\ s.args = <<>> /\ s.set = Given(p)
      /\ \A x \in DOMAIN s.val : s.val[x] = Written(p, x)
      /\ "r" \in DOMAIN s.val /\ "r" \in Given(p) => s.val["r"] # Unset
  BY <1>1, <1>2, EndIsRight
<1>4. "r" \in Required(p)
  BY RoleIsRequired DEF Required
<1>5. Given(p) # {} => setup[p].argv # <<>>
  BY DEF Given
<1>6. Accepts(p) <=> Required(p) \subseteq Given(p)
  <2>1. (\E o \in Options(p) : o.required /\ o.name \notin s.set) <=> ~ (Required(p) \subseteq Given(p))
    BY <1>3 DEF Required
  <2>2. Answer(Options(p), setup[p].argv, s) =
          IF setup[p].argv = <<>> THEN 0 ELSE IF ~ (Required(p) \subseteq Given(p)) THEN 0 ELSE 1
    BY <1>3, <2>1 DEF Answer
  <2> QED
    BY <1>4, <1>5, <2>2 DEF Accepts
<1>7. Accepts(p) => Roles(p) = {val(p).r}
  <2> SUFFICES ASSUME Accepts(p) PROVE Roles(p) = {val(p).r}
    OBVIOUS
  <2>1. "r" \in Given(p)
    BY <1>4, <1>6
  <2>2. "r" \in DOMAIN s.val
    BY <1>1, DefaultsHave DEF ArgsOK
  <2>3. val(p).r # Unset
    BY <1>3, <2>1, <2>2 DEF val
  <2> QED
    BY <2>3 DEF Roles
<1> QED
  BY <1>3, <1>6, <1>7 DEF val

(* A refusal. *)
LEMMA ExitKeepsRead ==
  ASSUME ReadInv, NEW p \in Process, ExitWithUsage(p)
  PROVE  ReadOK(p)'
<1>1. /\ setup' = setup /\ pc[p] = "parse" /\ pc'[p] = "usage" /\ parse' = parse
      /\ IF Stopped(parse[p]) THEN ~ Accepts(p) ELSE AsksHelp(parse[p])
  BY DEF ReadInv, NInv, ParseOK, ExitWithUsage, Exit, Goto
<1>2. ASSUME WellFormed(p) PROVE ~ (Required(p) \subseteq Given(p))
  <2>1. CASE Stopped(parse[p])
    BY <1>1, <1>2, <2>1, AcceptedIffGiven
  <2>2. CASE ~ Stopped(parse[p])
    <3> DEFINE s == parse[p]
               a == Argv(p)
    <3>1. PICK k : Begins(p, k) /\ s.args = Rest(p, k) /\ ReadUpTo(p, s, k)
      BY <1>1, <1>2 DEF ReadInv, ReadOK
    <3>2. a \in Seq(Argument) /\ Len(a) \in Nat /\ DOMAIN a = 1 .. Len(a) /\ k \in 1 .. Len(a) + 1
      BY <3>1, SetupsOK, LenProperties DEF Argv, Begins, ReadInv, NInv, ParseOK
    <3> DEFINE r == SubSeq(a, k, Len(a))
    <3>3. /\ Len(r) = Len(a) + 1 - k /\ (r = <<>> <=> k = Len(a) + 1)
          /\ \A i \in 1 .. Len(r) : r[i] = a[k + i - 1]
      BY <3>2, RestOfArgs
    <3>4. s.args = r
      BY <3>1 DEF Rest
    <3> HIDE DEF r
    <3>5. r # <<>> /\ r[1][1] = "opt" /\ r[1][2] = "h"
      BY <1>1, <2>2, <3>4 DEF Stopped, AsksHelp
    <3>6. k \in 1 .. Len(a) /\ 1 \in 1 .. Len(r) /\ k + 1 - 1 = k
      BY <3>2, <3>3, <3>5
    <3>7. r[1] = a[k]
      BY Zenon, <3>3, <3>6
    <3>8. \E o \in Options(p) : o.name = "h"
      BY <1>2, <3>2, <3>5, <3>6, <3>7, WellFormedIs DEF IsOpt
    <3> QED
      BY <3>8, TypesByName
  <2> QED
    BY <2>1, <2>2
<1> QED
  BY <1>1, <1>2, ArgsKept DEF ReadOK

(* An acceptance: the role is a number that was given. *)
LEMMA AcceptKeepsRead ==
  ASSUME ReadInv, NEW p \in Process, AcceptOptions(p)
  PROVE  ReadOK(p)'
<1>1. setup' = setup /\ pc[p] = "parse" /\ Accepts(p) /\ Stopped(parse[p])
      /\ DOMAIN parse = Process /\ DOMAIN pc = Process /\ ArgsOK(p, parse[p]) /\ ReadOK(p)
  BY DEF ReadInv, NInv, ParseOK, AcceptOptions, Accepts
<1>2. PICK r \in Roles(p) :
        /\ parse' = [parse EXCEPT ![p].val.r = r]
        /\ \/ Dies(p)
           \/ Exit(p, "other")
           \/ GoesOn(p, IF r = 0 THEN "listen" ELSE "connect")
  BY DEF AcceptOptions
<1> DEFINE s == parse[p]
           u == parse'[p]
<1>3. u.args = s.args /\ u.set = s.set /\ u.val = [s.val EXCEPT !["r"] = r]
  <2>1. u = [s EXCEPT !.val = [s.val EXCEPT !["r"] = r]]
    BY <1>1, <1>2
  <2> QED
    BY <1>1, <2>1 DEF ArgsOK, Fields
<1>4. pc'[p] \in {"aborted", "other", "listen", "connect"}
  BY <1>1, <1>2 DEF Dies, Exit, GoesOn, Goto
<1>5. ASSUME WellFormed(p)
      PROVE  Required(p) \subseteq Given(p) /\ \A x \in DOMAIN u.val : u.val[x] = Written(p, x)
  <2>1. /\ Required(p) \subseteq Given(p)
        /\ \A x \in DOMAIN val(p) : val(p)[x] = Written(p, x)
        /\ Roles(p) = {val(p).r}
    BY <1>1, <1>5, AcceptedIffGiven
  <2>2. r = s.val["r"]
    BY <2>1 DEF val
  <2>3. DOMAIN u.val = DOMAIN s.val /\ \A x \in DOMAIN s.val : u.val[x] = s.val[x]
    BY <1>3, <2>2
  <2>4. \A x \in DOMAIN u.val : u.val[x] = Written(p, x)
    BY <2>1, <2>3 DEF val
  <2> QED
    BY <2>1, <2>4
<1>6. Required(p) \subseteq s.set \/ s.args # <<>>
  <2>1. Answer(Options(p), setup[p].argv, s) # 0
    BY <1>1 DEF Accepts
  <2>2. s.args = <<>> => ~ \E o \in Options(p) : o.required /\ o.name \notin s.set
    BY <2>1 DEF Answer
  <2> QED
    BY <2>2 DEF Required
<1>7. WellFormed(p)' =>
        IF Required(p)' \subseteq Given(p)'
          THEN pc'[p] # "usage" /\ \A x \in DOMAIN val(p)' : val(p)'[x] = Written(p, x)'
          ELSE pc'[p] = "usage"
  <2>1. val(p)' = u.val
    BY DEF val
  <2> HIDE DEF u
  <2> QED
    BY <1>1, <1>4, <1>5, <2>1, ArgsKept
<1>8. Required(p)' \subseteq u.set \/ u.args # <<>>
  BY <1>1, <1>3, <1>6, ArgsKept
<1> QED
  BY <1>4, <1>7, <1>8 DEF ReadOK

(* A process that has ended takes no step. *)
LEMMA NotEnded ==
  ASSUME NEW p, Step(p)
  PROVE  pc[p] \notin Ended
BY DEF Step, ReadOption, ExitWithUsage, AcceptOptions, Listen, Accept, Connect, Elements,
       ReceiveSizes, ReceiveSet, Compute, AnswerNext, ServerDone, Start, SendMasks, ReceiveAnswer,
       Ended

(* Every step keeps what was read. *)
LEMMA StepKeepsRead ==
  ASSUME ReadInv, NEW p \in Process, Step(p)
  PROVE  ReadInv'
<1>1. NInv /\ ParseOK /\ NInv' /\ pc \in [Process -> PC] /\ DOMAIN parse = Process
      /\ pc[p] \notin Ended
  BY StepKeepsN, NotEnded DEF ReadInv, NInv, ParseOK
<1>2. setup' = setup /\ \A q \in Process : q # p => parse'[q] = parse[q] /\ pc'[q] = pc[q]
  <2>1. CASE \E l \in PC : Moves(p, l)
    BY <1>1, <2>1 DEF Moves
  <2>2. CASE Connecting(p)
    BY <1>1, <2>2 DEF Connecting, Listen, Accept, Connect, Goto
  <2> QED
    BY <2>1, <2>2, StepKeepsN DEF ReadInv
<1>3. ASSUME NEW q \in Process, q # p PROVE ReadOK(q)'
  BY <1>2, <1>3, ReadOKKept DEF ReadInv
<1>4. ReadOK(p)'
  <2>1. CASE ReadOption(p)
    BY <2>1, ReadOptionKeepsRead
  <2>2. CASE ExitWithUsage(p)
    BY <2>2, ExitKeepsRead
  <2>3. CASE AcceptOptions(p)
    BY <2>3, AcceptKeepsRead
  <2>4. ASSUME parse' = parse, pc[p] # "parse", pc'[p] \notin {"parse", "usage"} PROVE ReadOK(p)'
    BY <1>1, <1>2, <2>4, ReadOKKept DEF ReadInv, Ended
  <2>5. CASE Connecting(p)
    BY <1>1, <2>4, <2>5 DEF Connecting, Listen, Accept, Connect, Goto
  <2>6. CASE \/ Elements(p) \/ ReceiveSizes(p) \/ ReceiveSet(p) \/ Compute(p) \/ AnswerNext(p)
             \/ ServerDone(p) \/ Start(p) \/ SendMasks(p) \/ ReceiveAnswer(p)
    <3>1. parse' = parse /\ \E l \in PC : Moves(p, l)
      BY <1>1, <2>6, OthersMove
    <3>2. pc[p] # "parse"
      BY <2>6 DEF Elements, ReceiveSizes, ReceiveSet, Compute, AnswerNext, ServerDone, Start,
                  SendMasks, ReceiveAnswer
    <3> QED
      BY <1>1, <2>4, <3>1, <3>2 DEF Moves
  <2> QED
    BY <2>1, <2>2, <2>3, <2>5, <2>6 DEF Step, Connecting
<1> QED
  BY <1>1, <1>3, <1>4 DEF ReadInv

(* A well-formed command line is read as it is written, and refused exactly when a required
   option is missing; of the others only those that stop early lack one. *)
THEOREM OptionsAreRead == Spec => []ReadAsWritten
<1>1. Init => ReadInv
  BY ReadInitially
<1>2. ReadInv /\ [Next]_vars => ReadInv'
  <2> SUFFICES ASSUME ReadInv, [Next]_vars PROVE ReadInv'
    OBVIOUS
  <2>1. CASE UNCHANGED vars
    <3>1. NInv' /\ UNCHANGED <<setup, pc, parse>>
      BY <2>1, NStutters DEF ReadInv, vars
    <3> QED
      BY <3>1, ReadOKKept DEF ReadInv
  <2>2. ASSUME NEW p \in Process, Step(p) PROVE ReadInv'
    BY <2>2, StepKeepsRead
  <2> QED
    BY <2>1, <2>2 DEF Next
<1>3. ReadInv => ReadAsWritten
  BY DEF ReadInv, ReadOK, ReadAsWritten
<1> QED
  BY <1>1, <1>2, <1>3, PTL DEF Spec

(***************************************************************************)
(* What the server and the clients know.                                   *)
(***************************************************************************)

Serving == {"sizes", "sets", "compute", "answer"}

Asking == {"start", "masks", "receive"}

(* Servers and clients keep to their places in the protocol. *)
RoleOK(p) ==
  /\ pc[p] \in {"listen", "accept"} \cup Serving \/ p = listener => IsServer(p)
  /\ pc[p] \in {"connect"} \cup Asking \/ p \in sent => ~ IsServer(p)

(* Behind the connections the vector of sockets is full; a server that could not listen has
   none that is open. *)
FullOK(p) ==
  /\ pc[p] \in {"elements"} \cup Serving \cup Asking =>
       Len(sockets[p]) = IF IsServer(p) THEN Slots(p) ELSE Sockets(p)
  /\ p = listener /\ pc[p] # "accept" => Len(sockets[p]) = Slots(p)
  /\ p # listener /\ IsServer(p) => \A i \in DOMAIN sockets[p] : sockets[p][i] = NoSocket

(* A client has elements with masks, permutes them, and sends over its first connection. *)
ClientOK(p) ==
  /\ elements[p] \in Seq(DOMAIN Mask)
  /\ pc[p] \in {"masks", "receive"} \/ p \in sent => perm[p] \in Bijections(Size(p))
  /\ p \in sent => /\ pc[p] \in {"receive"} \cup Ended
                   /\ 1 \in DOMAIN sockets[p] /\ sockets[p][1] = <<<<p, 0>>, "client">>

AnyMask == Range(Mask) \cup {Junk}

(* The server has the intersection of all sets that it received. *)
Computed(p) ==
  /\ Len(csets[p]) = NClients(p)
  /\ answered[p] <= NClients(p)
  /\ found[p] = IF NClients(p) = 0 THEN {} ELSE Intersection(csets[p])

(* The server goes through its clients one by one, three times. *)
ServerOK(p) ==
  /\ neles[p] \in Seq(Nat) /\ csets[p] \in Seq(Seq(AnyMask)) /\ answered[p] \in Nat
  /\ Len(csets[p]) <= Len(neles[p])
  /\ pc[p] \notin Serving \cup Ended => neles[p] = <<>> /\ csets[p] = <<>>
  /\ pc[p] \notin {"answer"} \cup Ended => found[p] = {} /\ answered[p] = 0
  /\ pc[p] = "sizes" => Len(neles[p]) < NClients(p) /\ csets[p] = <<>>
  /\ pc[p] = "sets" => Len(neles[p]) = NClients(p) /\ Len(csets[p]) < NClients(p)
  /\ pc[p] = "compute" => Len(csets[p]) = NClients(p)
  /\ pc[p] = "answer" \/ answered[p] # 0 \/ found[p] # {} => Computed(p)

ProcessOK(p) == RoleOK(p) /\ FullOK(p) /\ ClientOK(p) /\ ServerOK(p)

Ends == exited = {p \in Process : pc[p] \in Ended}

Joined(c, i) == i \in DOMAIN sockets[listener] /\ sockets[listener][i] = <<c, "server">>

(* The server has the masks of the clients that sent them, and the others are gone. *)
SetsOK ==
  listener \in Process => \A i \in DOMAIN csets[listener] : \A c \in Conn : Joined(c, i) =>
    IF c[1] \in sent THEN c[2] = 0 /\ csets[listener][i] = Masks(c[1]) ELSE c[1] \in exited

AnswerTo(i) == <<"answer", Cardinality(found[listener]), {t[i] : t \in found[listener]}>>

(* What is on its way to a client is the answer for its place. *)
AnswersOK ==
  \A c \in Conn : LET box == inbox[<<c, "client">>] IN
    box # <<>> => /\ listener \in Process /\ c[1] \in sent
                  /\ \E i \in 1 .. answered[listener] : Joined(c, i) /\ box = <<AnswerTo(i)>>

Taken(c, s) == \E i \in DOMAIN s : Joined(c, i)

(* What a client has sent and a server that lives has not taken. *)
Word(q) ==
  LET c == <<q, 0>>
      sizes == <<"sizes", Size(q)>>
      set == <<"set", Masks(q)>>
  IN IF q \in sent
       THEN IF Taken(c, csets[listener]) THEN <<>>
            ELSE IF Taken(c, neles[listener]) THEN <<set>> ELSE <<sizes, set>>
     ELSE IF pc[q] = "masks" /\ sockets[q][1] # NoSocket /\ ~ Taken(c, neles[listener])
       THEN <<sizes>> ELSE <<>>

Words == {"sizes"} \X Nat \cup {"set"} \X Seq(Range(Mask))

WordsOK ==
  /\ listener \notin exited => \A q \in Process : inbox[<<<<q, 0>>, "server">>] = Word(q)
  /\ \A c \in Conn : /\ inbox[<<c, "server">>] \in Seq(Words)
                     /\ c[2] # 0 => inbox[<<c, "server">>] = <<>>

(* Who sent its masks waits for the answer as long as the server lives, and a server that
   lives has passed over those only that are gone. *)
WaitOK ==
  /\ \A q \in sent : q \in exited => q \in told \/ listener \in exited
  /\ listener \in Process \ exited => \A q \in Process :
       Taken(<<q, 0>>, neles[listener]) => q \in sent \cup exited \/ pc[q] = "masks"

(* A client that was told has the result for its place. *)
ToldOK ==
  \A p \in told :
    /\ listener \in Process /\ p \in sent \cap exited
    /\ \E i \in 1 .. answered[listener] :
         Joined(<<p, 0>>, i) /\ result[p] = Selected(p, AnswerTo(i)[2], AnswerTo(i)[3])

Domains ==
  /\ DOMAIN perm = Process /\ DOMAIN elements = Process /\ DOMAIN result = Process
  /\ DOMAIN neles = Process /\ DOMAIN csets = Process
  /\ DOMAIN found = Process /\ DOMAIN answered = Process

NetOK ==
  /\ tries \in [Process -> 0 .. RETRY_CONNECT - 1]
  /\ DOMAIN inbox = End
  /\ sent \subseteq Process /\ told \subseteq Process

ProtocolInv ==
  /\ NInv /\ SlotsInOrder /\ Domains /\ NetOK /\ Ends
  /\ \A p \in Process : ProcessOK(p)
  /\ SetsOK /\ AnswersOK /\ WordsOK /\ WaitOK /\ ToldOK

-----------------------------------------------------------------------------
(* Numbers, orders and permutations. *)

(* Of numbers up to n there is a greatest one, if there is any. *)
LEMMA MaxIs ==
  ASSUME NEW n \in Nat, NEW S \in SUBSET (1 .. n), S # {}
  PROVE  Max(S) \in S /\ \A i \in S : i <= Max(S)
<1>1. \E m \in S : \A i \in S : i <= m
  BY LastExists
<1>2. \E m \in S : \A i \in S : m >= i
  BY <1>1
<1>3. Max(S) \in S /\ \A i \in S : Max(S) >= i
  BY <1>2 DEF Max
<1> QED
  BY <1>3

(* Sets that a function matches one to one have one size. *)
LEMMA SameSize ==
  ASSUME NEW S, NEW T, NEW f \in [S -> T], IsFiniteSet(S),
         \A x, y \in S : f[x] = f[y] => x = y, \A z \in T : \E x \in S : f[x] = z
  PROVE  IsFiniteSet(T) /\ Cardinality(T) = Cardinality(S)
<1>1. f \in Bijection(S, T)
  BY DEF Bijection, Injection, Surjection, IsInjective
<1> QED
  BY <1>1, FS_Bijection DEF ExistsBijection

(* What Sorted gives: every number of the set in one place. *)
LEMMA SortedIs ==
  ASSUME NEW n \in Nat, NEW S \in SUBSET (1 .. n)
  PROVE  /\ IsFiniteSet(S) /\ Cardinality(S) \in Nat
         /\ Sorted(S) \in [1 .. Cardinality(S) -> S]
         /\ \A i, j \in 1 .. Cardinality(S) : Sorted(S)[i] = Sorted(S)[j] => i = j
         /\ \A x \in S : \E i \in 1 .. Cardinality(S) : Sorted(S)[i] = x
<1> DEFINE UpTo(x) == {y \in S : y <= x}
           rank == [x \in S |-> Cardinality(UpTo(x))]
           m == Cardinality(S)
<1>0. S \subseteq 1 .. n /\ \A x \in S : x \in Int
  OBVIOUS
<1>1. IsFiniteSet(S) /\ m \in Nat
  <2>1. IsFiniteSet(1 .. n)
    BY FS_Interval
  <2>2. IsFiniteSet(S)
    BY <2>1, FS_Subset
  <2> QED
    BY <2>2, FS_CardinalityType
<1>2. ASSUME NEW x \in S
      PROVE  IsFiniteSet(UpTo(x)) /\ Cardinality(UpTo(x)) \in 1 .. m
  <2>1. UpTo(x) \in SUBSET S /\ x \in UpTo(x)
    OBVIOUS
  <2> HIDE DEF UpTo
  <2>2. IsFiniteSet(UpTo(x)) /\ Cardinality(UpTo(x)) <= m /\ Cardinality(UpTo(x)) \in Nat
    BY <1>1, <2>1, FS_Subset, FS_CardinalityType
  <2>3. Cardinality(UpTo(x)) # 0
    BY <2>1, <2>2, FS_EmptySet
  <2> QED
    BY <1>1, <2>2, <2>3
<1>3. ASSUME NEW x \in S, NEW y \in S, x < y
      PROVE  Cardinality(UpTo(x)) < Cardinality(UpTo(y))
  <2>0. x \in Int /\ y \in Int /\ \A z \in S : z <= x => z <= y
    BY <1>0, <1>3
  <2>1. UpTo(x) \in SUBSET UpTo(y) /\ y \in UpTo(y) /\ y \notin UpTo(x)
    <3>1. \A z : z \in UpTo(x) => z \in UpTo(y)
      BY <2>0
    <3>2. y <= y /\ ~ (y <= x)
      BY <1>3, <2>0
    <3> QED
      BY <3>1, <3>2
  <2>2. /\ IsFiniteSet(UpTo(y)) /\ Cardinality(UpTo(y)) \in Nat /\ Cardinality(UpTo(x)) \in Nat
    BY <1>2
  <2> HIDE DEF UpTo
  <2>3. Cardinality(UpTo(x)) <= Cardinality(UpTo(y)) /\ Cardinality(UpTo(x)) # Cardinality(UpTo(y))
    BY <2>1, <2>2, FS_Subset
  <2> QED
    BY <2>2, <2>3
<1>4. rank \in [S -> 1 .. m]
  BY <1>2
<1>5. \A x, y \in S : x < y => rank[x] < rank[y]
  BY <1>3
<1> HIDE DEF rank, UpTo
<1>6. rank \in Injection(S, 1 .. m)
  <2>1. \A x, y \in S : rank[x] = rank[y] => x = y
    <3>1. \A x \in S : x \in Int /\ rank[x] \in Int
      BY <1>4
    <3> QED
      BY <1>5, <3>1
  <2> QED
    BY <1>4, <2>1 DEF Injection, IsInjective
<1>7. \A k \in 1 .. m : \E x \in S : rank[x] = k
  <2>1. IsFiniteSet(1 .. m) /\ Cardinality(1 .. m) = m
    BY <1>1, FS_Interval
  <2>2. rank \in Surjection(S, 1 .. m)
    BY <1>1, <1>6, <2>1, FS_Injection
  <2> QED
    BY <2>2 DEF Surjection
<1> DEFINE s == [k \in 1 .. m |-> CHOOSE x \in S : rank[x] = k]
<1>8. \A k \in 1 .. m : s[k] \in S /\ rank[s[k]] = k
  BY <1>7
<1>9. s \in [1 .. m -> S]
  BY <1>8
<1> HIDE DEF s
<1>10. \A i, j \in DOMAIN s : i < j => s[i] < s[j]
  <2> SUFFICES ASSUME NEW i \in 1 .. m, NEW j \in 1 .. m, i < j PROVE s[i] < s[j]
    BY <1>9
  <2>1. s[i] \in S /\ s[j] \in S /\ s[i] \in Int /\ s[j] \in Int /\ rank[s[i]] = i /\ rank[s[j]] = j
    BY <1>0, <1>8
  <2>2. s[i] # s[j]
    BY <2>1
  <2>3. ~ (s[j] < s[i])
    BY <1>5, <2>1
  <2> QED
    BY <2>1, <2>2, <2>3
<1> DEFINE r == Sorted(S)
<1>11. r \in [1 .. m -> S] /\ \A i, j \in DOMAIN r : i < j => r[i] < r[j]
  BY <1>9, <1>10 DEF Sorted
<1> HIDE DEF r, m
<1>12. \A i, j \in 1 .. m : r[i] = r[j] => i = j
  <2> SUFFICES ASSUME NEW i \in 1 .. m, NEW j \in 1 .. m, r[i] = r[j] PROVE i = j
    OBVIOUS
  <2>1. r[i] \in Int /\ r[j] \in Int
    BY <1>0, <1>11
  <2>2. ~ (i < j) /\ ~ (j < i)
    BY <1>11, <2>1
  <2> QED
    BY <1>1, <2>2
<1>13. \A x \in S : \E i \in 1 .. m : r[i] = x
  <2>1. r \in Injection(1 .. m, S)
    BY <1>11, <1>12 DEF Injection, IsInjective
  <2>2. IsFiniteSet(1 .. m) /\ Cardinality(1 .. m) = m
    BY <1>1, FS_Interval
  <2>3. r \in Surjection(1 .. m, S)
    BY <1>1, <2>1, <2>2, FS_Injection DEF m
  <2> QED
    BY <2>3 DEF Surjection
<1> QED
  BY <1>1, <1>11, <1>12, <1>13 DEF r, m

(* A permutation reaches every place, from one place. *)
LEMMA Origins ==
  ASSUME NEW n \in Nat, NEW f \in Bijections(n)
  PROVE  /\ DOMAIN f = 1 .. n
         /\ \A j \in 1 .. n : LET i == CHOOSE k \in DOMAIN f : f[k] = j IN i \in 1 .. n /\ f[i] = j
         /\ \A i \in 1 .. n : f[i] \in 1 .. n
<1>1. f \in [1 .. n -> 1 .. n] /\ \A i, j \in 1 .. n : f[i] = f[j] => i = j
  BY DEF Bijections
<1>2. f \in Injection(1 .. n, 1 .. n)
  BY <1>1 DEF Injection, IsInjective
<1>3. f \in Surjection(1 .. n, 1 .. n)
  BY <1>2, FS_Interval, FS_Injection
<1>4. \A j \in 1 .. n : \E i \in 1 .. n : f[i] = j
  BY <1>3 DEF Surjection
<1> QED
  BY <1>1, <1>4

-----------------------------------------------------------------------------
(* Masks and their intersection. *)

(* A mask is a pair of words, and belongs to one element. *)
LEMMA MaskIs ==
  /\ \A e, f \in DOMAIN Mask : Mask[e] = Mask[f] => e = f
  /\ \A m \in AnyMask : m = <<m[1], m[2]>>
  /\ \A m \in Range(Mask) : m # Junk /\ \E e \in DOMAIN Mask : m = Mask[e]
  /\ \A e \in DOMAIN Mask : Mask[e] \in Range(Mask) /\ Mask[e] \in AnyMask
BY MaskOK DEF AnyMask, Range, IsPair

(* The place from which the permutation takes an element to j. *)
LEMMA InvPermIs ==
  ASSUME NEW p, Size(p) \in Nat, perm[p] \in Bijections(Size(p))
  PROVE  /\ \A j \in 1 .. Size(p) : InvPerm(p, j) \in 1 .. Size(p) /\ perm[p][InvPerm(p, j)] = j
         /\ \A i \in 1 .. Size(p) : perm[p][i] \in 1 .. Size(p) /\ InvPerm(p, perm[p][i]) = i
<1> DEFINE f == perm[p]
           n == Size(p)
<1>1. f \in Bijections(n) /\ n \in Nat
  OBVIOUS
<1> HIDE DEF f, n
<1>2. /\ DOMAIN f = 1 .. n
      /\ \A j \in 1 .. n : LET i == CHOOSE k \in DOMAIN f : f[k] = j IN i \in 1 .. n /\ f[i] = j
      /\ \A i \in 1 .. n : f[i] \in 1 .. n
  BY <1>1, Origins
<1>3. \A i, j \in 1 .. n : f[i] = f[j] => i = j
  BY <1>1 DEF Bijections
<1>4. \A j : InvPerm(p, j) = CHOOSE k \in DOMAIN f : f[k] = j
  BY DEF InvPerm, f
<1>5. \A j \in 1 .. n : InvPerm(p, j) \in 1 .. n /\ f[InvPerm(p, j)] = j
  BY <1>2, <1>4
<1>6. \A i \in 1 .. n : f[i] \in 1 .. n /\ InvPerm(p, f[i]) = i
  BY <1>2, <1>3, <1>5
<1> QED
  BY <1>5, <1>6 DEF f, n

(* The element that run_task masks as the i-th is one of the client's, and the i-th with one
   thread. *)
LEMMA InIdxIs ==
  ASSUME NEW p, Size(p) \in Nat, IsBench(p) => NTasks(p) \in Nat \ {0}, NEW i \in 1 .. Size(p)
  PROVE  InIdx(p, i) \in 1 .. Size(p) /\ (MasksRight(p) => InIdx(p, i) = i)
<1>1. CASE ~ IsBench(p)
  BY <1>1 DEF InIdx
<1>2. CASE IsBench(p)
  <2> DEFINE n == Size(p)
             k == NTasks(p)
             d == CeilDivide(n, k)
  <2>1. n \in Nat \ {0} /\ k \in Nat \ {0} /\ d = ((n - 1) \div k) + 1
    BY <1>2 DEF CeilDivide
  <2>2. (n - 1) \div k \in Nat /\ k * ((n - 1) \div k) <= n - 1
    <3>1. n - 1 \in Nat
      BY <2>1
    <3> QED
      BY <2>1, <3>1, DivBounds
  <2>3. (n - 1) \div k <= n - 1
    <3> DEFINE q == (n - 1) \div k
    <3>1. q \in Nat /\ k * q <= n - 1
      BY <2>2
    <3> HIDE DEF q, k, n
    <3>2. q <= k * q
      <4>1. \A a \in Nat : \A b \in Nat : b <= (a + 1) * b
        OBVIOUS
      <4>2. k - 1 \in Nat /\ k = (k - 1) + 1
        BY <2>1
      <4> QED
        BY <3>1, <4>1, <4>2
    <3> QED
      BY <2>1, <3>1, <3>2 DEF q
  <2>4. d \in 1 .. n
    BY <2>1, <2>2, <2>3
  <2>5. InIdx(p, i) = ((i - 1) % d) + 1
    BY <1>2 DEF InIdx
  <2>6. k = 1 => d = n
    <3> SUFFICES ASSUME k = 1 PROVE d = n
      OBVIOUS
    <3>1. (n - 1) \div 1 = n - 1
      BY <2>1
    <3> QED
      BY <2>1, <3>1
  <2> HIDE DEF d, n, k
  <2>7. (i - 1) % d \in 0 .. d - 1 /\ (d = n => (i - 1) % d = i - 1)
    <3>1. i \in 1 .. n
      BY DEF n
    <3> QED
      BY <2>1, <2>4, <3>1
  <2>8. MasksRight(p) => k = 1
    BY <1>2 DEF MasksRight, k
  <2>9. i \in 1 .. n
    BY DEF n
  <2> QED
    BY <2>1, <2>4, <2>5, <2>6, <2>7, <2>8, <2>9 DEF n
<1> QED
  BY <1>1, <1>2

(* What a client sends are masks of its elements, and with one thread that of the element
   which the permutation takes there. *)
LEMMA MasksAre ==
  ASSUME NEW p, elements[p] \in Seq(DOMAIN Mask), perm[p] \in Bijections(Size(p)),
         IsBench(p) => NTasks(p) \in Nat \ {0}
  PROVE  /\ Masks(p) \in Seq(Range(Mask)) /\ DOMAIN Masks(p) = 1 .. Size(p) /\ Size(p) \in Nat
         /\ MasksRight(p) => \A j \in 1 .. Size(p) : Masks(p)[j] = Mask[elements[p][InvPerm(p, j)]]
<1>1. Size(p) \in Nat /\ DOMAIN elements[p] = 1 .. Size(p)
  BY LenProperties DEF Size
<1>2. \A j \in 1 .. Size(p) : InvPerm(p, j) \in 1 .. Size(p)
  BY <1>1, InvPermIs
<1>3. Masks(p) = [j \in 1 .. Size(p) |-> Mask[elements[p][InIdx(p, InvPerm(p, j))]]]
  BY <1>1 DEF Masks, InvPerm
<1>4. \A i \in 1 .. Size(p) : elements[p][i] \in DOMAIN Mask
  BY <1>1, ElementOfSeq DEF Size
<1>5. \A j \in 1 .. Size(p) : Masks(p)[j] \in Range(Mask)
  <2> SUFFICES ASSUME NEW j \in 1 .. Size(p) PROVE Masks(p)[j] \in Range(Mask)
    OBVIOUS
  <2>1. InIdx(p, InvPerm(p, j)) \in 1 .. Size(p)
    BY <1>1, <1>2, InIdxIs
  <2> QED
    BY <1>3, <1>4, <2>1, MaskIs
<1>6. Masks(p) \in Seq(Range(Mask)) /\ DOMAIN Masks(p) = 1 .. Size(p)
  <2>1. Masks(p) \in [1 .. Size(p) -> Range(Mask)]
    BY <1>3, <1>5
  <2> QED
    BY <1>1, <2>1
<1>7. MasksRight(p) => \A j \in 1 .. Size(p) : Masks(p)[j] = Mask[elements[p][InvPerm(p, j)]]
  <2> SUFFICES ASSUME MasksRight(p), NEW j \in 1 .. Size(p)
               PROVE  Masks(p)[j] = Mask[elements[p][InvPerm(p, j)]]
    OBVIOUS
  <2>1. InIdx(p, InvPerm(p, j)) = InvPerm(p, j)
    BY <1>1, <1>2, InIdxIs
  <2> QED
    BY <1>3, <2>1
<1> QED
  BY <1>1, <1>6, <1>7

(* The table of the masks that are in the first n sets: under the first word of each the
   second one and its places. *)
TableOK(T, C, n) ==
  /\ IsFiniteSet(DOMAIN T)
  /\ \A k \in DOMAIN T :
       /\ T[k] = [low |-> T[k].low, pos |-> T[k].pos]
       /\ T[k].pos \in Seq(Nat) /\ Len(T[k].pos) = n
       /\ \A l \in 1 .. n : T[k].pos[l] \in DOMAIN C[l] /\ C[l][T[k].pos[l]] = <<k, T[k].low>>

(* A mask that all of the first n sets have is in the table, if no other of the first set
   has its first word. *)
Common(m, C, n) ==
  /\ m = <<m[1], m[2]>>
  /\ \A l \in 1 .. n : \E j \in DOMAIN C[l] : C[l][j] = m
  /\ \A j \in DOMAIN C[1] : C[1][j][1] = m[1] => C[1][j] = m

Complete(T, C, n) == \A m : Common(m, C, n) => m[1] \in DOMAIN T /\ T[m[1]].low = m[2]

(* A set of masks has places 1, 2, ... *)
LEMMA SetIs ==
  ASSUME NEW c \in Seq(AnyMask)
  PROVE  /\ Len(c) \in Nat /\ DOMAIN c = 1 .. Len(c)
         /\ \A j \in DOMAIN c : c[j] = <<c[j][1], c[j][2]>>
BY LenProperties, ElementOfSeq, MaskIs

(* The first table. *)
LEMMA FirstTableIs ==
  ASSUME NEW C, C[1] \in Seq(AnyMask)
  PROVE  TableOK(FirstTable(C[1]), C, 1) /\ Complete(FirstTable(C[1]), C, 1)
<1> DEFINE c == C[1]
           n == Len(c)
           K == {c[j][1] : j \in DOMAIN c}
           places(k) == {j \in DOMAIN c : c[j][1] = k}
           last(k) == Max(places(k))
           T == FirstTable(c)
<1>1. n \in Nat /\ DOMAIN c = 1 .. n /\ \A j \in 1 .. n : c[j] = <<c[j][1], c[j][2]>>
  BY SetIs
<1> HIDE DEF n
<1>2. \A k \in K : last(k) \in 1 .. n /\ c[last(k)][1] = k
  <2> SUFFICES ASSUME NEW k \in K PROVE last(k) \in places(k)
    BY <1>1
  <2>1. places(k) \in SUBSET (1 .. n) /\ places(k) # {}
    BY <1>1
  <2> HIDE DEF places
  <2> QED
    BY <1>1, <2>1, MaxIs
<1>3. T = [k \in K |-> [low |-> c[last(k)][2], pos |-> <<last(k)>>]]
  BY DEF FirstTable
<1> HIDE DEF last, T, c
<1>4. IsFiniteSet(K)
  <2> DEFINE f == [j \in 1 .. n |-> c[j][1]]
  <2>1. f \in Surjection(1 .. n, K)
    BY <1>1 DEF Surjection
  <2>2. IsFiniteSet(1 .. n)
    BY <1>1, FS_Interval
  <2> QED
    BY <2>1, <2>2, FS_Surjection
<1> HIDE DEF K
<1>5. ASSUME NEW k \in K
      PROVE  /\ T[k] = [low |-> T[k].low, pos |-> T[k].pos]
             /\ T[k].pos \in Seq(Nat) /\ Len(T[k].pos) = 1
             /\ T[k].pos[1] \in 1 .. n /\ c[T[k].pos[1]] = <<k, T[k].low>>
  <2>1. last(k) \in 1 .. n /\ c[last(k)] = <<k, c[last(k)][2]>>
    BY <1>1, <1>2
  <2>2. T[k] = [low |-> c[last(k)][2], pos |-> <<last(k)>>]
    BY <1>3
  <2> QED
    BY <2>1, <2>2
<1>6. TableOK(T, C, 1)
  <2>1. DOMAIN T = K
    BY <1>3
  <2>2. \A k \in K : \A l \in 1 .. 1 : T[k].pos[l] \in DOMAIN C[l] /\ C[l][T[k].pos[l]] = <<k, T[k].low>>
    <3>1. \A l \in 1 .. 1 : l = 1
      OBVIOUS
    <3>2. \A k \in K : T[k].pos[1] \in DOMAIN C[1] /\ C[1][T[k].pos[1]] = <<k, T[k].low>>
      BY <1>1, <1>5 DEF c
    <3> QED
      BY Zenon, <3>1, <3>2
  <2> QED
    BY <1>4, <1>5, <2>1, <2>2 DEF TableOK
<1>7. Complete(T, C, 1)
  <2> SUFFICES ASSUME NEW m, Common(m, C, 1) PROVE m[1] \in DOMAIN T /\ T[m[1]].low = m[2]
    BY DEF Complete
  <2>1. PICK j \in DOMAIN c : c[j] = m
    BY DEF Common, c
  <2>2. m[1] \in K
    BY <2>1 DEF K
  <2>3. c[last(m[1])] = m
    BY <1>1, <1>2, <2>2 DEF Common, c
  <2> QED
    BY <1>3, <2>2, <2>3
<1> QED
  BY <1>6, <1>7 DEF T, c

(* The table after one more set. *)
LEMMA NextTableIs ==
  ASSUME NEW n \in Nat \ {0}, NEW C, C[n + 1] \in Seq(AnyMask),
         NEW T, TableOK(T, C, n), Complete(T, C, n)
  PROVE  TableOK(NextTable(T, C[n + 1]), C, n + 1) /\ Complete(NextTable(T, C[n + 1]), C, n + 1)
<1> DEFINE c == C[n + 1]
           h == Len(c)
           places(k) == {j \in DOMAIN c : c[j] = <<k, T[k].low>>}
           K == {k \in DOMAIN T : places(k) # {}}
           last(k) == Max(places(k))
           U == NextTable(T, c)
<1>1. h \in Nat /\ DOMAIN c = 1 .. h /\ \A j \in 1 .. h : c[j] = <<c[j][1], c[j][2]>>
  BY SetIs
<1> HIDE DEF h
<1>2. \A k \in K : last(k) \in 1 .. h /\ c[last(k)] = <<k, T[k].low>>
  <2> SUFFICES ASSUME NEW k \in K PROVE last(k) \in places(k)
    BY <1>1
  <2>1. places(k) \in SUBSET (1 .. h) /\ places(k) # {}
    BY <1>1
  <2> HIDE DEF places
  <2> QED
    BY <1>1, <2>1, MaxIs
<1>3. U = [k \in K |-> [T[k] EXCEPT !.pos = Append(@, last(k))]]
  BY DEF NextTable
<1>4. K \subseteq DOMAIN T
  OBVIOUS
<1>5. \A m : m[1] \in DOMAIN T /\ T[m[1]].low = m[2] /\ m = <<m[1], m[2]>> /\ (\E j \in DOMAIN c : c[j] = m)
             => m[1] \in K
  OBVIOUS
<1> HIDE DEF last, U, c, K, places
<1>6. ASSUME NEW k \in K
      PROVE  /\ U[k] = [low |-> U[k].low, pos |-> U[k].pos] /\ U[k].low = T[k].low
             /\ U[k].pos \in Seq(Nat) /\ Len(U[k].pos) = n + 1
             /\ \A l \in 1 .. n : U[k].pos[l] = T[k].pos[l]
             /\ U[k].pos[n + 1] = last(k)
  <2>1. T[k] = [low |-> T[k].low, pos |-> T[k].pos] /\ T[k].pos \in Seq(Nat) /\ Len(T[k].pos) = n
    BY <1>4 DEF TableOK
  <2>2. U[k] = [T[k] EXCEPT !.pos = Append(@, last(k))]
    BY <1>3
  <2>3. U[k] = [low |-> T[k].low, pos |-> Append(T[k].pos, last(k))]
    BY <2>1, <2>2
  <2>4. U[k].low = T[k].low /\ U[k].pos = Append(T[k].pos, last(k))
    BY <2>3
  <2>5. last(k) \in Nat
    BY <1>1, <1>2
  <2> QED
    BY <2>1, <2>3, <2>4, <2>5, AppendProperties
<1>7. DOMAIN U = K
  BY <1>3
<1>8. TableOK(U, C, n + 1)
  <2>1. IsFiniteSet(K)
    BY <1>4, FS_Subset DEF TableOK
  <2>2. ASSUME NEW k \in K, NEW l \in 1 .. n + 1
        PROVE  U[k].pos[l] \in DOMAIN C[l] /\ C[l][U[k].pos[l]] = <<k, U[k].low>>
    <3>1. CASE l = n + 1
      BY <1>1, <1>2, <1>6, <3>1 DEF c
    <3>2. CASE l # n + 1
      <4>1. l \in 1 .. n
        BY <3>2
      <4>2. T[k].pos[l] \in DOMAIN C[l] /\ C[l][T[k].pos[l]] = <<k, T[k].low>>
        BY <1>4, <4>1 DEF TableOK
      <4> QED
        BY <1>6, <4>1, <4>2
    <3> QED
      BY <3>1, <3>2
  <2> QED
    BY <1>6, <1>7, <2>1, <2>2 DEF TableOK
<1>9. Complete(U, C, n + 1)
  <2> SUFFICES ASSUME NEW m, Common(m, C, n + 1) PROVE m[1] \in DOMAIN U /\ U[m[1]].low = m[2]
    BY DEF Complete
  <2>1. Common(m, C, n) /\ n + 1 \in 1 .. n + 1 /\ m = <<m[1], m[2]>>
    BY DEF Common
  <2>2. m[1] \in DOMAIN T /\ T[m[1]].low = m[2]
    BY <2>1 DEF Complete
  <2>3. \E j \in DOMAIN c : c[j] = m
    BY <2>1 DEF Common, c
  <2>4. m[1] \in K
    BY <1>5, <2>1, <2>2, <2>3
  <2> QED
    BY <1>6, <1>7, <2>2, <2>4
<1> QED
  BY <1>8, <1>9 DEF U, c

(* What holds of the places that compute_intersection finds: each is the place of one mask in
   all sets, masks with the same first word are found once, and all common masks are found. *)
FoundOK(F, C, n) ==
  /\ IsFiniteSet(F)
  /\ \A t \in F : /\ t \in Seq(Nat) /\ Len(t) = n
                  /\ \A l \in 1 .. n : t[l] \in DOMAIN C[l] /\ C[l][t[l]] = C[1][t[1]]
  /\ \A t, u \in F : C[1][t[1]][1] = C[1][u[1]][1] => t = u
  /\ \A m : Common(m, C, n) => \E t \in F : C[1][t[1]] = m

(* The places in a table. *)
LEMMA PlacesIn ==
  ASSUME NEW n \in Nat \ {0}, NEW C, NEW T, TableOK(T, C, n), Complete(T, C, n)
  PROVE  FoundOK({T[k].pos : k \in DOMAIN T}, C, n)
<1> DEFINE F == {T[k].pos : k \in DOMAIN T}
<1>1. 1 \in 1 .. n
  OBVIOUS
<1>2. \A k \in DOMAIN T :
        /\ T[k].pos \in Seq(Nat) /\ Len(T[k].pos) = n
        /\ \A l \in 1 .. n : T[k].pos[l] \in DOMAIN C[l] /\ C[l][T[k].pos[l]] = <<k, T[k].low>>
        /\ C[1][T[k].pos[1]] = <<k, T[k].low>>
  BY <1>1 DEF TableOK
<1>3. IsFiniteSet(F)
  <2> DEFINE f == [k \in DOMAIN T |-> T[k].pos]
  <2>1. f \in Surjection(DOMAIN T, F)
    BY DEF Surjection
  <2> HIDE DEF f, F
  <2> QED
    BY <2>1, FS_Surjection DEF TableOK
<1>4. \A t \in F : \E k \in DOMAIN T : t = T[k].pos
  OBVIOUS
<1>5. \A k \in DOMAIN T : T[k].pos \in F
  OBVIOUS
<1> HIDE DEF F
<1>6. ASSUME NEW t \in F
      PROVE  /\ t \in Seq(Nat) /\ Len(t) = n
             /\ \A l \in 1 .. n : t[l] \in DOMAIN C[l] /\ C[l][t[l]] = C[1][t[1]]
  <2>1. PICK k \in DOMAIN T : t = T[k].pos
    BY <1>4
  <2> QED
    BY Zenon, <1>2, <2>1
<1>7. ASSUME NEW t \in F, NEW u \in F, C[1][t[1]][1] = C[1][u[1]][1]
      PROVE  t = u
  <2>1. PICK k \in DOMAIN T : t = T[k].pos
    BY <1>4
  <2>2. PICK j \in DOMAIN T : u = T[j].pos
    BY <1>4
  <2>3. C[1][t[1]] = <<k, T[k].low>> /\ C[1][u[1]] = <<j, T[j].low>>
    BY Zenon, <1>2, <2>1, <2>2
  <2>4. k = j
    BY <1>7, <2>3
  <2> QED
    BY <2>1, <2>2, <2>4
<1>8. ASSUME NEW m, Common(m, C, n)
      PROVE  \E t \in F : C[1][t[1]] = m
  <2>1. m[1] \in DOMAIN T /\ T[m[1]].low = m[2] /\ m = <<m[1], m[2]>>
    BY <1>8 DEF Complete, Common
  <2>2. C[1][T[m[1]].pos[1]] = <<m[1], T[m[1]].low>>
    BY Zenon, <1>2, <2>1
  <2>3. C[1][T[m[1]].pos[1]] = m
    BY <2>1, <2>2
  <2> QED
    BY Zenon, <1>5, <2>1, <2>3
<1> QED
  BY <1>3, <1>6, <1>7, <1>8 DEF FoundOK, F

(* compute_intersection for one client or two. *)
LEMMA IntersectionIs ==
  ASSUME NEW C \in Seq(Seq(AnyMask)), Len(C) \in 1 .. 2
  PROVE  FoundOK(Intersection(C), C, Len(C))
<1> DEFINE n == Len(C)
           Rec(f) == f = [i \in 1 .. n |->
                            IF i = 1 THEN FirstTable(C[1]) ELSE NextTable(f[i - 1], C[i])]
           g == CHOOSE f : Rec(f)
           w == IF n = 1 THEN <<FirstTable(C[1])>>
                ELSE <<FirstTable(C[1]), NextTable(FirstTable(C[1]), C[2])>>
<1>1. n \in {1, 2} /\ \A i \in 1 .. n : C[i] \in Seq(AnyMask)
  BY ElementOfSeq
<1> DEFINE F1 == FirstTable(C[1])
           N2 == NextTable(F1, C[2])
<1>2. \E f : Rec(f)
  <2>1. Rec(w)
    <3> HIDE DEF F1, N2, n
    <3>1. CASE n = 1
      <4>1. [i \in 1 .. n |-> IF i = 1 THEN F1 ELSE NextTable(w[i - 1], C[i])] = <<F1>>
        BY <3>1
      <4> QED
        BY <3>1, <4>1 DEF F1
    <3>2. CASE n = 2
      <4> DEFINE v == <<F1, N2>>
      <4>1. v[1] = F1
        OBVIOUS
      <4>2. [i \in 1 .. n |-> IF i = 1 THEN F1 ELSE NextTable(v[i - 1], C[i])] = <<F1, N2>>
        <5>1. [i \in 1 .. n |-> IF i = 1 THEN F1 ELSE NextTable(v[i - 1], C[i])]
                = [i \in 1 .. 2 |-> IF i = 1 THEN F1 ELSE N2]
          BY <3>2, <4>1 DEF N2
        <5> QED
          BY <5>1
      <4> QED
        BY <3>2, <4>2 DEF F1, N2
    <3> QED
      BY <1>1, <3>1, <3>2
  <2> QED
    BY <2>1
<1>3. Rec(g)
  BY <1>2
<1>4. Intersection(C) = {g[n][k].pos : k \in DOMAIN g[n]}
  BY DEF Intersection
<1>5. g[1] = F1 /\ (n = 2 => g[2] = N2)
  <2> HIDE DEF n, g
  <2> QED
    BY <1>1, <1>3 DEF F1, N2
<1> HIDE DEF g, n, F1, N2
<1>6. TableOK(F1, C, 1) /\ Complete(F1, C, 1)
  BY <1>1, FirstTableIs DEF F1
<1>7. TableOK(g[n], C, n) /\ Complete(g[n], C, n)
  <2>1. CASE n = 1
    BY <1>5, <1>6, <2>1
  <2>2. CASE n = 2
    <3>1. C[1 + 1] = C[2] /\ 1 + 1 = 2 /\ 1 \in Nat \ {0} /\ C[1 + 1] \in Seq(AnyMask)
      BY <1>1, <2>2
    <3>2. TableOK(NextTable(F1, C[1 + 1]), C, 1 + 1) /\ Complete(NextTable(F1, C[1 + 1]), C, 1 + 1)
      BY <1>6, <3>1, NextTableIs
    <3> QED
      BY <1>5, <2>2, <3>1, <3>2 DEF N2
  <2> QED
    BY <1>1, <2>1, <2>2
<1>8. n \in Nat \ {0}
  BY <1>1
<1> QED
  BY <1>4, <1>7, <1>8, PlacesIn DEF n

-----------------------------------------------------------------------------
(* What a client makes of the answer. *)

(* The element that the client p sent to place j. *)
Of(p, j) == elements[p][InvPerm(p, j)]

(* r has the elements that p sent to the places in bits, and each of them once if they
   differ. *)
SelectsAll(p, r, bits, size) ==
  /\ size \in Nat /\ DOMAIN r = 1 .. size
  /\ \A k \in 1 .. size : \E j \in bits : r[k] = Of(p, j)
  /\ \A j \in bits : \E k \in 1 .. size : r[k] = Of(p, j)
  /\ (\A i, j \in bits : Of(p, i) = Of(p, j) => i = j) =>
       \A k, l \in 1 .. size : r[k] = r[l] => k = l

(* The elements that a client selects: those that it sent to the places in bits, as often
   as they are in it. *)
LEMMA SelectedIs ==
  ASSUME NEW p, Size(p) \in Nat, perm[p] \in Bijections(Size(p)),
         NEW bits \in SUBSET (1 .. Size(p)), NEW size, size = Cardinality(bits)
  PROVE  SelectsAll(p, Selected(p, size, bits), bits, size)
<1> DEFINE n == Size(p)
           M == {InvPerm(p, j) : j \in bits}
           s == Sorted(M)
           of(j) == elements[p][InvPerm(p, j)]
           r == Selected(p, size, bits)
<1>1. \A j \in bits : InvPerm(p, j) \in 1 .. n /\ perm[p][InvPerm(p, j)] = j
  BY InvPermIs
<1>2. M \in SUBSET (1 .. n)
  BY <1>1
<1>3. IsFiniteSet(bits) /\ size \in Nat
  <2>1. IsFiniteSet(1 .. n)
    BY FS_Interval
  <2>2. IsFiniteSet(bits)
    BY <2>1, FS_Subset
  <2> QED
    BY <2>2, FS_CardinalityType
<1>4. Cardinality(M) = size
  <2> DEFINE f == [j \in bits |-> InvPerm(p, j)]
  <2>1. f \in [bits -> M] /\ \A z \in M : \E x \in bits : f[x] = z
    OBVIOUS
  <2>2. \A x, y \in bits : f[x] = f[y] => x = y
    BY <1>1
  <2> HIDE DEF f, M
  <2> QED
    BY <1>3, <2>1, <2>2, SameSize
<1>5. \A m \in M : \E j \in bits : m = InvPerm(p, j)
  OBVIOUS
<1>6. \A j \in bits : InvPerm(p, j) \in M
  OBVIOUS
<1>7. r = IF size > Cardinality(M) THEN Unfounded ELSE [k \in 1 .. size |-> elements[p][s[k]]]
  BY DEF Selected
<1> HIDE DEF M, r
<1>8. /\ s \in [1 .. size -> M]
      /\ \A i, j \in 1 .. size : s[i] = s[j] => i = j
      /\ \A x \in M : \E i \in 1 .. size : s[i] = x
  BY <1>2, <1>4, SortedIs
<1> HIDE DEF s
<1>9. r = [k \in 1 .. size |-> elements[p][s[k]]]
  BY <1>3, <1>4, <1>7
<1>10. \A k \in 1 .. size : \E j \in bits : s[k] = InvPerm(p, j) /\ r[k] = of(j)
  BY <1>5, <1>8, <1>9
<1>11. \A j \in bits : \E k \in 1 .. size : r[k] = of(j)
  BY <1>6, <1>8, <1>9
<1>12. ASSUME \A i, j \in bits : of(i) = of(j) => i = j, NEW k \in 1 .. size, NEW l \in 1 .. size,
              r[k] = r[l]
       PROVE  k = l
  <2>1. PICK i \in bits : s[k] = InvPerm(p, i) /\ r[k] = of(i)
    BY <1>10
  <2>2. PICK j \in bits : s[l] = InvPerm(p, j) /\ r[l] = of(j)
    BY <1>10
  <2>3. i = j
    BY <1>12, <2>1, <2>2
  <2> QED
    BY <1>8, <2>1, <2>2, <2>3
<1>13. DOMAIN r = 1 .. size
  BY <1>9
<1> QED
  BY <1>3, <1>10, <1>11, <1>12, <1>13 DEF SelectsAll, Of, r

(* r has elements whose masks all sets have, each once, and all such elements as far as the
   first table keeps them. *)
IsExact(r, C) ==
  /\ \A k \in DOMAIN r : /\ r[k] \in DOMAIN Mask
                          /\ \A l \in 1 .. Len(C) : \E j \in DOMAIN C[l] : C[l][j] = Mask[r[k]]
  /\ \A k, l \in DOMAIN r : r[k] = r[l] => k = l
  /\ \A x \in DOMAIN Mask : Common(Mask[x], C, Len(C)) => x \in Range(r)

(* The answer to the client at place i is exact. *)
LEMMA AnswerIs ==
  ASSUME NEW C \in Seq(Seq(AnyMask)), Len(C) \in 1 .. 2, NEW i \in 1 .. Len(C), NEW p,
         elements[p] \in Seq(DOMAIN Mask), perm[p] \in Bijections(Size(p)),
         IsBench(p) => NTasks(p) \in Nat \ {0}, MasksRight(p), C[i] = Masks(p)
  PROVE  IsExact(Selected(p, Cardinality(Intersection(C)), {t[i] : t \in Intersection(C)}), C)
<1> DEFINE n == Len(C)
           F == Intersection(C)
           bits == {t[i] : t \in F}
           size == Cardinality(F)
           of(j) == elements[p][InvPerm(p, j)]
           r == Selected(p, size, bits)
<1>1. FoundOK(F, C, n)
  BY IntersectionIs
<1>2. /\ DOMAIN C[i] = 1 .. Size(p) /\ Size(p) \in Nat
      /\ \A j \in 1 .. Size(p) : C[i][j] = Mask[of(j)]
  BY MasksAre
<1>3. \A j \in 1 .. Size(p) : of(j) \in DOMAIN Mask
  <2>1. \A k \in 1 .. Size(p) : elements[p][k] \in DOMAIN Mask
    BY ElementOfSeq DEF Size
  <2> QED
    BY <1>2, <2>1, InvPermIs
<1>4. 1 \in 1 .. n /\ i \in 1 .. n /\ n \in Nat
  OBVIOUS
<1> HIDE DEF F, of, n
<1>5. \A t \in F : /\ t[i] \in 1 .. Size(p) /\ C[i][t[i]] = C[1][t[1]]
                   /\ Mask[of(t[i])] = C[1][t[1]] /\ of(t[i]) \in DOMAIN Mask
                   /\ \A l \in 1 .. n : \E j \in DOMAIN C[l] : C[l][j] = Mask[of(t[i])]
  <2> SUFFICES ASSUME NEW t \in F
               PROVE  /\ t[i] \in 1 .. Size(p) /\ C[i][t[i]] = C[1][t[1]]
                      /\ Mask[of(t[i])] = C[1][t[1]] /\ of(t[i]) \in DOMAIN Mask
                      /\ \A l \in 1 .. n : \E j \in DOMAIN C[l] : C[l][j] = Mask[of(t[i])]
    OBVIOUS
  <2>1. \A l \in 1 .. n : t[l] \in DOMAIN C[l] /\ C[l][t[l]] = C[1][t[1]]
    BY <1>1 DEF FoundOK
  <2>2. t[i] \in 1 .. Size(p) /\ C[i][t[i]] = C[1][t[1]]
    BY <1>2, <1>4, <2>1
  <2>3. Mask[of(t[i])] = C[1][t[1]] /\ of(t[i]) \in DOMAIN Mask
    BY <1>2, <1>3, <2>2
  <2> QED
    BY <2>1, <2>2, <2>3
<1>6. \A t, u \in F : of(t[i]) = of(u[i]) => t = u
  <2> SUFFICES ASSUME NEW t \in F, NEW u \in F, of(t[i]) = of(u[i]) PROVE t = u
    OBVIOUS
  <2>1. C[1][t[1]] = C[1][u[1]]
    BY <1>5
  <2> QED
    BY <1>1, <2>1 DEF FoundOK
<1>7. Cardinality(bits) = size
  <2> DEFINE f == [t \in F |-> t[i]]
  <2>1. f \in [F -> bits] /\ \A z \in bits : \E t \in F : f[t] = z
    OBVIOUS
  <2>2. \A t, u \in F : f[t] = f[u] => t = u
    BY <1>6
  <2>3. IsFiniteSet(F)
    BY <1>1 DEF FoundOK
  <2> HIDE DEF f, bits
  <2> QED
    BY <2>1, <2>2, <2>3, SameSize
<1>8. bits \in SUBSET (1 .. Size(p))
  BY <1>5
<1>9. \A j \in bits : \E t \in F : j = t[i]
  OBVIOUS
<1>10. \A t \in F : t[i] \in bits
  OBVIOUS
<1> HIDE DEF bits, size, r
<1>11. /\ size \in Nat /\ DOMAIN r = 1 .. size
       /\ \A k \in 1 .. size : \E j \in bits : r[k] = of(j)
       /\ \A j \in bits : \E k \in 1 .. size : r[k] = of(j)
       /\ (\A j, m \in bits : of(j) = of(m) => j = m) =>
            \A k, l \in 1 .. size : r[k] = r[l] => k = l
  <2>1. size = Cardinality(bits)
    BY <1>7
  <2>2. SelectsAll(p, r, bits, size)
    BY Zenon, <1>2, <1>8, <2>1, SelectedIs DEF r
  <2> QED
    BY Zenon, <2>2 DEF SelectsAll, Of, of
<1>12. \A k \in DOMAIN r : \E t \in F : r[k] = of(t[i])
  <2> SUFFICES ASSUME NEW k \in DOMAIN r PROVE \E t \in F : r[k] = of(t[i])
    OBVIOUS
  <2>1. PICK j \in bits : r[k] = of(j)
    BY Zenon, <1>11
  <2>2. PICK t \in F : j = t[i]
    BY Zenon, <1>9, <2>1
  <2> HIDE DEF of
  <2> QED
    BY Zenon, <2>1, <2>2
<1>13. \A j, m \in bits : of(j) = of(m) => j = m
  BY <1>6, <1>9
<1>14. ASSUME NEW x \in DOMAIN Mask, Common(Mask[x], C, n)
       PROVE  x \in Range(r)
  <2>1. PICK t \in F : C[1][t[1]] = Mask[x]
    BY <1>1, <1>14 DEF FoundOK
  <2>2. of(t[i]) = x
    BY <1>5, <2>1, MaskIs
  <2>3. PICK k \in 1 .. size : r[k] = x
    BY <1>10, <1>11, <2>2
  <2> QED
    BY <1>11, <2>3 DEF Range
<1>15. \A k \in DOMAIN r : /\ r[k] \in DOMAIN Mask
                          /\ \A l \in 1 .. n : \E j \in DOMAIN C[l] : C[l][j] = Mask[r[k]]
  BY <1>5, <1>12
<1>16. \A k, l \in DOMAIN r : r[k] = r[l] => k = l
  BY <1>11, <1>13
<1> QED
  BY <1>14, <1>15, <1>16 DEF IsExact, r, n, F, bits, size

-----------------------------------------------------------------------------
(* What the invariant says of results. *)

(* The numbers of connections, clients and threads. *)
LEMMA NumbersAre ==
  ASSUME NInv, NEW p \in Process
  PROVE  /\ NClients(p) \in 0 .. 2 /\ NClients(p) <= Slots(p)
         /\ Slots(p) \in 1 .. MaxSockets /\ Sockets(p) \in 1 .. MaxSockets /\ MaxSockets \in Nat
         /\ IsBench(p) => NTasks(p) \in Nat \ {0}
<1>1. Slots(p) \in 1 .. MaxSockets /\ Sockets(p) \in 1 .. MaxSockets /\ MaxSockets \in Nat
  BY SlotsBound, ConnectionOK DEF NInv
<1>2. IsBench(p) => NTasks(p) = Slots(p)
  BY DEF NTasks, Slots
<1>3. NClients(p) \in {0, 1} \/ (NClients(p) = 2 /\ Slots(p) = 2)
  BY DEF NClients, Slots
<1> QED
  BY <1>1, <1>2, <1>3

(* The places of the listener's sockets. *)
LEMMA PlaceIs ==
  ASSUME NInv, listener \in Process, FullOK(listener), pc[listener] # "accept",
         NEW l \in 1 .. NClients(listener)
  PROVE  /\ l \in DOMAIN sockets[listener] /\ sockets[listener][l][1] \in Conn
         /\ sockets[listener][l] = <<sockets[listener][l][1], "server">>
         /\ Joined(sockets[listener][l][1], l)
         /\ sockets[listener][l][1][1] \in Process
<1>1. Len(sockets[listener]) = Slots(listener)
  BY DEF FullOK
<1>2. /\ sockets[listener] \in Seq(End \cup {NoSocket})
      /\ \A i \in DOMAIN sockets[listener] : sockets[listener][i] \in Conn \X {"server"}
  BY DEF NInv, SocketsOK
<1>3. l \in DOMAIN sockets[listener]
  <2>1. DOMAIN sockets[listener] = 1 .. Slots(listener)
    BY <1>1, <1>2, LenProperties
  <2> QED
    BY <2>1, NumbersAre
<1>4. sockets[listener][l] \in Conn \X {"server"}
  BY <1>2, <1>3
<1>5. sockets[listener][l][1] \in Conn /\ sockets[listener][l] = <<sockets[listener][l][1], "server">>
  BY <1>4
<1>6. sockets[listener][l][1][1] \in Process
  BY <1>5 DEF Conn
<1> QED
  BY <1>3, <1>5, <1>6 DEF Joined

(* The masks of a client with one thread are those of its elements. *)
LEMMA SentMasks ==
  ASSUME NInv, NEW q \in Process, ClientOK(q), q \in sent, MasksRight(q)
  PROVE  /\ DOMAIN Masks(q) = 1 .. Size(q) /\ Size(q) \in Nat /\ DOMAIN elements[q] = 1 .. Size(q)
         /\ \A j \in DOMAIN Masks(q) : \E m \in 1 .. Size(q) :
              Masks(q)[j] = Mask[elements[q][m]] /\ elements[q][m] \in DOMAIN Mask
         /\ \A m \in 1 .. Size(q) : \E j \in DOMAIN Masks(q) : Masks(q)[j] = Mask[elements[q][m]]
<1>1. elements[q] \in Seq(DOMAIN Mask) /\ perm[q] \in Bijections(Size(q))
  BY DEF ClientOK
<1>2. /\ DOMAIN Masks(q) = 1 .. Size(q) /\ Size(q) \in Nat
      /\ \A j \in 1 .. Size(q) : Masks(q)[j] = Mask[elements[q][InvPerm(q, j)]]
  BY <1>1, MasksAre, NumbersAre
<1>3. DOMAIN elements[q] = 1 .. Size(q) /\ \A m \in 1 .. Size(q) : elements[q][m] \in DOMAIN Mask
  BY <1>1, LenProperties, ElementOfSeq DEF Size
<1>4. /\ \A j \in 1 .. Size(q) : InvPerm(q, j) \in 1 .. Size(q)
      /\ \A m \in 1 .. Size(q) : perm[q][m] \in 1 .. Size(q) /\ InvPerm(q, perm[q][m]) = m
  BY <1>1, <1>2, InvPermIs
<1>5. \A m \in 1 .. Size(q) : Masks(q)[perm[q][m]] = Mask[elements[q][m]]
  BY <1>2, <1>4
<1> QED
  BY <1>2, <1>3, <1>4, <1>5

(* The result of a client that was told is exact. *)
LEMMA ToldExactly ==
  ASSUME ProtocolInv, NEW p \in told, \A q \in Served(listener) : MasksRight(q)
  PROVE  LET s == listener
             common == {x \in DOMAIN Mask :
                          \A q \in (Served(s) \cap sent) \cup {p} : x \in Range(elements[q])}
         IN /\ Range(result[p]) \subseteq common
            /\ \A i, j \in DOMAIN result[p] : result[p][i] = result[p][j] => i = j
            /\ Served(s) \subseteq sent /\ FirstKept(s) => common \subseteq Range(result[p])
<1> DEFINE s == listener
           C == csets[s]
           n == NClients(s)
           r == result[p]
           client(l) == sockets[s][l][1][1]
           common == {x \in DOMAIN Mask :
                        \A q \in (Served(s) \cap sent) \cup {p} : x \in Range(elements[q])}
<1>1. s \in Process /\ p \in sent /\ p \in Process /\ NInv
  BY DEF ProtocolInv, ToldOK, NetOK
<1>2. PICK i \in 1 .. answered[s] :
        Joined(<<p, 0>>, i) /\ r = Selected(p, AnswerTo(i)[2], AnswerTo(i)[3])
  BY DEF ProtocolInv, ToldOK
<1>3. ServerOK(s) /\ FullOK(s)
  BY <1>1 DEF ProtocolInv, ProcessOK
<1>4. answered[s] \in Nat /\ answered[s] # 0 /\ Computed(s) /\ C \in Seq(Seq(AnyMask))
  <2>1. answered[s] \in Nat /\ C \in Seq(Seq(AnyMask))
    BY <1>3 DEF ServerOK
  <2>2. answered[s] # 0
    BY <1>2, <2>1
  <2> QED
    BY <1>3, <2>1, <2>2 DEF ServerOK
<1>5. n \in 1 .. 2 /\ Len(C) = n /\ i \in 1 .. n /\ found[s] = Intersection(C)
  <2>1. n \in 0 .. 2 /\ Len(C) = n /\ answered[s] <= n
    BY <1>1, <1>4, NumbersAre DEF Computed
  <2>2. n # 0 /\ i \in 1 .. n
    BY <1>2, <1>4, <2>1
  <2> QED
    BY <1>4, <2>1, <2>2 DEF Computed
<1>6. pc[s] # "accept"
  BY <1>3, <1>4 DEF ServerOK, Ended
<1>7. \A l \in 1 .. n : /\ client(l) \in Process /\ client(l) \in Served(s)
                        /\ sockets[s][l][1] \in Conn /\ Joined(sockets[s][l][1], l)
  BY <1>1, <1>3, <1>6, PlaceIs DEF Served
<1>8. \A q \in Served(s) : \E l \in 1 .. n : q = client(l)
  BY DEF Served
<1>9. \A l \in 1 .. n : client(l) \in sent => C[l] = Masks(client(l))
  <2> SUFFICES ASSUME NEW l \in 1 .. n, client(l) \in sent PROVE C[l] = Masks(client(l))
    OBVIOUS
  <2>1. l \in DOMAIN C
    BY <1>4, <1>5, LenProperties
  <2> QED
    BY <1>1, <1>7, <2>1 DEF ProtocolInv, SetsOK
<1>10. client(i) = p
  BY <1>2 DEF Joined
<1>11. C[i] = Masks(p) /\ MasksRight(p) /\ p \in Served(s) /\ ClientOK(p)
  BY <1>1, <1>5, <1>7, <1>9, <1>10 DEF ProtocolInv, ProcessOK
<1>12. \A q \in Served(s) \cap sent : q \in Process /\ ClientOK(q) /\ MasksRight(q)
  BY <1>7, <1>8 DEF ProtocolInv, ProcessOK
<1>13. r = Selected(p, Cardinality(Intersection(C)), {t[i] : t \in Intersection(C)})
  BY <1>2, <1>5 DEF AnswerTo
<1>14. elements[p] \in Seq(DOMAIN Mask) /\ perm[p] \in Bijections(Size(p))
       /\ (IsBench(p) => NTasks(p) \in Nat \ {0})
  BY <1>1, <1>11, NumbersAre DEF ClientOK
<1> HIDE DEF C, n, r, client
<1>15. /\ \A k \in DOMAIN r : /\ r[k] \in DOMAIN Mask
                             /\ \A l \in 1 .. n : \E j \in DOMAIN C[l] : C[l][j] = Mask[r[k]]
       /\ \A k, l \in DOMAIN r : r[k] = r[l] => k = l
       /\ \A x \in DOMAIN Mask : Common(Mask[x], C, n) => x \in Range(r)
  <2>1. Len(C) \in 1 .. 2 /\ i \in 1 .. Len(C)
    BY <1>5
  <2>2. IsExact(r, C)
    BY Zenon, <1>4, <1>11, <1>13, <1>14, <2>1, AnswerIs
  <2> QED
    BY Zenon, <1>5, <2>2 DEF IsExact
<1>16. ASSUME NEW k \in DOMAIN r, NEW q \in (Served(s) \cap sent) \cup {p}
       PROVE  r[k] \in Range(elements[q])
  <2>1. q \in Served(s) \cap sent
    BY <1>1, <1>11
  <2>2. PICK l \in 1 .. n : q = client(l)
    BY <1>8, <2>1
  <2>3. C[l] = Masks(q)
    BY <1>9, <2>1, <2>2
  <2>4. PICK j \in DOMAIN Masks(q) : Masks(q)[j] = Mask[r[k]]
    BY <1>15, <2>3
  <2>5. PICK m \in 1 .. Size(q) : /\ Masks(q)[j] = Mask[elements[q][m]] /\ elements[q][m] \in DOMAIN Mask
                                  /\ DOMAIN elements[q] = 1 .. Size(q)
    BY <1>1, <1>12, <2>1, SentMasks
  <2>6. r[k] = elements[q][m]
    BY <1>15, <2>4, <2>5, MaskIs
  <2> QED
    BY <2>5, <2>6 DEF Range
<1>17. Range(r) \subseteq common
  <2>1. \A x \in Range(r) : \E k \in DOMAIN r : x = r[k]
    BY DEF Range
  <2> QED
    BY <1>15, <1>16, <2>1
<1>18. ASSUME Served(s) \subseteq sent, FirstKept(s), NEW x \in common
       PROVE  x \in Range(r)
  <2>1. \A l \in 1 .. n : \E m \in 1 .. Size(client(l)) : elements[client(l)][m] = x
    <3> SUFFICES ASSUME NEW l \in 1 .. n
                 PROVE  \E m \in 1 .. Size(client(l)) : elements[client(l)][m] = x
      OBVIOUS
    <3>1. client(l) \in Served(s) \cap sent
      BY <1>7, <1>18
    <3>2. x \in Range(elements[client(l)])
      BY <3>1
    <3>3. DOMAIN elements[client(l)] = 1 .. Size(client(l))
      BY <1>1, <1>12, <3>1, SentMasks
    <3> QED
      BY <3>2, <3>3 DEF Range
  <2>2. \A l \in 1 .. n : \E j \in DOMAIN C[l] : C[l][j] = Mask[x]
    <3> SUFFICES ASSUME NEW l \in 1 .. n PROVE \E j \in DOMAIN C[l] : C[l][j] = Mask[x]
      OBVIOUS
    <3>1. client(l) \in Served(s) \cap sent /\ C[l] = Masks(client(l))
      BY <1>7, <1>9, <1>18
    <3>2. PICK m \in 1 .. Size(client(l)) : elements[client(l)][m] = x
      BY <2>1
    <3> QED
      BY <1>1, <1>12, <3>1, <3>2, SentMasks
  <2>3. \A j \in DOMAIN C[1] : C[1][j][1] = Mask[x][1] => C[1][j] = Mask[x]
    <3> SUFFICES ASSUME NEW j \in DOMAIN C[1], C[1][j][1] = Mask[x][1] PROVE C[1][j] = Mask[x]
      OBVIOUS
    <3> DEFINE q == client(1)
               c == elements[q]
    <3>1. 1 \in 1 .. n
      BY <1>5
    <3>2. q \in Served(s) \cap sent /\ C[1] = Masks(q)
      BY <1>7, <1>9, <1>18, <3>1
    <3>3. PICK m \in 1 .. Size(q) : C[1][j] = Mask[c[m]] /\ DOMAIN c = 1 .. Size(q)
      BY <1>1, <1>12, <3>2, SentMasks
    <3>4. PICK k \in 1 .. Size(q) : c[k] = x
      BY <2>1, <3>1
    <3>5. \A a, b \in DOMAIN c : Mask[c[a]][1] = Mask[c[b]][1] => c[a] = c[b]
      BY <1>18 DEF FirstKept, client
    <3>6. c[m] = c[k]
      BY <3>3, <3>4, <3>5
    <3> QED
      BY <3>3, <3>4, <3>6
  <2>4. Mask[x] = <<Mask[x][1], Mask[x][2]>> /\ x \in DOMAIN Mask
    BY MaskIs
  <2>5. Common(Mask[x], C, n)
    BY Zenon, <2>2, <2>3, <2>4 DEF Common
  <2> QED
    BY <1>15, <2>4, <2>5
<1> QED
  BY <1>15, <1>17, <1>18 DEF r

(* Sequences over a larger set. *)
LEMMA SeqOver ==
  ASSUME NEW S, NEW T, S \subseteq T, NEW s \in Seq(S)
  PROVE  s \in Seq(T)
<1>1. Len(s) \in Nat /\ \A i \in 1 .. Len(s) : s[i] \in T
  BY LenProperties, ElementOfSeq
<1>2. s \in [1 .. Len(s) -> T]
  BY <1>1, LenProperties
<1> QED
  BY <1>1, <1>2

(* Finitely many numbers have a greatest one. *)
LEMMA FiniteMax ==
  ASSUME NEW S, S \subseteq Nat, IsFiniteSet(S), S # {}
  PROVE  Max(S) \in S /\ \A x \in S : x <= Max(S)
<1> DEFINE n == Cardinality(S)
<1>1. n \in Nat /\ ExistsBijection(1 .. n, S)
  BY FS_CardinalityType
<1>2. PICK f \in [1 .. n -> S] : \A x \in S : \E i \in 1 .. n : f[i] = x
  BY <1>1 DEF ExistsBijection, Bijection, Injection, Surjection
<1> HIDE DEF n
<1> DEFINE Bounded(k) == \E m \in Nat : \A i \in 1 .. k : f[i] <= m
           T == {k \in 0 .. n : ~ Bounded(k)}
<1>3. \A i \in 1 .. n : f[i] \in Nat
  BY <1>2
<1>4. T = {}
  <2> SUFFICES ASSUME T # {} PROVE FALSE
    OBVIOUS
  <2>1. T \subseteq Nat
    BY <1>1
  <2> HIDE DEF T
  <2>2. PICK k \in T : \A l \in T : k <= l
    BY <2>1, Least
  <2>3. k \in 0 .. n /\ ~ Bounded(k)
    BY DEF T
  <2>4. k # 0
    <3>1. \A i \in 1 .. 0 : f[i] <= 0
      OBVIOUS
    <3> QED
      BY <2>3, <3>1
  <2>5. k - 1 \in 0 .. n /\ k - 1 \notin T
    BY <1>1, <2>2, <2>3, <2>4
  <2>6. PICK m \in Nat : \A i \in 1 .. k - 1 : f[i] <= m
    BY <2>5 DEF T
  <2>7. f[k] \in Nat
    BY <1>1, <1>3, <2>3, <2>4
  <2>8. m + f[k] \in Nat /\ \A i \in 1 .. k : f[i] <= m + f[k]
    <3>1. \A i \in 1 .. k : i \in 1 .. k - 1 \/ i = k
      BY <2>3
    <3>2. \A i \in 1 .. k : f[i] \in Nat
      BY <1>1, <1>3, <2>3
    <3> QED
      BY <2>6, <2>7, <3>1, <3>2
  <2> QED
    BY <2>3, <2>8
<1>5. PICK n0 \in Nat : \A i \in 1 .. n : f[i] <= n0
  <2>1. n \in 0 .. n
    BY <1>1
  <2> QED
    BY <1>4, <2>1
<1>6. \A x \in S : x <= n0
  BY <1>2, <1>5
<1> DEFINE U == {m \in Nat : \A x \in S : x <= m}
<1>7. PICK m \in U : \A y \in U : m <= y
  <2>1. U \subseteq Nat /\ U # {}
    BY <1>6
  <2> QED
    BY <2>1, Least
<1>8. m \in S
  <2> SUFFICES ASSUME m \notin S PROVE FALSE
    OBVIOUS
  <2>1. \A x \in S : x \in Nat /\ x <= m /\ x # m
    OBVIOUS
  <2>2. m \in Nat /\ m # 0
    <3>1. \A k \in Nat : k <= 0 => k = 0
      OBVIOUS
    <3> QED
      BY <2>1, <3>1
  <2>3. m - 1 \in U
    BY <2>1, <2>2
  <2> QED
    BY <1>7, <2>2, <2>3
<1>9. \E a \in S : \A x \in S : a >= x
  BY <1>8
<1>10. Max(S) \in S /\ \A x \in S : Max(S) >= x
  BY <1>9 DEF Max
<1> QED
  BY <1>10

(* What the types name is what the invariant says. *)
LEMMA TypesFollow ==
  ASSUME ProtocolInv
  PROVE  TypeOK
<1> DEFINE sizes == {Len(elements[p]) : p \in Process}
           Answers == {"answer"} \X Nat \X SUBSET (1 .. Max(sizes))
           Message == {"sizes"} \X Nat \cup {"set"} \X Seq(Range(Mask)) \cup Answers
<1>1. NInv /\ NetOK /\ Ends /\ AnswersOK /\ WordsOK /\ \A p \in Process : ProcessOK(p)
  BY DEF ProtocolInv
<1>2. \A p \in Process : /\ Len(elements[p]) \in Nat /\ Max(sizes) \in Nat
                          /\ Len(elements[p]) <= Max(sizes)
  <2>1. \A p \in Process : Len(elements[p]) \in Nat
    BY <1>1, LenProperties DEF ProcessOK, ClientOK
  <2> DEFINE f == [p \in Process |-> Len(elements[p])]
  <2>2. f \in Surjection(Process, sizes)
    BY DEF Surjection
  <2>3. IsFiniteSet(sizes)
    <3> HIDE DEF f, sizes
    <3> QED
      BY <2>2, FS_Surjection, ConnectionOK
  <2>4. sizes \subseteq Nat /\ \A p \in Process : Len(elements[p]) \in sizes
    BY <2>1
  <2> HIDE DEF sizes, f
  <2>5. ASSUME NEW p \in Process
        PROVE  Len(elements[p]) <= Max(sizes) /\ Max(sizes) \in Nat
    <3>1. sizes # {}
      BY <2>4
    <3> QED
      BY <2>3, <2>4, <3>1, FiniteMax
  <2> QED
    BY <2>1, <2>5
<1>3. ASSUME NEW p \in Process
      PROVE  /\ Len(csets[p]) <= Len(neles[p])
             /\ \A t \in found[p] : Len(t) = NClients(p) /\ \A i \in DOMAIN t : t[i] \in DOMAIN csets[p][i]
             /\ IsFiniteSet(found[p])
  <2>1. ServerOK(p) /\ NClients(p) \in 0 .. 2
    BY <1>1, NumbersAre DEF ProcessOK
  <2>2. CASE found[p] = {}
    BY <2>1, <2>2, FS_EmptySet DEF ServerOK
  <2>3. CASE found[p] # {}
    <3>1. Computed(p) /\ csets[p] \in Seq(Seq(AnyMask)) /\ Len(csets[p]) <= Len(neles[p])
      BY <2>1, <2>3 DEF ServerOK
    <3>2. Len(csets[p]) = NClients(p) /\ NClients(p) \in 1 .. 2 /\ found[p] = Intersection(csets[p])
      BY <2>1, <2>3, <3>1 DEF Computed
    <3>3. FoundOK(found[p], csets[p], NClients(p))
      BY <3>1, <3>2, IntersectionIs
    <3>4. \A t \in found[p] : /\ Len(t) = NClients(p) /\ DOMAIN t = 1 .. NClients(p)
                              /\ \A i \in DOMAIN t : t[i] \in DOMAIN csets[p][i]
      BY <3>3, LenProperties DEF FoundOK
    <3> QED
      BY <3>1, <3>3, <3>4 DEF FoundOK
  <2> QED
    BY <2>2, <2>3
<1>4. ASSUME NEW c \in Conn, inbox[<<c, "client">>] # <<>>
      PROVE  inbox[<<c, "client">>] \in Seq(Answers)
  <2>1. listener \in Process /\ c[1] \in sent /\ c[1] \in Process
    BY <1>1, <1>4 DEF AnswersOK, Conn
  <2>2. PICK i \in 1 .. answered[listener] : Joined(c, i) /\ inbox[<<c, "client">>] = <<AnswerTo(i)>>
    BY <1>1, <1>4 DEF AnswersOK
  <2> DEFINE s == listener
             q == c[1]
  <2>3. ServerOK(s) /\ ClientOK(q) /\ NClients(s) \in 0 .. 2
    BY <1>1, <2>1, NumbersAre DEF ProcessOK
  <2>4. answered[s] \in Nat /\ answered[s] # 0 /\ Computed(s) /\ csets[s] \in Seq(Seq(AnyMask))
    <3>1. answered[s] \in Nat /\ csets[s] \in Seq(Seq(AnyMask))
      BY <2>3 DEF ServerOK
    <3>2. answered[s] # 0
      BY <2>2, <3>1
    <3> QED
      BY <2>3, <3>1, <3>2 DEF ServerOK
  <2>5. NClients(s) \in 1 .. 2 /\ Len(csets[s]) = NClients(s) /\ i \in 1 .. NClients(s)
        /\ found[s] = Intersection(csets[s])
    BY <2>2, <2>3, <2>4 DEF Computed
  <2>6. i \in DOMAIN csets[s]
    BY <2>4, <2>5, LenProperties
  <2>7. csets[s][i] = Masks(q)
    BY <2>1, <2>2, <2>6 DEF ProtocolInv, SetsOK
  <2>8. DOMAIN Masks(q) = 1 .. Size(q)
    BY <1>1, <2>1, <2>3, MasksAre, NumbersAre DEF ClientOK
  <2>9. FoundOK(found[s], csets[s], NClients(s))
    BY <2>4, <2>5, IntersectionIs
  <2>10. \A t \in found[s] : t[i] \in 1 .. Size(q)
    BY <2>5, <2>7, <2>8, <2>9 DEF FoundOK
  <2>11. {t[i] : t \in found[s]} \subseteq 1 .. Size(q)
    BY <2>10
  <2>12. 1 .. Size(q) \subseteq 1 .. Max(sizes)
    <3>1. Size(q) \in Nat /\ Max(sizes) \in Nat /\ Size(q) <= Max(sizes)
      BY <1>2, <2>1 DEF Size
    <3> HIDE DEF sizes
    <3> QED
      BY <3>1
  <2>13. Cardinality(found[s]) \in Nat
    BY <2>9, FS_CardinalityType DEF FoundOK
  <2>14. AnswerTo(i) \in Answers
    <3> HIDE DEF sizes
    <3> QED
      BY <2>11, <2>12, <2>13 DEF AnswerTo
  <2> HIDE DEF Answers
  <2> QED
    BY <2>2, <2>14
<1>5. ASSUME NEW e \in End
      PROVE  inbox[e] \in Seq(Message)
  <2>1. PICK c \in Conn : e = <<c, "client">> \/ e = <<c, "server">>
    BY DEF End
  <2>2. Answers \subseteq Message /\ Words \subseteq Message
    BY DEF Words
  <2> HIDE DEF Answers, Message
  <2>3. CASE e = <<c, "client">>
    <3>1. CASE inbox[e] = <<>>
      BY <3>1
    <3>2. CASE inbox[e] # <<>>
      <4>1. inbox[e] \in Seq(Answers)
        BY <1>4, <2>3, <3>2
      <4> QED
        BY <2>2, <4>1, SeqOver
    <3> QED
      BY <3>1, <3>2
  <2>4. CASE e = <<c, "server">>
    <3>1. inbox[e] \in Seq(Words)
      BY <1>1, <2>4 DEF WordsOK
    <3> QED
      BY <2>2, <3>1, SeqOver
  <2> QED
    BY <2>1, <2>3, <2>4
<1>6. NetTypeOK(Message)
  <2> HIDE DEF Message
  <2> QED
    BY <1>1, <1>5 DEF NetTypeOK, NInv, SocketsOK, NetOK, Ends
<1>7. /\ setup \in Setups /\ pc \in [Process -> PC] /\ sent \subseteq Process /\ told \subseteq Process
      /\ \A p \in Process : parse[p].set \subseteq {o.name : o \in Options(p)}
  BY <1>1 DEF NInv, ParseOK, ArgsOK, NetOK
<1> HIDE DEF Message
<1>8. NetTypeOK({"sizes"} \X Nat \cup {"set"} \X Seq(Range(Mask)) \cup
               {"answer"} \X Nat \X SUBSET (1 .. Max({Len(elements[p]) : p \in Process})))
  BY <1>6 DEF Message
<1> QED
  BY <1>3, <1>7, <1>8 DEF TypeOK

-----------------------------------------------------------------------------
(* What every step leaves alone. *)

(* A process goes on or ends. *)
Goes(p) == \E l \in PC \ Ended : Goto(p, l) /\ exited' = exited

Leaves(p) == \E l \in Ended : Goto(p, l) /\ exited' = exited \cup {p}

(* The places are distinct names. *)
LEMMA PlacesAre ==
  /\ \A l \in {"parse", "listen", "accept", "connect", "elements", "sizes", "sets", "compute",
               "answer", "start", "masks", "receive"} : l \in PC /\ l \notin Ended
  /\ \A l \in {"done", "usage", "exit", "aborted", "other"} : l \in Ended /\ l \in PC
BY DEF PC, Ended

(* A step that makes a connection ends nobody. *)
LEMMA ConnectingGoes ==
  ASSUME NEW p \in Process, Connecting(p)
  PROVE  Goes(p)
<1>1. \E l \in {"accept", "elements", "connect"} : Goto(p, l) /\ exited' = exited
  BY DEF Connecting, Listen, Accept, Connect, Bind, BindFails, AcceptNext, ConnectSucceeds, ConnectFails
<1> QED
  BY <1>1, PlacesAre DEF Goes

(* A step moves its process to a place, and ends it there or not. *)
LEMMA StepGoes ==
  ASSUME NInv, NEW p \in Process, Step(p)
  PROVE  Goes(p) \/ Leaves(p)
<1>0. pc \in [Process -> PC]
  BY DEF NInv, ParseOK
<1>1. \A l \in PC \ Ended : GoesOn(p, l) => Goes(p)
  BY DEF GoesOn, Goes, netVars
<1>2. \A l \in Ended : Exit(p, l) => Leaves(p)
  BY DEF Exit, Leaves
<1>3. Dies(p) => Leaves(p)
  BY <1>2, PlacesAre DEF Dies
<1>4. \A e : \A l \in PC \ Ended : Goto(p, l) /\ Took(e) => Goes(p)
  BY DEF Goes, Took
<1>5. \A m : \A l \in PC \ Ended : SendOrDie(p, m, l) => Goes(p) \/ Leaves(p)
  BY <1>3 DEF Goes, SendOrDie
<1>6. CASE ReadOption(p)
  <2>1. GoesOn(p, "parse") \/ Dies(p)
    BY <1>6 DEF ReadOption
  <2> QED
    BY <1>1, <1>3, <2>1, PlacesAre
<1>7. CASE ExitWithUsage(p)
  BY <1>2, <1>7, PlacesAre DEF ExitWithUsage
<1>8. CASE AcceptOptions(p)
  <2>1. GoesOn(p, "listen") \/ GoesOn(p, "connect") \/ Dies(p) \/ Exit(p, "other")
    BY <1>8 DEF AcceptOptions
  <2> QED
    BY <1>1, <1>2, <1>3, <2>1, PlacesAre
<1>9. CASE Listen(p) \/ Accept(p) \/ Connect(p)
  BY <1>9, ConnectingGoes DEF Connecting
<1>10. CASE Elements(p)
  <2>1. \/ GoesOn(p, "start") \/ GoesOn(p, "compute") \/ GoesOn(p, "sizes")
        \/ Dies(p) \/ Exit(p, "exit")
    BY <1>10 DEF Elements, DrawElements, ReadElements, Begin
  <2> QED
    BY <1>1, <1>2, <1>3, <2>1, PlacesAre
<1>11. CASE ReceiveSizes(p)
  <2>1. \/ \E l \in {"sizes", "sets"} : GoesOn(p, l) \/ \E e : Goto(p, l) /\ Took(e)
        \/ Dies(p)
    BY <1>11 DEF ReceiveSizes
  <2> QED
    BY <1>1, <1>3, <1>4, <2>1, PlacesAre
<1>12. CASE ReceiveSet(p)
  <2>1. \E l \in {"compute", "sets"} : GoesOn(p, l) \/ \E e : Goto(p, l) /\ Took(e)
    BY <1>12 DEF ReceiveSet
  <2> QED
    BY <1>1, <1>4, <2>1, PlacesAre
<1>13. CASE Compute(p)
  <2>1. GoesOn(p, "answer") \/ Dies(p)
    BY <1>13 DEF Compute
  <2> QED
    BY <1>1, <1>3, <2>1, PlacesAre
<1>14. CASE AnswerNext(p)
  <2>1. pc[p] = "answer" /\ (Dies(p) \/ UNCHANGED <<pc, exited>>)
    BY <1>14 DEF AnswerNext
  <2>2. UNCHANGED <<pc, exited>> => Goto(p, "answer") /\ exited' = exited
    BY <1>0, <2>1 DEF Goto
  <2> QED
    BY <1>3, <2>1, <2>2, PlacesAre DEF Goes
<1>15. CASE ServerDone(p)
  BY <1>2, <1>15, PlacesAre DEF ServerDone
<1>16. CASE Start(p)
  <2>1. \E m : SendOrDie(p, m, "masks")
    BY <1>16 DEF Start
  <2> QED
    BY <1>5, <2>1, PlacesAre
<1>17. CASE SendMasks(p)
  <2>1. \E m : SendOrDie(p, m, "receive")
    BY <1>17 DEF SendMasks
  <2> QED
    BY <1>5, <2>1, PlacesAre
<1>18. CASE ReceiveAnswer(p)
  <2>1. Dies(p) \/ Exit(p, "done") \/ (Goto(p, "done") /\ exited' = exited \cup {p})
    BY <1>18 DEF ReceiveAnswer
  <2> QED
    BY <1>2, <1>3, <2>1, PlacesAre DEF Leaves
<1> QED
  BY <1>6, <1>7, <1>8, <1>9, <1>10, <1>11, <1>12, <1>13, <1>14, <1>15, <1>16, <1>17, <1>18 DEF Step

(* Those that have ended are those that are in a place where they end. *)
LEMMA EndsKept ==
  ASSUME NInv, Ends, NEW p \in Process, Step(p)
  PROVE  /\ Ends' /\ exited \subseteq exited' /\ p \notin exited
         /\ \A q \in Process \ {p} : q \in exited' <=> q \in exited
         /\ p \in exited' <=> pc'[p] \in Ended
         /\ NoProcess \notin exited /\ NoProcess \notin exited'
<1>1. pc \in [Process -> PC] /\ pc[p] \notin Ended
  BY NotEnded DEF NInv, ParseOK
<1>2. Goes(p) \/ Leaves(p)
  BY StepGoes
<1>3. exited = {q \in Process : pc[q] \in Ended}
  BY DEF Ends
<1>4. exited' = {q \in Process : pc'[q] \in Ended}
  <2>1. CASE Goes(p)
    <3>1. exited' = exited /\ \E l \in PC \ Ended : pc' = [pc EXCEPT ![p] = l]
      BY <2>1 DEF Goes, Goto
    <3> QED
      BY <1>1, <1>3, <3>1
  <2>2. CASE Leaves(p)
    <3>1. exited' = exited \cup {p} /\ \E l \in Ended : pc' = [pc EXCEPT ![p] = l]
      BY <2>2 DEF Leaves, Goto
    <3> QED
      BY <1>1, <1>3, <3>1
  <2> QED
    BY <1>2, <2>1, <2>2
<1>5. \A q \in Process \ {p} : pc'[q] = pc[q]
  BY <1>1, <1>2 DEF Goes, Leaves, Goto
<1> QED
  BY <1>1, <1>3, <1>4, <1>5, ConnectionOK DEF Ends, Ended

(* A step of p leaves the others as they are. *)
OwnData(p) ==
  /\ \A q \in Process \ {p} :
       /\ elements'[q] = elements[q] /\ perm'[q] = perm[q] /\ result'[q] = result[q]
       /\ neles'[q] = neles[q] /\ csets'[q] = csets[q]
       /\ found'[q] = found[q] /\ answered'[q] = answered[q]
       /\ q \in sent' <=> q \in sent
  /\ Domains'

Alone(p) ==
  /\ setup' = setup
  /\ \A q \in Process \ {p} :
       pc'[q] = pc[q] /\ parse'[q] = parse[q] /\ sockets'[q] = sockets[q]
  /\ listener' = listener \/ (listener = NoProcess /\ listener' = p)

(* Before the protocol begins no data of it changes. *)
LEMMA EarlyIsOwn ==
  ASSUME Domains, NEW p \in Process,
         ReadOption(p) \/ ExitWithUsage(p) \/ AcceptOptions(p) \/ Listen(p) \/ Accept(p) \/ Connect(p)
  PROVE  /\ OwnData(p)
         /\ UNCHANGED <<setup, elements, neles, csets, found, answered, perm, result, sent, told, inbox>>
<1>1. UNCHANGED <<setup, elements, neles, csets, found, answered, perm, result, sent, told>>
  BY DEF ReadOption, ExitWithUsage, AcceptOptions, Listen, Accept, Connect, serverVars, clientVars
<1>2. inbox' = inbox
  BY DEF ReadOption, ExitWithUsage, AcceptOptions, Listen, Accept, Connect, Bind, BindFails,
         AcceptNext, ConnectSucceeds, ConnectFails, Dies, Exit, GoesOn, netVars
<1> QED
  BY <1>1, <1>2 DEF OwnData, Domains

(* A step of the protocol changes the data of its own process only. *)
LEMMA LateIsOwn ==
  ASSUME Domains, NEW p \in Process,
         \/ Elements(p) \/ ReceiveSizes(p) \/ ReceiveSet(p) \/ Compute(p) \/ AnswerNext(p)
         \/ ServerDone(p) \/ Start(p) \/ SendMasks(p) \/ ReceiveAnswer(p)
  PROVE  OwnData(p)
<1>1. CASE Elements(p)
  <2>1. UNCHANGED <<neles, csets, found, answered, perm, result, sent>>
    BY <1>1 DEF Elements, serverVars, clientVars
  <2>2. elements' = elements \/ \E x : elements' = [elements EXCEPT ![p] = x]
    BY <1>1 DEF Elements, DrawElements, ReadElements
  <2> QED
    BY <2>1, <2>2 DEF OwnData, Domains
<1>2. CASE ReceiveSizes(p)
  <2>1. UNCHANGED <<elements, csets, found, answered, perm, result, sent>>
    BY <1>2 DEF ReceiveSizes, clientVars
  <2>2. neles' = neles \/ \E x : neles' = [neles EXCEPT ![p] = x]
    BY <1>2 DEF ReceiveSizes
  <2> QED
    BY <2>1, <2>2 DEF OwnData, Domains
<1>3. CASE ReceiveSet(p)
  <2>1. UNCHANGED <<elements, neles, found, answered, perm, result, sent>>
    BY <1>3 DEF ReceiveSet, clientVars
  <2>2. \E x : csets' = [csets EXCEPT ![p] = x]
    BY <1>3 DEF ReceiveSet
  <2> QED
    BY <2>1, <2>2 DEF OwnData, Domains
<1>4. CASE Compute(p)
  <2>1. UNCHANGED <<elements, neles, csets, answered, perm, result, sent>>
    BY <1>4 DEF Compute, clientVars
  <2>2. found' = found \/ \E x : found' = [found EXCEPT ![p] = x]
    BY <1>4 DEF Compute
  <2> QED
    BY <2>1, <2>2 DEF OwnData, Domains
<1>5. CASE AnswerNext(p)
  <2>1. UNCHANGED <<elements, neles, csets, found, perm, result, sent>>
    BY <1>5 DEF AnswerNext, clientVars
  <2>2. answered' = answered \/ \E x : answered' = [answered EXCEPT ![p] = x]
    BY <1>5 DEF AnswerNext
  <2> QED
    BY <2>1, <2>2 DEF OwnData, Domains
<1>6. CASE ServerDone(p)
  <2>1. UNCHANGED <<elements, neles, csets, found, answered, perm, result, sent>>
    BY <1>6 DEF ServerDone, serverVars, clientVars
  <2> QED
    BY <2>1 DEF OwnData, Domains
<1>7. CASE Start(p)
  <2>1. UNCHANGED <<elements, neles, csets, found, answered, result, sent>>
    BY <1>7 DEF Start, serverVars
  <2>2. \E x : perm' = [perm EXCEPT ![p] = x]
    BY <1>7 DEF Start
  <2> QED
    BY <2>1, <2>2 DEF OwnData, Domains
<1>8. CASE SendMasks(p)
  <2>1. UNCHANGED <<elements, neles, csets, found, answered, perm, result>>
    BY <1>8 DEF SendMasks, serverVars
  <2>2. sent' = sent \/ sent' = sent \cup {p}
    BY <1>8 DEF SendMasks
  <2> QED
    BY <2>1, <2>2 DEF OwnData, Domains
<1>9. CASE ReceiveAnswer(p)
  <2>1. UNCHANGED <<elements, neles, csets, found, answered, perm, sent>>
    BY <1>9 DEF ReceiveAnswer, serverVars
  <2>2. result' = result \/ \E x : result' = [result EXCEPT ![p] = x]
    BY <1>9 DEF ReceiveAnswer
  <2> QED
    BY <2>1, <2>2 DEF OwnData, Domains
<1> QED
  BY <1>1, <1>2, <1>3, <1>4, <1>5, <1>6, <1>7, <1>8, <1>9

(* A step changes the state of its own process only, and perhaps who listens. *)
LEMMA StepIsOwn ==
  ASSUME NInv, Domains, NEW p \in Process, Step(p)
  PROVE  OwnData(p) /\ Alone(p)
<1>1. OwnData(p)
  BY EarlyIsOwn, LateIsOwn DEF Step
<1>2. ParseOK /\ SocketsOK /\ pc \in [Process -> PC] /\ DOMAIN sockets = Process
  BY DEF NInv, ParseOK, SocketsOK
<1>7. Connecting(p) \/ \E l \in PC : Moves(p, l)
  BY StepKeepsN
<1>8. \A l : pc' = [pc EXCEPT ![p] = l] => \A q \in Process \ {p} : pc'[q] = pc[q]
  BY <1>2
<1>9. \A x : sockets' = [sockets EXCEPT ![p] = x] => \A q \in Process \ {p} : sockets'[q] = sockets[q]
  BY <1>2
<1>3. CASE \E l \in PC : Moves(p, l)
  BY <1>1, <1>3, <1>8 DEF Moves, Alone
<1>4. CASE Listen(p)
  <2>1. UNCHANGED <<setup, parse>> /\ \E l : pc' = [pc EXCEPT ![p] = l]
    BY <1>4 DEF Listen, Goto
  <2>2. \/ listener = NoProcess /\ listener' = p /\ sockets' = sockets
        \/ listener' = listener /\ \E x : sockets' = [sockets EXCEPT ![p] = x]
    BY <1>4 DEF Listen, Bind, BindFails
  <2> QED
    BY <1>1, <1>8, <1>9, <2>1, <2>2 DEF Alone
<1>5. CASE Accept(p)
  <2>1. UNCHANGED <<setup, parse>> /\ \E l : pc' = [pc EXCEPT ![p] = l]
    BY <1>5 DEF Accept, Goto
  <2>2. listener' = listener /\ \E x : sockets' = [sockets EXCEPT ![p] = x]
    BY <1>5 DEF Accept, AcceptNext
  <2> QED
    BY <1>1, <1>8, <1>9, <2>1, <2>2 DEF Alone
<1>6. CASE Connect(p)
  <2>1. UNCHANGED <<setup, parse>> /\ \E l : pc' = [pc EXCEPT ![p] = l]
    BY <1>6 DEF Connect, Goto
  <2>2. /\ listener' = listener
        /\ sockets' = sockets \/ \E x : sockets' = [sockets EXCEPT ![p] = x]
    BY <1>6 DEF Connect, ConnectSucceeds, ConnectFails
  <2> QED
    BY <1>1, <1>8, <1>9, <2>1, <2>2 DEF Alone
<1> QED
  BY <1>1, <1>3, <1>4, <1>5, <1>6, <1>7 DEF Connecting

(* The intersection of the same sets is the same. *)
LEMMA MeetStays ==
  ASSUME NEW q, csets'[q] = csets[q]
  PROVE  Intersection(csets[q])' = Intersection(csets[q])
BY DEF Intersection

(* What the others know stays right. *)
LEMMA OthersStayOK ==
  ASSUME ProtocolInv, NEW p \in Process, Alone(p), OwnData(p), NEW q \in Process \ {p}
  PROVE  ProcessOK(q)'
<1>1. ProcessOK(q) /\ setup' = setup /\ pc'[q] = pc[q] /\ parse'[q] = parse[q] /\ sockets'[q] = sockets[q]
  BY DEF ProtocolInv, Alone
<1>2. /\ elements'[q] = elements[q] /\ perm'[q] = perm[q]
      /\ neles'[q] = neles[q] /\ csets'[q] = csets[q]
      /\ found'[q] = found[q] /\ answered'[q] = answered[q]
      /\ q \in sent' <=> q \in sent
  BY DEF OwnData
<1>3. q = listener' <=> q = listener
  BY ConnectionOK DEF Alone
<1>4. /\ Slots(q)' = Slots(q) /\ Sockets(q)' = Sockets(q) /\ NClients(q)' = NClients(q)
      /\ IsServer(q)' = IsServer(q) /\ Size(q)' = Size(q)
  BY <1>1, <1>2 DEF Slots, Sockets, NClients, IsServer, IsBench, val, Size
<1>5. RoleOK(q)' /\ FullOK(q)'
  BY <1>1, <1>2, <1>3, <1>4 DEF ProcessOK, RoleOK, FullOK
<1>6. ClientOK(q)'
  BY <1>1, <1>2, <1>4 DEF ProcessOK, ClientOK, Bijections
<1>7. Intersection(csets[q])' = Intersection(csets[q])
  BY <1>2, MeetStays
<1>8. ServerOK(q)'
  BY <1>1, <1>2, <1>4, <1>7 DEF ProcessOK, ServerOK, Computed, AnyMask
<1> QED
  BY <1>5, <1>6, <1>8 DEF ProcessOK

-----------------------------------------------------------------------------
(* The places of the connections. *)

(* The parts of the invariant. *)
LEMMA InvParts ==
  ASSUME ProtocolInv
  PROVE  /\ NInv /\ ParseOK /\ SocketsOK /\ SlotsInOrder /\ Domains /\ NetOK /\ Ends
         /\ \A p \in Process : RoleOK(p) /\ FullOK(p) /\ ClientOK(p) /\ ServerOK(p) /\ SocketOK(p)
         /\ SetsOK /\ AnswersOK /\ WordsOK /\ WaitOK /\ ToldOK
         /\ pc \in [Process -> PC] /\ NoProcess \notin Process
BY SocketsAreOK, ConnectionOK DEF ProtocolInv, ProcessOK, NInv, ParseOK

(* Who has a connection has one with the listener. *)
LEMMA Heard ==
  ASSUME NInv, SlotsInOrder, NEW q \in Process, q # listener, 1 \in DOMAIN sockets[q],
         sockets[q][1] # NoSocket
  PROVE  /\ listener \in Process /\ <<q, 0>> \in Conn
         /\ sockets[q][1] = <<<<q, 0>>, "client">>
<1> DEFINE c == <<q, 0>>
<1>1. SocketsOK /\ SocketOK(q)
  BY SocketsAreOK DEF NInv
<1>2. sockets[q][1] = <<c, "client">>
  BY <1>1 DEF SocketOK
<1>3. c \in Conn /\ c[1] = q
  BY ConnectionOK DEF Conn
<1> HIDE DEF c
<1>4. c \in Opened
  BY <1>2, <1>3 DEF Opened, Range
<1>5. Range(Arrivals) = Opened
  BY DEF SlotsInOrder, Opened
<1>6. listener # NoProcess
  <2> SUFFICES ASSUME listener = NoProcess PROVE FALSE
    OBVIOUS
  <2>1. Arrivals = <<>>
    BY <1>1 DEF Arrivals, SocketsOK
  <2>2. DOMAIN Arrivals = {}
    BY <2>1
  <2> QED
    BY <1>4, <1>5, <2>2 DEF Range
<1> QED
  BY <1>1, <1>2, <1>3, <1>6 DEF SocketsOK, c

(* A connection is in one place of the server's sockets. *)
LEMMA JoinedOnce ==
  ASSUME NInv, SlotsInOrder, listener \in Process, NEW c, NEW i, NEW j, Joined(c, i), Joined(c, j)
  PROVE  i = j /\ c \in Conn
<1> DEFINE s == sockets[listener]
           h == Heads(s)
           a == Arrivals
<1>1. /\ s \in Seq(End \cup {NoSocket}) /\ \A k \in DOMAIN s : s[k] \in Conn \X {"server"}
  BY SocketsAreOK DEF NInv, SocketOK
<1>2. h \in Seq(Conn) /\ Len(h) = Len(s) /\ \A k \in 1 .. Len(s) : h[k] = s[k][1]
  BY <1>1, HeadsAre
<1>3. DOMAIN s = 1 .. Len(s) /\ Len(s) \in Nat
  BY <1>1, LenProperties
<1>4. i \in 1 .. Len(s) /\ j \in 1 .. Len(s) /\ s[i] = <<c, "server">> /\ s[j] = <<c, "server">>
  BY <1>3 DEF Joined
<1>5. a = h \o backlog /\ backlog \in Seq(Conn)
  BY ArrivalsAre, ConnectionOK DEF NInv
<1> HIDE DEF s, h, a
<1>6. a[i] = c /\ a[j] = c
  <2>1. h[i] = c /\ h[j] = c
    BY <1>2, <1>4
  <2>2. \A k \in 1 .. Len(h) : (h \o backlog)[k] = h[k]
    BY <1>2, <1>5, ConcatProperties
  <2> QED
    BY <1>2, <1>4, <1>5, <2>1, <2>2
<1>7. i \in DOMAIN a /\ j \in DOMAIN a
  <2>1. /\ DOMAIN (h \o backlog) = 1 .. Len(h) + Len(backlog) /\ Len(backlog) \in Nat
    <3>1. /\ h \o backlog \in Seq(Conn) /\ Len(h \o backlog) = Len(h) + Len(backlog)
      BY <1>2, <1>5, ConcatProperties
    <3>2. Len(backlog) \in Nat
      BY <1>5, LenProperties
    <3>3. DOMAIN (h \o backlog) = 1 .. Len(h \o backlog)
      BY <3>1, LenProperties
    <3> QED
      BY <3>1, <3>2, <3>3
  <2>2. Len(h) = Len(s)
    BY <1>2
  <2>3. \A m, n \in Nat : \A k \in 1 .. m : k \in 1 .. m + n
    OBVIOUS
  <2> QED
    BY <1>3, <1>4, <1>5, <2>1, <2>2, <2>3
<1>8. \A k, l \in DOMAIN a : k < l => a[k] # a[l]
  BY DEF SlotsInOrder, a
<1>9. ~ (i < j) /\ ~ (j < i)
  BY <1>6, <1>7, <1>8
<1>10. c \in Conn
  BY <1>1, <1>3, <1>4
<1> QED
  BY <1>3, <1>4, <1>9, <1>10

(* The connection that a server serves at place i. *)
LEMMA SlotIs ==
  ASSUME ProtocolInv, NEW p \in Process, pc[p] \in Serving, NEW i \in 1 .. NClients(p)
  PROVE  LET e == sockets[p][i] IN
         \/ p # listener /\ e = NoSocket
         \/ \E c \in Conn : /\ p = listener /\ e = <<c, "server">> /\ e # NoSocket /\ Joined(c, i)
                            /\ PeerOf(e) = c[1] /\ Peer(e) = <<c, "client">>
                            /\ c[1] \in Process /\ p \notin exited
<1>1. NInv /\ RoleOK(p) /\ FullOK(p) /\ Ends /\ SocketOK(p)
  BY InvParts
<1>2. IsServer(p) /\ Len(sockets[p]) = Slots(p) /\ pc[p] # "accept" /\ pc[p] \notin Ended
  BY <1>1 DEF RoleOK, FullOK, Serving, Ended
<1>3. CASE p = listener
  <2> DEFINE c == sockets[p][i][1]
  <2>1. c \in Conn /\ sockets[p][i] = <<c, "server">> /\ Joined(c, i) /\ c[1] \in Process
    BY <1>1, <1>2, <1>3, PlaceIs
  <2>2. PeerOf(<<c, "server">>) = c[1] /\ Peer(<<c, "server">>) = <<c, "client">>
    BY DEF PeerOf, Peer
  <2>3. <<c, "server">> # NoSocket
    BY <2>1, ConnectionOK DEF Conn
  <2>4. p \notin exited
    BY <1>1, <1>2 DEF Ends
  <2> HIDE DEF c
  <2> QED
    BY <1>3, <2>1, <2>2, <2>3, <2>4
<1>4. CASE p # listener
  <2>1. i \in DOMAIN sockets[p]
    <3>1. NClients(p) \in Nat /\ Slots(p) \in Nat /\ NClients(p) <= Slots(p)
      BY <1>1, NumbersAre
    <3>2. DOMAIN sockets[p] = 1 .. Slots(p)
      BY <1>1, <1>2, LenProperties DEF SocketOK
    <3> QED
      BY <3>1, <3>2
  <2> QED
    BY <1>1, <1>2, <1>4, <2>1 DEF FullOK
<1> QED
  BY <1>3, <1>4

(* The connection over which a client asks. *)
LEMMA AskingIs ==
  ASSUME ProtocolInv, NEW p \in Process, pc[p] \in Asking
  PROVE  LET e == sockets[p][1] IN
         /\ p # listener /\ ~ IsServer(p) /\ 1 \in DOMAIN sockets[p] /\ <<p, 0>> \in Conn
         /\ \/ e = NoSocket /\ ~ \E i : listener \in Process /\ Joined(<<p, 0>>, i)
            \/ /\ e = <<<<p, 0>>, "client">> /\ e # NoSocket /\ listener \in Process
               /\ PeerOf(e) = listener /\ Peer(e) = <<<<p, 0>>, "server">>
<1> DEFINE c == <<p, 0>>
           e == sockets[p][1]
<1>1. NInv /\ RoleOK(p) /\ FullOK(p) /\ SocketOK(p) /\ SlotsInOrder
  BY InvParts
<1>2. p # listener /\ ~ IsServer(p) /\ Len(sockets[p]) = Sockets(p)
  BY <1>1 DEF RoleOK, FullOK, Asking
<1>3. 1 \in DOMAIN sockets[p] /\ DOMAIN sockets[p] = 1 .. Len(sockets[p]) /\ Len(sockets[p]) \in Nat
  <2>1. DOMAIN sockets[p] = 1 .. Sockets(p) /\ Sockets(p) \in Nat \ {0}
    BY <1>1, <1>2, NumbersAre, LenProperties DEF SocketOK
  <2> QED
    BY <1>2, <2>1
<1>4. c \in Conn /\ c[1] = p
  BY ConnectionOK DEF Conn
<1>5. CASE e # NoSocket
  <2>1. e = <<c, "client">> /\ listener \in Process
    BY <1>1, <1>2, <1>3, <1>5, Heard
  <2>2. PeerOf(<<c, "client">>) = listener /\ Peer(<<c, "client">>) = <<c, "server">>
    BY DEF PeerOf, Peer
  <2> QED
    BY <1>2, <1>3, <1>4, <1>5, <2>1, <2>2
<1>6. CASE e = NoSocket
  <2>1. ASSUME NEW i, listener \in Process, Joined(c, i) PROVE FALSE
    <3> DEFINE s == sockets[listener]
               h == Heads(s)
    <3>1. /\ s \in Seq(End \cup {NoSocket}) /\ \A k \in DOMAIN s : s[k] \in Conn \X {"server"}
      BY <2>1, SocketsAreOK, <1>1 DEF NInv, SocketOK
    <3>2. h \in Seq(Conn) /\ Len(h) = Len(s) /\ \A k \in 1 .. Len(s) : h[k] = s[k][1]
      BY <3>1, HeadsAre
    <3>3. i \in 1 .. Len(h) /\ Len(h) \in Nat /\ h[i] = c
      BY <2>1, <3>1, <3>2, LenProperties DEF Joined
    <3>4. Arrivals = h \o backlog /\ backlog \in Seq(Conn)
      BY <1>1, <2>1, ArrivalsAre, ConnectionOK DEF NInv
    <3> HIDE DEF s, h, c
    <3>5. Arrivals[i] = c /\ i \in DOMAIN Arrivals
      <4>1. /\ \A k \in 1 .. Len(h) : (h \o backlog)[k] = h[k]
            /\ DOMAIN (h \o backlog) = 1 .. Len(h) + Len(backlog) /\ Len(backlog) \in Nat
        BY <3>2, <3>4, ConcatProperties, LenProperties
      <4> QED
        BY <3>3, <3>4, <4>1
    <3>6. c \in Opened
      BY <1>1, <3>5 DEF SlotsInOrder, Opened, Range
    <3>7. PICK k \in DOMAIN sockets[p] : sockets[p][k] = <<c, "client">>
      BY <1>4, <3>6 DEF Opened, Range
    <3>8. sockets[p][k] = <<<<p, k - 1>>, "client">>
      BY <1>1, <1>2, <1>4, <3>7, EndsDiffer DEF SocketOK
    <3>9. k - 1 = 0
      <4>1. \A x, y : <<<<p, x>>, "client">> = <<<<p, y>>, "client">> => x = y
        OBVIOUS
      <4> QED
        BY Zenon, <3>7, <3>8, <4>1 DEF c
    <3>10. k = 1
      BY <1>3, <3>9
    <3> QED
      BY <1>4, <1>6, <3>7, <3>10, EndsDiffer
  <2> QED
    BY <1>2, <1>3, <1>4, <1>6, <2>1
<1> QED
  BY <1>5, <1>6

-----------------------------------------------------------------------------
(* What a step keeps of what was sent and where it goes. *)

(* What q sends, and what it makes of an answer. *)
SameSender(q) ==
  /\ q \in sent' /\ Size(q)' = Size(q) /\ Masks(q)' = Masks(q)
  /\ \A n, b : Selected(q, n, b)' = Selected(q, n, b)

(* The masks and their number follow from the elements, the permutation and the options. *)
LEMMA SenderIs ==
  ASSUME NEW q, setup' = setup, parse'[q] = parse[q], elements'[q] = elements[q], perm'[q] = perm[q]
  PROVE  /\ Size(q)' = Size(q) /\ Masks(q)' = Masks(q)
         /\ \A n, b : Selected(q, n, b)' = Selected(q, n, b)
<1>1. /\ Size(q)' = Size(q) /\ NTasks(q)' = NTasks(q) /\ IsBench(q)' = IsBench(q)
  BY DEF Size, NTasks, IsBench, val
<1>2. \A i : InIdx(q, i)' = InIdx(q, i)
  BY <1>1 DEF InIdx
<1>4. Masks(q)' = Masks(q)
  BY <1>2 DEF Masks
<1>5. \A n, b : Selected(q, n, b)' = Selected(q, n, b)
  BY DEF Selected, InvPerm, Sorted
<1> QED
  BY <1>1, <1>4, <1>5

(* Whoever has sent its masks keeps to what it sent. *)
LEMMA SendersStay ==
  ASSUME ProtocolInv, NEW p \in Process, Step(p)
  PROVE  /\ \A q \in sent : q \in Process /\ SameSender(q)
         /\ \A q \in sent' : q \in sent \/ q = p
         /\ p \in sent => ReceiveAnswer(p)
<1>1. Alone(p) /\ OwnData(p) /\ sent \subseteq Process /\ sent' \subseteq Process /\ ClientOK(p) /\ pc[p] \notin Ended
  <2>1. NInv /\ Domains /\ NetOK /\ ClientOK(p)
    BY InvParts
  <2>2. sent' \subseteq Process
    <3>1. sent' = sent \/ sent' = sent \cup {p}
      BY DEF Step, ReadOption, ExitWithUsage, AcceptOptions, Listen, Accept, Connect, Elements,
             ReceiveSizes, ReceiveSet, Compute, AnswerNext, ServerDone, Start, SendMasks, ReceiveAnswer,
             serverVars, clientVars
    <3> QED
      BY <2>1, <3>1 DEF NetOK
  <2> QED
    BY <2>1, <2>2, StepIsOwn, NotEnded DEF NetOK
<1>2. ASSUME NEW q \in sent, q # p PROVE SameSender(q)
  BY <1>1, <1>2, SenderIs DEF Alone, OwnData, SameSender
<1>3. ASSUME p \in sent PROVE ReceiveAnswer(p)
  <2>1. pc[p] = "receive"
    BY <1>1, <1>3 DEF ClientOK
  <2> QED
    BY <2>1 DEF Step, ReadOption, ExitWithUsage, AcceptOptions, Listen, Accept, Connect, Elements,
           ReceiveSizes, ReceiveSet, Compute, AnswerNext, ServerDone, Start, SendMasks
<1>4. ASSUME p \in sent PROVE SameSender(p)
  <2>1. UNCHANGED <<setup, parse, elements, perm, sent>>
    BY <1>3, <1>4 DEF ReceiveAnswer
  <2> QED
    BY <1>4, <2>1, SenderIs DEF SameSender
<1> QED
  BY <1>1, <1>2, <1>3, <1>4 DEF OwnData

(* The places of the connections stay, or the server has not begun. *)
LEMMA JoinedStays ==
  ASSUME ProtocolInv, NEW p \in Process, Step(p)
  PROVE  /\ listener \in Process => listener' = listener
         /\ \/ listener' = listener /\ \A c, i : Joined(c, i)' <=> Joined(c, i)
            \/ /\ listener' = p /\ neles[p] = <<>> /\ csets[p] = <<>> /\ answered[p] = 0
               /\ UNCHANGED <<neles, csets, answered>>
            \/ listener' = NoProcess /\ listener = NoProcess
<1>1. NInv /\ SocketsOK /\ ServerOK(p) /\ ParseOK /\ NoProcess \notin Process /\ Domains
  BY InvParts
<1>2. Alone(p) /\ listener \in Process \cup {NoProcess}
  BY <1>1, StepIsOwn DEF SocketsOK
<1>3. CASE \E l \in PC : Moves(p, l)
  BY <1>1, <1>2, <1>3 DEF Moves, Joined
<1>4. CASE Listen(p) \/ Accept(p)
  <2>1. /\ neles[p] = <<>> /\ csets[p] = <<>> /\ answered[p] = 0
    BY <1>1, <1>4 DEF Listen, Accept, ServerOK, Serving, Ended
  <2>2. UNCHANGED <<neles, csets, answered>>
    BY <1>1, <1>4, EarlyIsOwn
  <2>3. listener \in Process => listener' = listener
    BY <1>1, <1>2 DEF Alone
  <2>4. CASE listener' = p
    BY <2>1, <2>2, <2>3, <2>4
  <2>5. CASE listener' # p
    <3>1. listener' = listener
      BY <1>2, <2>5 DEF Alone
    <3>2. listener \in Process => sockets'[listener] = sockets[listener]
      BY <1>2, <2>5, <3>1 DEF Alone
    <3> QED
      BY <1>2, <3>1, <3>2 DEF Joined
  <2> QED
    BY <2>4, <2>5
<1>5. CASE Connect(p)
  <2>1. p # listener /\ listener' = listener
    BY <1>1, <1>5, ConnectFacts
  <2>2. listener \in Process => sockets'[listener] = sockets[listener]
    BY <1>2, <2>1 DEF Alone
  <2> QED
    BY <1>2, <2>1, <2>2 DEF Joined
<1> QED
  BY <1>1, <1>3, <1>4, <1>5, StepKeepsN DEF Connecting

(* The sets that the server has stay those that were sent. *)
LEMMA SetsStay ==
  ASSUME ProtocolInv, NEW p \in Process, Step(p), csets' = csets
  PROVE  SetsOK'
<1> SUFFICES ASSUME listener' \in Process, NEW i \in DOMAIN csets[listener'], NEW c \in Conn,
                    Joined(c, i)'
             PROVE  IF c[1] \in sent' THEN c[2] = 0 /\ csets[listener'][i] = Masks(c[1])'
                    ELSE c[1] \in exited'
  BY DEF SetsOK, Conn
<1>1. listener' = listener /\ Joined(c, i) /\ listener \in Process
  <2>1. listener' # NoProcess
    BY ConnectionOK
  <2> QED
    BY <2>1, JoinedStays
<1>2. IF c[1] \in sent THEN c[2] = 0 /\ csets[listener][i] = Masks(c[1]) ELSE c[1] \in exited
  BY <1>1, InvParts DEF SetsOK
<1>3. exited \subseteq exited' /\ p \notin exited
  BY EndsKept, InvParts
<1>4. CASE c[1] \in sent
  BY <1>1, <1>2, <1>4, SendersStay DEF SameSender
<1>5. CASE c[1] \notin sent
  <2>1. c[1] \in exited /\ c[1] \notin sent'
    BY <1>2, <1>3, <1>5, SendersStay
  <2> QED
    BY <1>3, <2>1
<1> QED
  BY <1>4, <1>5

(* What is on its way to the clients stays the answers for their places. *)
LEMMA AnswersStay ==
  ASSUME ProtocolInv, NEW p \in Process, Step(p), found' = found, answered' = answered,
         \A c \in Conn : inbox'[<<c, "client">>] = inbox[<<c, "client">>]
  PROVE  AnswersOK'
<1> SUFFICES ASSUME NEW c \in Conn, inbox'[<<c, "client">>] # <<>>
             PROVE  /\ listener' \in Process /\ c[1] \in sent'
                    /\ \E i \in 1 .. answered'[listener'] :
                         Joined(c, i)' /\ inbox'[<<c, "client">>] = <<AnswerTo(i)'>>
  BY DEF AnswersOK, Conn
<1>1. inbox[<<c, "client">>] # <<>> /\ inbox'[<<c, "client">>] = inbox[<<c, "client">>]
  OBVIOUS
<1>2. listener \in Process /\ c[1] \in sent
  BY <1>1, InvParts DEF AnswersOK
<1>3. PICK i \in 1 .. answered[listener] : Joined(c, i) /\ inbox[<<c, "client">>] = <<AnswerTo(i)>>
  BY <1>1, InvParts DEF AnswersOK
<1>4. c[1] \in sent' /\ listener' = listener
  BY <1>2, SendersStay, JoinedStays DEF SameSender
<1>5. AnswerTo(i)' = AnswerTo(i)
  BY <1>4 DEF AnswerTo
<1>6. Joined(c, i)'
  <2>1. answered[listener] # 0
    BY <1>3
  <2>2. listener # NoProcess
    BY <1>2, ConnectionOK
  <2> QED
    BY <1>3, <1>4, <2>1, <2>2, JoinedStays
<1> QED
  BY <1>1, <1>2, <1>3, <1>4, <1>5, <1>6

(* What a client makes of the answer for its place. *)
LEMMA ReportStays ==
  ASSUME NEW q, NEW i, elements'[q] = elements[q], perm'[q] = perm[q],
         listener' = listener, found'[listener] = found[listener]
  PROVE  Selected(q, AnswerTo(i)[2], AnswerTo(i)[3])' = Selected(q, AnswerTo(i)[2], AnswerTo(i)[3])
<1>1. /\ AnswerTo(i)[2] = Cardinality(found[listener])
      /\ AnswerTo(i)[3] = {t[i] : t \in found[listener]}
  BY DEF AnswerTo
<1>2. /\ (AnswerTo(i)[2])' = Cardinality(found[listener])
      /\ (AnswerTo(i)[3])' = {t[i] : t \in found[listener]}
  BY DEF AnswerTo
<1> QED
  BY <1>1, <1>2 DEF Selected, InvPerm, Sorted

(* What the clients were told stays told. *)
LEMMA ToldStays ==
  ASSUME ProtocolInv, NEW p \in Process, Step(p), told' = told,
         listener \in Process => /\ found'[listener] = found[listener] \/ answered[listener] = 0
                                 /\ 1 .. answered[listener] \subseteq 1 .. answered'[listener]
  PROVE  ToldOK'
<1> SUFFICES ASSUME NEW q \in told
             PROVE  /\ listener' \in Process /\ q \in sent' \cap exited'
                    /\ \E i \in 1 .. answered'[listener'] :
                         /\ Joined(<<q, 0>>, i)'
                         /\ result'[q] = Selected(q, AnswerTo(i)[2], AnswerTo(i)[3])'
  BY DEF ToldOK
<1>1. listener \in Process /\ q \in sent /\ q \in exited /\ q \in Process
  BY InvParts DEF ToldOK, NetOK
<1>2. PICK i \in 1 .. answered[listener] :
        Joined(<<q, 0>>, i) /\ result[q] = Selected(q, AnswerTo(i)[2], AnswerTo(i)[3])
  BY InvParts DEF ToldOK
<1>3. listener' = listener /\ SameSender(q)
  BY <1>1, JoinedStays, SendersStay
<1>4. q \in sent' /\ q \in exited' /\ q # p
  BY <1>1, <1>3, InvParts, EndsKept DEF SameSender
<1>5. answered[listener] # 0 /\ listener # NoProcess
  BY <1>1, <1>2, ConnectionOK
<1>6. AnswerTo(i)' = AnswerTo(i)
  BY <1>1, <1>3, <1>5 DEF AnswerTo
<1>7. Joined(<<q, 0>>, i)'
  BY <1>2, <1>3, <1>5, JoinedStays
<1>8. result'[q] = result[q]
  BY <1>1, <1>4, InvParts, StepIsOwn DEF OwnData
<1>9. elements'[q] = elements[q] /\ perm'[q] = perm[q]
  BY <1>1, <1>4, InvParts, StepIsOwn DEF OwnData
<1>10. i \in 1 .. answered'[listener']
  BY <1>1, <1>3
<1>11. result'[q] = Selected(q, AnswerTo(i)[2], AnswerTo(i)[3])'
  BY <1>1, <1>2, <1>3, <1>5, <1>8, <1>9, ReportStays
<1> QED
  BY <1>1, <1>3, <1>4, <1>7, <1>10, <1>11

(* Who waits goes on waiting, and is not passed over. *)
LEMMA WaitStays ==
  ASSUME ProtocolInv, NEW p \in Process, Step(p), neles' = neles, pc[p] # "masks", ~ ReceiveAnswer(p)
  PROVE  WaitOK'
<1>1. WaitOK /\ Ends /\ NInv /\ Domains
  BY InvParts
<1>2. /\ exited \subseteq exited' /\ p \notin exited /\ NoProcess \notin exited
      /\ \A q \in Process \ {p} : q \in exited' <=> q \in exited
  BY <1>1, EndsKept
<1>3. /\ \A q \in sent : q \in Process /\ q \in sent' /\ q # p
      /\ p \in sent' => pc[p] = "masks"
  <2>1. p \notin sent /\ \A q \in sent : q \in Process /\ q \in sent'
    BY SendersStay DEF SameSender
  <2>2. p \in sent' => pc[p] = "masks"
    <3>1. sent' = sent \/ pc[p] = "masks"
      BY DEF Step, ReadOption, ExitWithUsage, AcceptOptions, Listen, Accept, Connect, Elements,
             ReceiveSizes, ReceiveSet, Compute, AnswerNext, ServerDone, Start, SendMasks, ReceiveAnswer,
             serverVars, clientVars
    <3> QED
      BY <2>1, <3>1
  <2> QED
    BY <2>1, <2>2
<1>4. told \subseteq told'
  BY DEF Step, ReadOption, ExitWithUsage, AcceptOptions, Listen, Accept, Connect, Elements,
         ReceiveSizes, ReceiveSet, Compute, AnswerNext, ServerDone, Start, SendMasks, ReceiveAnswer,
         serverVars, clientVars
<1>5. ASSUME NEW q \in sent', q \in exited' PROVE q \in told' \/ listener' \in exited'
  <2>1. q \in sent /\ q \in exited
    BY <1>2, <1>3, <1>5, SendersStay
  <2>2. q \in told \/ listener \in exited
    BY <1>1, <2>1 DEF WaitOK
  <2>3. listener \in exited => listener' = listener
    BY <1>1, <1>2, JoinedStays DEF Ends
  <2> QED
    BY <1>2, <1>4, <2>2, <2>3
<1>6. ASSUME listener' \in Process \ exited', NEW q \in Process, Taken(<<q, 0>>, neles[listener])'
      PROVE  q \in sent' \cup exited' \/ pc'[q] = "masks"
  <2>1. PICK i \in DOMAIN neles[listener'] : Joined(<<q, 0>>, i)'
    BY <1>6 DEF Taken
  <2>2. listener' = listener /\ Joined(<<q, 0>>, i)
    BY <1>6, <2>1, JoinedStays, ConnectionOK
  <2>3. Taken(<<q, 0>>, neles[listener]) /\ listener \in Process \ exited
    BY <1>2, <1>6, <2>1, <2>2 DEF Taken
  <2>4. q \in sent \cup exited \/ pc[q] = "masks"
    BY <1>1, <2>3 DEF WaitOK
  <2>5. q # p => pc'[q] = pc[q]
    BY <1>1, StepIsOwn DEF Alone
  <2> QED
    BY <1>2, <1>3, <2>4, <2>5
<1> QED
  BY <1>5, <1>6 DEF WaitOK

(* What the clients have sent stays on its way. *)
LEMMA WordsStay ==
  ASSUME ProtocolInv, NEW p \in Process, Step(p), neles' = neles, csets' = csets, sent' = sent,
         pc[p] # "masks", pc'[p] # "masks",
         \A c \in Conn : inbox'[<<c, "server">>] = inbox[<<c, "server">>]
  PROVE  WordsOK'
<1>1. WordsOK /\ NInv /\ SlotsInOrder /\ Domains /\ Ends
  BY InvParts
<1>2. ASSUME NEW c \in Conn
      PROVE  /\ inbox'[<<c, "server">>] \in Seq(Words)
             /\ c[2] # 0 => inbox'[<<c, "server">>] = <<>>
  BY <1>1 DEF WordsOK
<1>3. ASSUME listener' \notin exited', NEW q \in Process
      PROVE  inbox'[<<<<q, 0>>, "server">>] = Word(q)'
  <2> DEFINE c == <<q, 0>>
  <2>0. c \in Conn
    BY ConnectionOK DEF Conn
  <2>1. listener \notin exited
    BY <1>1, <1>3, EndsKept, JoinedStays DEF Ends
  <2>2. inbox[<<c, "server">>] = Word(q)
    BY <1>1, <2>1 DEF WordsOK
  <2>4. /\ q \in sent' <=> q \in sent
        /\ q \in sent => Size(q)' = Size(q) /\ Masks(q)' = Masks(q)
        /\ pc'[q] = "masks" <=> pc[q] = "masks"
        /\ pc[q] = "masks" => Size(q)' = Size(q) /\ sockets'[q] = sockets[q]
    <3>1. q \in sent => SameSender(q)
      BY SendersStay
    <3>2. q # p => pc'[q] = pc[q] /\ sockets'[q] = sockets[q] /\ Size(q)' = Size(q)
      BY <1>1, StepIsOwn DEF Alone, OwnData, Size
    <3> QED
      BY <3>1, <3>2 DEF SameSender
  <2>3. Word(q)' = Word(q)
    <3>1. CASE q \in sent \/ (pc[q] = "masks" /\ sockets[q][1] # NoSocket)
      <4>1. listener \in Process
        <5>1. CASE q \in sent
          <6>1. ClientOK(q) /\ RoleOK(q)
            BY InvParts
          <6>2. q # listener /\ 1 \in DOMAIN sockets[q] /\ sockets[q][1] = <<<<q, 0>>, "client">>
            BY <5>1, <6>1 DEF ClientOK, RoleOK
          <6>3. sockets[q][1] # NoSocket
            BY <2>0, <6>2, EndsDiffer
          <6> QED
            BY <1>1, <6>2, <6>3, Heard
        <5>2. CASE pc[q] = "masks" /\ sockets[q][1] # NoSocket
          BY <5>2, AskingIs DEF Asking
        <5> QED
          BY <3>1, <5>1, <5>2
      <4>2. listener' = listener /\ listener # NoProcess
        BY <4>1, JoinedStays, ConnectionOK
      <4>3. CASE \A d, i : Joined(d, i)' <=> Joined(d, i)
        <5>1. Taken(c, csets[listener])' <=> Taken(c, csets[listener])
          BY <4>2, <4>3 DEF Taken
        <5>2. Taken(c, neles[listener])' <=> Taken(c, neles[listener])
          BY <4>2, <4>3 DEF Taken
        <5> QED
          BY <2>4, <5>1, <5>2 DEF Word
      <4>4. CASE listener' = p /\ neles[p] = <<>> /\ csets[p] = <<>>
        <5>1. ~ Taken(c, csets[listener])' /\ ~ Taken(c, csets[listener])
          BY <4>2, <4>4 DEF Taken
        <5>2. ~ Taken(c, neles[listener])' /\ ~ Taken(c, neles[listener])
          BY <4>2, <4>4 DEF Taken
        <5> QED
          BY <2>4, <5>1, <5>2 DEF Word
      <4> QED
        BY <4>2, <4>3, <4>4, JoinedStays
    <3>2. CASE ~ (q \in sent \/ (pc[q] = "masks" /\ sockets[q][1] # NoSocket))
      BY <2>4, <3>2 DEF Word
    <3> QED
      BY <3>1, <3>2
  <2> QED
    BY <2>0, <2>2, <2>3
<1> QED
  BY <1>2, <1>3 DEF WordsOK, Conn

-----------------------------------------------------------------------------
(* The steps. *)

(* The inboxes and the attempts keep their types. *)
LEMMA NetStays ==
  ASSUME ProtocolInv, NEW p \in Process, Step(p)
  PROVE  NetOK'
<1>1. NetOK /\ RETRY_CONNECT \in Nat \ {0}
  BY InvParts, ConnectionOK
<1>2. sent' \subseteq Process /\ told' \subseteq Process
  <2>1. (sent' = sent \/ sent' = sent \cup {p}) /\ (told' = told \/ told' = told \cup {p})
    BY DEF Step, ReadOption, ExitWithUsage, AcceptOptions, Listen, Accept, Connect, Elements,
           ReceiveSizes, ReceiveSet, Compute, AnswerNext, ServerDone, Start, SendMasks, ReceiveAnswer,
           serverVars, clientVars
  <2> QED
    BY <1>1, <2>1 DEF NetOK
<1>3. \/ UNCHANGED <<inbox, tries>>
      \/ inbox' = inbox /\ tries' \in [Process -> 0 .. RETRY_CONNECT - 1]
      \/ tries' = tries /\ \E e, x : inbox' = [inbox EXCEPT ![e] = x]
  <2> DEFINE Keeps == \/ UNCHANGED <<inbox, tries>>
                      \/ inbox' = inbox /\ tries' \in [Process -> 0 .. RETRY_CONNECT - 1]
                      \/ tries' = tries /\ \E e, x : inbox' = [inbox EXCEPT ![e] = x]
  <2>1. /\ \A l : GoesOn(p, l) => Keeps
        /\ \A l : Exit(p, l) => Keeps
        /\ Dies(p) => Keeps
        /\ \A e : Took(e) => Keeps
        /\ \A m, l : SendOrDie(p, m, l) => Keeps
    BY DEF GoesOn, Exit, Dies, Took, SendOrDie, Sent, netVars
  <2>2. CASE Connect(p)
    <3>1. inbox' = inbox
      BY <2>2, InvParts, EarlyIsOwn
    <3>2. tries' \in [Process -> 0 .. RETRY_CONNECT - 1]
      <4>1. tries \in [Process -> 0 .. RETRY_CONNECT - 1] /\ tries[p] \in Nat
        BY <1>1 DEF NetOK
      <4>2. \/ tries' = [tries EXCEPT ![p] = 0]
            \/ tries[p] < RETRY_CONNECT - 1 /\ tries' = [tries EXCEPT ![p] = tries[p] + 1]
        BY <2>2 DEF Connect, ConnectSucceeds, ConnectFails
      <4>3. 0 \in 0 .. RETRY_CONNECT - 1
            /\ (tries[p] < RETRY_CONNECT - 1 => tries[p] + 1 \in 0 .. RETRY_CONNECT - 1)
        BY <1>1, <4>1
      <4> QED
        BY <4>1, <4>2, <4>3
    <3> QED
      BY <3>1, <3>2
  <2>3. CASE Listen(p) \/ Accept(p)
    BY <2>3 DEF Listen, Bind, BindFails, Accept, AcceptNext
  <2>4. CASE ReceiveAnswer(p)
    <3>1. \/ Exit(p, "done") \/ Dies(p)
          \/ tries' = tries /\ \E e, x : inbox' = [inbox EXCEPT ![e] = x]
      BY <2>4 DEF ReceiveAnswer
    <3> QED
      BY <2>1, <3>1
  <2>5. CASE AnswerNext(p)
    <3>1. \/ Dies(p)
          \/ tries' = tries /\ \E e, m : inbox' = Sent(e, m)
      BY <2>5 DEF AnswerNext
    <3> QED
      BY <2>1, <3>1 DEF Sent
  <2>6. CASE ReceiveSizes(p) \/ ReceiveSet(p)
    <3>1. \/ \E l : GoesOn(p, l) \/ \E e : Took(e)
          \/ Dies(p)
      BY <2>6 DEF ReceiveSizes, ReceiveSet
    <3> QED
      BY <2>1, <3>1
  <2>7. CASE Start(p) \/ SendMasks(p)
    <3>1. \E m, l : SendOrDie(p, m, l)
      BY <2>7 DEF Start, SendMasks
    <3> QED
      BY <2>1, <3>1
  <2>8. CASE \/ ReadOption(p) \/ ExitWithUsage(p) \/ AcceptOptions(p) \/ Elements(p) \/ Compute(p)
             \/ ServerDone(p)
    <3>1. \E l : GoesOn(p, l) \/ Exit(p, l) \/ Dies(p)
      BY <2>8 DEF ReadOption, ExitWithUsage, AcceptOptions, Elements, DrawElements, ReadElements, Compute,
                  ServerDone
    <3> QED
      BY <2>1, <3>1
  <2> QED
    BY <2>2, <2>3, <2>4, <2>5, <2>6, <2>7, <2>8 DEF Step
<1>4. DOMAIN inbox' = End /\ tries' \in [Process -> 0 .. RETRY_CONNECT - 1]
  BY <1>1, <1>3 DEF NetOK
<1> QED
  BY <1>2, <1>4 DEF NetOK, End, Conn

(* A step keeps what it does not change. *)
LEMMA StepKeeps ==
  ASSUME ProtocolInv, NEW p \in Process, Step(p), ProcessOK(p)',
         SetsOK', AnswersOK', WordsOK', WaitOK', ToldOK'
  PROVE  ProtocolInv'
<1>1. NInv /\ SlotsInOrder /\ Domains /\ Ends
  BY InvParts
<1>2. NInv' /\ SlotsInOrder' /\ Domains' /\ NetOK' /\ Ends'
  BY <1>1, StepKeepsN, StepKeepsOrder, OpensInOrder, SameInOrder, StepIsOwn, NetStays, EndsKept DEF OwnData
<1>3. \A q \in Process : ProcessOK(q)'
  BY <1>1, StepIsOwn, OthersStayOK
<1> QED
  BY <1>2, <1>3 DEF ProtocolInv

(* A step that does not touch what was sent. *)
LEMMA QuietStep ==
  ASSUME ProtocolInv, NEW p \in Process, Step(p), ProcessOK(p)',
         UNCHANGED <<neles, csets, found, answered, sent, told, inbox>>,
         pc[p] # "masks", pc'[p] # "masks", ~ ReceiveAnswer(p)
  PROVE  ProtocolInv'
BY StepKeeps, SetsStay, AnswersStay, WordsStay, WaitStays, ToldStays

(* The steps up to the connections: nothing of the protocol is there yet. *)
LEMMA EarlySteps ==
  ASSUME ProtocolInv, NEW p \in Process,
         ReadOption(p) \/ ExitWithUsage(p) \/ AcceptOptions(p) \/ Listen(p) \/ Accept(p) \/ Connect(p)
  PROVE  ProtocolInv'
<1>1. /\ NInv /\ Domains /\ SocketOK(p) /\ RoleOK(p) /\ FullOK(p) /\ ClientOK(p) /\ ServerOK(p)
      /\ pc \in [Process -> PC] /\ DOMAIN parse = Process /\ DOMAIN sockets = Process
      /\ ParseOK /\ SocketsOK
  BY InvParts DEF ParseOK, SocketsOK
<1>2. /\ UNCHANGED <<setup, elements, neles, csets, found, answered, perm, result, sent, told, inbox>>
      /\ Step(p)
  BY <1>1, EarlyIsOwn DEF Step
<1>3. pc[p] \in {"parse", "listen", "accept", "connect"}
  BY DEF ReadOption, ExitWithUsage, AcceptOptions, Listen, Accept, Connect
<1>4. p \notin sent /\ neles[p] = <<>> /\ csets[p] = <<>> /\ answered[p] = 0 /\ found[p] = {}
      /\ elements[p] \in Seq(DOMAIN Mask)
  BY <1>1, <1>3 DEF ClientOK, ServerOK, Serving, Ended
<1>5. ASSUME pc'[p] \in {"parse", "listen", "accept", "connect", "elements"} \cup Ended
      PROVE  ClientOK(p)' /\ ServerOK(p)'
  <2>1. pc'[p] \notin {"sizes", "sets", "compute", "answer", "start", "masks", "receive"}
    BY <1>5 DEF Ended
  <2>2. ClientOK(p)'
    BY <1>2, <1>4, <2>1 DEF ClientOK
  <2>3. ServerOK(p)'
    BY <1>2, <1>4, <2>1 DEF ServerOK, AnyMask
  <2> QED
    BY <2>2, <2>3
<1>10. /\ NInv' /\ ~ ReceiveAnswer(p) /\ pc[p] # "masks" /\ SocketOK(p)'
  <2>1. NInv'
    BY <1>1, <1>2, StepKeepsN
  <2>2. SocketsOK'
    BY <2>1 DEF NInv
  <2>3. SocketOK(p)'
    BY <2>2 DEF SocketsOK, SocketOK
  <2> QED
    BY <1>3, <2>1, <2>3 DEF ReceiveAnswer
<1>11. ASSUME RoleOK(p)', FullOK(p)',
              pc'[p] \in {"parse", "listen", "accept", "connect", "elements"} \cup Ended
       PROVE  ProtocolInv'
  <2>1. pc'[p] # "masks"
    BY <1>11 DEF Ended
  <2> QED
    BY <1>2, <1>5, <1>10, <1>11, <2>1, QuietStep DEF ProcessOK
<1>6. CASE ReadOption(p) \/ ExitWithUsage(p) \/ AcceptOptions(p)
  <2>1. pc[p] = "parse" /\ sockets[p] = <<>> /\ p # listener
    BY <1>1, <1>6 DEF ReadOption, ExitWithUsage, AcceptOptions, SocketOK, Early
  <2>2. UNCHANGED <<sockets, listener>>
    BY <1>6 DEF ReadOption, ExitWithUsage, AcceptOptions, GoesOn, Dies, Exit, netVars
  <2>3. /\ pc'[p] \in {"parse", "listen", "connect"} \cup Ended
        /\ pc'[p] = "listen" => IsServer(p)'
        /\ pc'[p] = "connect" => ~ IsServer(p)'
    <3>1. CASE ReadOption(p) \/ ExitWithUsage(p)
      <4>1. pc' = [pc EXCEPT ![p] = "parse"] \/ \E l \in Ended : pc' = [pc EXCEPT ![p] = l]
        BY <3>1, PlacesAre DEF ReadOption, ExitWithUsage, GoesOn, Dies, Exit, Goto
      <4> QED
        BY <1>1, <4>1 DEF Ended
    <3>2. CASE AcceptOptions(p)
      <4>1. PICK r : /\ parse' = [parse EXCEPT ![p].val.r = r]
                     /\ \/ \E l \in Ended : pc' = [pc EXCEPT ![p] = l]
                        \/ pc' = [pc EXCEPT ![p] = IF r = 0 THEN "listen" ELSE "connect"]
        BY <3>2, PlacesAre DEF AcceptOptions, GoesOn, Dies, Exit, Goto
      <4>2. /\ "val" \in DOMAIN parse[p] /\ "r" \in DOMAIN parse[p].val
        <5>1. ArgsOK(p, parse[p])
          BY <1>1 DEF ParseOK
        <5> QED
          BY <5>1, DefaultsHave DEF ArgsOK, Fields
      <4>3. val(p)'.r = r
        BY <1>1, <4>1, <4>2 DEF val
      <4>4. IsServer(p)' <=> r = 0
        BY <4>3 DEF IsServer, val
      <4>5. pc'[p] \in Ended \/ pc'[p] = IF r = 0 THEN "listen" ELSE "connect"
        BY <1>1, <4>1
      <4> QED
        BY <4>4, <4>5, PlacesAre
    <3> QED
      BY <1>6, <3>1, <3>2
  <2>4. pc'[p] \notin {"accept", "elements"} \cup Serving \cup Asking
    BY <2>3 DEF Ended, Serving, Asking
  <2>5. RoleOK(p)'
    BY <1>2, <1>4, <2>1, <2>2, <2>3, <2>4 DEF RoleOK, Serving, Asking
  <2>6. FullOK(p)'
    <3>1. DOMAIN sockets'[p] = {}
      BY <2>1, <2>2
    <3> QED
      BY <2>1, <2>2, <2>4, <3>1 DEF FullOK
  <2> QED
    BY <1>11, <2>3, <2>5, <2>6
<1>12. ASSUME UNCHANGED <<setup, parse>>
       PROVE  IsServer(p)' = IsServer(p) /\ Slots(p)' = Slots(p) /\ Sockets(p)' = Sockets(p)
  BY <1>12 DEF IsServer, Slots, Sockets, IsBench, val
<1>7. CASE Listen(p)
  <2>1. pc[p] = "listen" /\ IsServer(p) /\ p # listener /\ UNCHANGED <<setup, parse>>
    BY <1>1, <1>7 DEF Listen, RoleOK, SocketOK, Early
  <2>2. CASE Bind(p) /\ Goto(p, "accept")
    <3>1. listener' = p /\ pc'[p] = "accept"
      BY <1>1, <2>2 DEF Bind, Goto
    <3> QED
      BY <1>2, <1>4, <1>11, <1>12, <2>1, <3>1 DEF RoleOK, FullOK, Serving, Asking
  <2>3. CASE BindFails(p, Slots(p)) /\ Goto(p, "elements")
    <3>1. /\ listener' = listener /\ pc'[p] = "elements"
          /\ sockets'[p] = [i \in 1 .. Slots(p) |-> NoSocket]
      BY <1>1, <2>3 DEF BindFails, Goto
    <3>2. Len(sockets'[p]) = Slots(p) /\ \A i \in DOMAIN sockets'[p] : sockets'[p][i] = NoSocket
      <4>1. Slots(p) \in Nat
        BY <1>1, NumbersAre
      <4>2. Len([i \in 1 .. Slots(p) |-> NoSocket]) = Slots(p)
        BY <4>1
      <4> QED
        BY <3>1, <4>2
    <3> QED
      BY <1>2, <1>4, <1>11, <1>12, <2>1, <3>1, <3>2 DEF RoleOK, FullOK, Serving, Asking
  <2> QED
    BY <1>7, <2>2, <2>3 DEF Listen
<1>8. CASE Accept(p)
  <2>1. /\ p = listener /\ listener' = listener /\ UNCHANGED <<setup, parse>>
        /\ Len(sockets'[p]) = Len(sockets[p]) + 1
        /\ pc'[p] = IF Len(sockets[p]) + 1 = Slots(p) THEN "elements" ELSE "accept"
    BY <1>1, <1>8, AcceptFacts
  <2>2. IsServer(p)
    BY <1>1, <2>1 DEF RoleOK
  <2> QED
    BY <1>2, <1>4, <1>11, <1>12, <2>1, <2>2 DEF RoleOK, FullOK, Serving, Asking
<1>9. CASE Connect(p)
  <2>1. /\ p # listener /\ listener' = listener /\ UNCHANGED <<setup, parse>>
        /\ pc'[p] = IF Len(sockets'[p]) = Sockets(p) THEN "elements" ELSE "connect"
    BY <1>1, <1>9, ConnectFacts
  <2>2. ~ IsServer(p)
    BY <1>1, <1>9 DEF Connect, RoleOK
  <2> QED
    BY <1>2, <1>4, <1>11, <1>12, <2>1, <2>2 DEF RoleOK, FullOK, Serving, Asking
<1> QED
  BY <1>6, <1>7, <1>8, <1>9

(* The steps behind the connections leave those as they are. *)
LEMMA LateFrame ==
  ASSUME ProtocolInv, NEW p \in Process,
         \/ Elements(p) \/ ReceiveSizes(p) \/ ReceiveSet(p) \/ Compute(p) \/ AnswerNext(p)
         \/ ServerDone(p) \/ Start(p) \/ SendMasks(p) \/ ReceiveAnswer(p)
  PROVE  /\ Step(p) /\ UNCHANGED <<setup, parse, sockets, listener>>
         /\ \A c, i : Joined(c, i)' <=> Joined(c, i)
         /\ IsServer(p)' = IsServer(p) /\ Slots(p)' = Slots(p) /\ Sockets(p)' = Sockets(p)
         /\ NClients(p)' = NClients(p) /\ IsBench(p)' = IsBench(p)
         /\ DOMAIN elements = Process /\ DOMAIN perm = Process /\ DOMAIN neles = Process
         /\ DOMAIN csets = Process /\ DOMAIN found = Process /\ DOMAIN answered = Process
         /\ DOMAIN result = Process /\ DOMAIN inbox = End /\ p \notin exited /\ DOMAIN pc = Process
<1>1. ParseOK /\ NInv /\ Domains /\ NetOK /\ Ends /\ pc \in [Process -> PC]
  BY InvParts
<1>2. Step(p) /\ UNCHANGED <<setup, parse>> /\ \E l \in PC : Moves(p, l)
  BY <1>1, OthersMove DEF Step
<1>3. UNCHANGED <<sockets, listener>>
  BY <1>2 DEF Moves
<1>4. p \notin exited
  BY <1>1, <1>2, EndsKept
<1> QED
  BY <1>1, <1>2, <1>3, <1>4 DEF Joined, IsServer, Slots, Sockets, NClients, IsBench, val, Domains, NetOK

(* The number of elements that a command line asks for. *)
LEMMA NumberToDraw ==
  ASSUME ProtocolInv, NEW p \in Process
  PROVE  /\ val(p).n \in Nat
         /\ IsBench(p) => val(p).n <= Len(setup[p].random) /\ setup[p].random \in Seq(DOMAIN Mask)
<1> DEFINE a == Argv(p)
           n == val(p).n
<1>1. setup \in Setups /\ ArgsOK(p, parse[p])
  BY InvParts DEF ParseOK
<1>2. a \in Seq(Argument) /\ Len(a) \in Nat /\ setup[p].random \in Seq(DOMAIN Mask)
  BY <1>1, SetupsOK, LenProperties DEF Argv
<1>3. n = 0 \/ IsGiven(a, "n", n)
  <2>1. FromArgs(p, parse[p], "n") /\ Defaults(setup[p].program)["n"] = 0
    BY <1>1, DefaultsHave DEF ArgsOK
  <2> QED
    BY <2>1 DEF FromArgs, val
<1> HIDE DEF n
<1>4. CASE n = 0
  <2>1. Len(setup[p].random) \in Nat
    BY <1>2, LenProperties
  <2> QED
    BY <1>2, <1>4, <2>1 DEF n
<1>5. CASE IsGiven(a, "n", n)
  <2>1. PICK i \in 1 .. Len(a) - 1 : a[i] = <<"opt", "n">> /\ a[i + 1] = <<"num", n>>
    BY <1>5 DEF IsGiven
  <2>2. n \in Nat
    <3>1. i + 1 \in 1 .. Len(a)
      BY <1>2
    <3>2. a[i + 1] \in Argument
      BY <1>2, <3>1, ElementOfSeq
    <3> QED
      BY <2>1, <3>2, ArgumentIs
  <2>3. IsBench(p) => n <= Len(setup[p].random)
    <3>1. HasNumber(a, i) /\ a[i][2] = "n" /\ a[i + 1][2] = n
      BY <2>1 DEF HasNumber
    <3> QED
      BY <1>1, <2>1, <3>1, SetupsOK DEF Argv, IsBench
  <2> QED
    BY <1>2, <2>2, <2>3 DEF n
<1> QED
  BY <1>3, <1>4, <1>5

(* The first elements of a sequence. *)
LEMMA FirstElements ==
  ASSUME NEW S, NEW s \in Seq(S), NEW n \in Nat, n <= Len(s)
  PROVE  SubSeq(s, 1, n) \in Seq(S)
<1>1. Len(s) \in Nat /\ \A i \in 1 .. n : s[i] \in S
  BY LenProperties, ElementOfSeq
<1> QED
  BY <1>1, SubSeqProperties

(* The process has its elements and begins as a server or as a client. *)
LEMMA ElementsStep ==
  ASSUME ProtocolInv, NEW p \in Process, Elements(p)
  PROVE  ProtocolInv'
<1>1. /\ RoleOK(p) /\ FullOK(p) /\ ClientOK(p) /\ ServerOK(p)
      /\ pc[p] = "elements" /\ NClients(p) \in 0 .. 2 /\ setup \in Setups
  BY InvParts, NumbersAre DEF Elements, ParseOK
<1>2. /\ Step(p) /\ UNCHANGED <<setup, parse, sockets, listener>>
      /\ IsServer(p)' = IsServer(p) /\ Slots(p)' = Slots(p) /\ Sockets(p)' = Sockets(p)
      /\ NClients(p)' = NClients(p) /\ DOMAIN elements = Process /\ DOMAIN pc = Process
  BY LateFrame
<1>3. /\ UNCHANGED <<neles, csets, found, answered, perm, result, sent, told, inbox>>
  BY DEF Elements, serverVars, clientVars, DrawElements, ReadElements, GoesOn, Dies, Exit, netVars
<1>4. p \notin sent /\ neles[p] = <<>> /\ csets[p] = <<>> /\ answered[p] = 0 /\ found[p] = {}
      /\ elements[p] \in Seq(DOMAIN Mask)
  BY <1>1 DEF ClientOK, ServerOK, Serving, Ended
<1>5. elements'[p] \in Seq(DOMAIN Mask)
  <2>1. CASE DrawElements(p)
    <3> DEFINE drawn == SubSeq(setup[p].random, 1, val(p).n)
    <3>1. elements'[p] = IF IsServer(p) THEN <<>> ELSE drawn
      BY <1>2, <2>1 DEF DrawElements
    <3>2. drawn \in Seq(DOMAIN Mask)
      BY <2>1, NumberToDraw, FirstElements DEF DrawElements
    <3> HIDE DEF drawn
    <3>3. <<>> \in Seq(DOMAIN Mask)
      OBVIOUS
    <3>4. elements'[p] = <<>> \/ elements'[p] = drawn
      BY Zenon, <3>1
    <3> QED
      BY Zenon, <3>2, <3>3, <3>4
  <2>2. CASE ReadElements(p)
    <3> DEFINE file == setup[p].files[val(p).f]
               n == val(p).n
    <3>1. \/ elements' = elements
          \/ /\ val(p).f \in DOMAIN setup[p].files /\ n <= Len(file)
             /\ elements' = [elements EXCEPT ![p] = IF n = 0 THEN file ELSE SubSeq(file, 1, n)]
      BY <2>2 DEF ReadElements
    <3>2. val(p).f \in DOMAIN setup[p].files => file \in Seq(DOMAIN Mask)
      BY <1>1, SetupsOK
    <3>3. n \in Nat
      BY NumberToDraw
    <3> HIDE DEF n, file
    <3>4. val(p).f \in DOMAIN setup[p].files /\ n <= Len(file) => SubSeq(file, 1, n) \in Seq(DOMAIN Mask)
      BY <3>2, <3>3, FirstElements
    <3> QED
      BY <1>2, <1>4, <3>1, <3>2, <3>4
  <2> QED
    BY <2>1, <2>2 DEF Elements
<1>6. pc'[p] = Begin(p) \/ pc'[p] \in Ended
  BY <1>2, PlacesAre DEF Elements, DrawElements, ReadElements, GoesOn, Dies, Exit, Goto
<1>7. /\ pc'[p] \in {"start", "compute", "sizes"} \cup Ended
      /\ pc'[p] = "start" => ~ IsServer(p)
      /\ pc'[p] \in {"compute", "sizes"} => IsServer(p)
      /\ pc'[p] = "compute" => NClients(p) = 0
      /\ pc'[p] = "sizes" => NClients(p) # 0
  BY <1>6 DEF Begin, Ended
<1>8. pc'[p] \notin {"listen", "accept", "connect", "elements", "sets", "answer", "masks", "receive"}
  BY <1>7 DEF Ended
<1>9. RoleOK(p)' /\ FullOK(p)'
  BY <1>1, <1>2, <1>3, <1>4, <1>7, <1>8 DEF RoleOK, FullOK, Serving, Asking
<1>10. ClientOK(p)'
  BY <1>3, <1>4, <1>5, <1>8 DEF ClientOK
<1>11. ServerOK(p)'
  <2>1. Len(neles[p]) = 0 /\ Len(csets[p]) = 0
    BY <1>4
  <2>2. 0 < NClients(p) \/ NClients(p) = 0
    BY <1>1
  <2> QED
    BY <1>1, <1>2, <1>3, <1>4, <1>7, <1>8, <2>1, <2>2 DEF ServerOK, Serving, AnyMask
<1>12. pc[p] # "masks" /\ pc'[p] # "masks" /\ ~ ReceiveAnswer(p)
  BY <1>1, <1>8 DEF ReceiveAnswer
<1> QED
  BY <1>2, <1>3, <1>9, <1>10, <1>11, <1>12, QuietStep DEF ProcessOK

(* A step of the server leaves it in its role. *)
LEMMA ServerKeeps ==
  ASSUME ProtocolInv, NEW p \in Process,
         ReceiveSizes(p) \/ ReceiveSet(p) \/ Compute(p) \/ AnswerNext(p) \/ ServerDone(p)
  PROVE  /\ pc[p] \in Serving /\ p \notin sent /\ IsServer(p) /\ NClients(p) \in 0 .. 2
         /\ UNCHANGED <<elements, perm, result, sent, told>>
         /\ pc'[p] \in Serving \cup Ended => RoleOK(p)' /\ FullOK(p)' /\ ClientOK(p)'
<1>1. /\ RoleOK(p) /\ FullOK(p) /\ ClientOK(p) /\ NClients(p) \in 0 .. 2
  BY InvParts, NumbersAre
<1>2. pc[p] \in Serving /\ UNCHANGED <<elements, perm, result, sent, told>>
  BY DEF ReceiveSizes, ReceiveSet, Compute, AnswerNext, ServerDone, Serving, clientVars, serverVars
<1>3. IsServer(p) /\ p \notin sent /\ pc[p] # "accept"
  BY <1>1, <1>2 DEF RoleOK, Serving
<1>4. /\ UNCHANGED <<setup, parse, sockets, listener>>
      /\ IsServer(p)' = IsServer(p) /\ Slots(p)' = Slots(p) /\ Sockets(p)' = Sockets(p)
  BY LateFrame
<1>5. ASSUME pc'[p] \in Serving \cup Ended PROVE RoleOK(p)' /\ FullOK(p)' /\ ClientOK(p)'
  <2>1. pc'[p] \notin {"listen", "accept", "connect", "elements"} \cup Asking
    BY <1>5 DEF Serving, Ended, Asking
  <2>2. RoleOK(p)'
    BY <1>2, <1>3, <1>4, <2>1 DEF RoleOK
  <2>3. FullOK(p)'
    BY <1>1, <1>2, <1>3, <1>4, <2>1 DEF FullOK
  <2>4. ClientOK(p)'
    BY <1>1, <1>2, <1>3, <2>1 DEF ClientOK, Asking
  <2> QED
    BY <2>2, <2>3, <2>4
<1> QED
  BY <1>1, <1>2, <1>3, <1>5

(* The server ends when all have their answers. *)
LEMMA ServerDoneStep ==
  ASSUME ProtocolInv, NEW p \in Process, ServerDone(p)
  PROVE  ProtocolInv'
<1>1. /\ ServerOK(p) /\ pc[p] = "answer"
  BY InvParts DEF ServerDone
<1>2. /\ Step(p) /\ DOMAIN pc = Process /\ NClients(p)' = NClients(p)
  BY LateFrame
<1>3. /\ UNCHANGED <<neles, csets, found, answered, sent, told, inbox>> /\ pc'[p] = "done"
  BY <1>2 DEF ServerDone, serverVars, clientVars, Exit, Goto
<1>4. pc'[p] \in Ended /\ pc'[p] \notin Serving
  BY <1>3 DEF Ended, Serving
<1>5. Intersection(csets[p])' = Intersection(csets[p])
  BY <1>3, MeetStays
<1>6. ServerOK(p)'
  BY <1>1, <1>2, <1>3, <1>4, <1>5 DEF ServerOK, Computed, AnyMask
<1>7. pc[p] # "masks" /\ pc'[p] # "masks" /\ ~ ReceiveAnswer(p)
  BY <1>1, <1>3 DEF ReceiveAnswer
<1> QED
  BY <1>2, <1>3, <1>4, <1>6, <1>7, ServerKeeps, QuietStep DEF ProcessOK

(* The server computes the intersection of what it received; nobody has an answer yet. *)
LEMMA ComputeStep ==
  ASSUME ProtocolInv, NEW p \in Process, Compute(p)
  PROVE  ProtocolInv'
<1>1. /\ ServerOK(p) /\ pc[p] = "compute" /\ AnswersOK /\ ToldOK
  BY InvParts DEF Compute
<1>2. /\ Step(p) /\ DOMAIN pc = Process /\ NClients(p)' = NClients(p) /\ DOMAIN found = Process
      /\ listener' = listener /\ p \notin exited
  BY LateFrame
<1>3. /\ UNCHANGED <<neles, csets, answered, sent, told, inbox>> /\ pc'[p] \in {"answer", "aborted"}
      /\ \/ found'[p] = IF NClients(p) = 0 THEN {} ELSE Intersection(csets[p])
         \/ pc'[p] = "aborted" /\ found' = found
      /\ pc'[p] = "answer" => found'[p] = IF NClients(p) = 0 THEN {} ELSE Intersection(csets[p])
      /\ NClients(p) \in 0 .. 2
  <2> DEFINE meet == IF NClients(p) = 0 THEN {} ELSE Intersection(csets[p])
  <2>1. /\ UNCHANGED <<neles, csets, answered, sent, told>>
        /\ \/ found' = [found EXCEPT ![p] = meet] /\ GoesOn(p, "answer")
           \/ Dies(p) /\ found' = found
    BY DEF Compute, clientVars
  <2>2. NClients(p) \in 0 .. 2
    BY ServerKeeps
  <2> HIDE DEF meet
  <2>3. CASE found' = [found EXCEPT ![p] = meet] /\ GoesOn(p, "answer")
    <3>1. inbox' = inbox /\ pc'[p] = "answer" /\ found'[p] = meet
      BY <1>2, <2>3 DEF GoesOn, Goto, netVars
    <3> QED
      BY <2>1, <2>2, <3>1 DEF meet
  <2>4. CASE Dies(p) /\ found' = found
    <3>1. inbox' = inbox /\ pc'[p] = "aborted"
      BY <1>2, <2>4 DEF Dies, Exit, Goto
    <3>2. "aborted" # "answer"
      OBVIOUS
    <3> QED
      BY <2>1, <2>2, <2>4, <3>1, <3>2
  <2> QED
    BY <2>1, <2>3, <2>4
<1>4. pc'[p] \in Serving \cup Ended /\ pc'[p] \notin {"sizes", "sets", "compute", "masks"}
  BY <1>3 DEF Ended, Serving
<1>5. answered[p] = 0 /\ found[p] = {}
  BY <1>1 DEF ServerOK, Ended
<1>6. ServerOK(p)'
  <2>1. CASE found'[p] = IF NClients(p) = 0 THEN {} ELSE Intersection(csets[p])
    <3>1. Intersection(csets[p])' = Intersection(csets[p])
      BY <1>3, MeetStays
    <3>2. Computed(p)'
      BY <1>1, <1>2, <1>3, <1>5, <2>1, <3>1 DEF Computed, ServerOK
    <3>3. pc'[p] \notin {"answer"} \cup Ended => FALSE
      BY <1>3 DEF Ended
    <3>4. pc'[p] \notin Serving \cup Ended => FALSE
      BY <1>4
    <3> QED
      BY <1>1, <1>2, <1>3, <1>4, <3>2, <3>3, <3>4 DEF ServerOK, AnyMask
  <2>2. CASE pc'[p] = "aborted" /\ found' = found
    <3>1. pc'[p] \in Ended
      BY <2>2 DEF Ended
    <3> QED
      BY <1>1, <1>2, <1>3, <1>4, <1>5, <2>2, <3>1 DEF ServerOK, AnyMask
  <2> QED
    BY <1>3, <2>1, <2>2
<1>7. pc[p] # "masks" /\ pc'[p] # "masks" /\ ~ ReceiveAnswer(p)
  BY <1>1, <1>4 DEF ReceiveAnswer
<1>8. SetsOK' /\ WordsOK' /\ WaitOK'
  BY <1>2, <1>3, <1>7, SetsStay, WordsStay, WaitStays
<1>9. listener \in Process => found'[listener] = found[listener] \/ answered[listener] = 0
  BY <1>2, <1>5, InvParts, StepIsOwn DEF OwnData
<1>10. ToldOK'
  BY <1>2, <1>3, <1>9, ToldStays
<1>11. AnswersOK'
  <2>1. CASE p # listener
    <3> SUFFICES ASSUME NEW c \in Conn, inbox[<<c, "client">>] # <<>>
                 PROVE  /\ listener \in Process /\ c[1] \in sent
                        /\ \E i \in 1 .. answered[listener] :
                             Joined(c, i)' /\ inbox[<<c, "client">>] = <<AnswerTo(i)'>>
      BY <1>2, <1>3 DEF AnswersOK, Conn
    <3>1. /\ listener \in Process /\ c[1] \in sent
      BY <1>1 DEF AnswersOK
    <3>2. PICK i \in 1 .. answered[listener] : Joined(c, i) /\ inbox[<<c, "client">>] = <<AnswerTo(i)>>
      BY <1>1 DEF AnswersOK
    <3>3. found'[listener] = found[listener]
      BY <1>2, <2>1, <3>1, InvParts, StepIsOwn DEF OwnData
    <3>4. AnswerTo(i)' = AnswerTo(i)
      BY <1>2, <3>3 DEF AnswerTo
    <3>5. Joined(c, i)'
      BY <3>2, LateFrame
    <3> QED
      BY <3>1, <3>2, <3>4, <3>5
  <2>2. CASE p = listener
    <3>1. \A c \in Conn : inbox[<<c, "client">>] = <<>>
      <4> SUFFICES ASSUME NEW c \in Conn, inbox[<<c, "client">>] # <<>> PROVE FALSE
        OBVIOUS
      <4>1. \E i \in 1 .. answered[listener] : Joined(c, i)
        BY <1>1 DEF AnswersOK
      <4> QED
        BY <1>5, <2>2, <4>1
    <3> QED
      BY <1>3, <3>1 DEF AnswersOK, Conn
  <2> QED
    BY <2>1, <2>2
<1> QED
  BY <1>2, <1>4, <1>6, <1>8, <1>10, <1>11, ServerKeeps, StepKeeps DEF ProcessOK

(* An answer goes to the client at the next place, which has asked and got none before. *)
LEMMA AnswerArrives ==
  ASSUME ProtocolInv, NEW p \in Process, pc[p] = "answer", answered[p] < NClients(p),
         NEW c \in Conn, p = listener, Joined(c, answered[p] + 1), c[1] \notin exited
  PROVE  c[1] \in sent /\ c[2] = 0 /\ inbox[<<c, "client">>] = <<>>
<1> DEFINE k == answered[p] + 1
<1>1. ServerOK(p) /\ SetsOK /\ AnswersOK /\ NInv /\ SlotsInOrder /\ NClients(p) \in 0 .. 2
  BY InvParts, NumbersAre
<1>2. answered[p] \in Nat /\ Len(csets[p]) = NClients(p) /\ csets[p] \in Seq(Seq(AnyMask))
  BY <1>1 DEF ServerOK, Computed
<1>3. k \in DOMAIN csets[p]
  <2>1. DOMAIN csets[p] = 1 .. NClients(p)
    BY <1>2, LenProperties
  <2> QED
    BY <1>1, <1>2, <2>1
<1>4. c[1] \in sent /\ c[2] = 0
  BY <1>1, <1>3 DEF SetsOK
<1>5. ASSUME inbox[<<c, "client">>] # <<>> PROVE FALSE
  <2>1. PICK i \in 1 .. answered[listener] : Joined(c, i)
    BY <1>1, <1>5 DEF AnswersOK
  <2>2. i = k
    BY <1>1, <2>1, JoinedOnce
  <2> QED
    BY <1>2, <2>1, <2>2
<1> QED
  BY <1>4, <1>5

(* The answer for the next place goes to the client of that place. *)
LEMMA AnswerNextStep ==
  ASSUME ProtocolInv, NEW p \in Process, AnswerNext(p)
  PROVE  ProtocolInv'
<1> DEFINE k == answered[p] + 1
           e == sockets[p][k]
           m == <<"answer", Cardinality(found[p]), {t[k] : t \in found[p]}>>
<1>1. /\ ServerOK(p) /\ pc[p] = "answer" /\ AnswersOK /\ ToldOK /\ NClients(p) \in 0 .. 2
      /\ answered[p] \in Nat /\ k <= NClients(p)
  BY InvParts, ServerKeeps DEF AnswerNext, ServerOK
<1>2. /\ Step(p) /\ DOMAIN pc = Process /\ NClients(p)' = NClients(p) /\ DOMAIN answered = Process
      /\ listener' = listener /\ p \notin exited /\ DOMAIN inbox = End
  BY LateFrame
<1>3. /\ UNCHANGED <<neles, csets, found, sent, told>>
      /\ \/ answered' = [answered EXCEPT ![p] = k] /\ inbox' = Sent(e, m) /\ pc' = pc
         \/ answered' = answered /\ inbox' = inbox /\ pc'[p] = "aborted"
  BY <1>2 DEF AnswerNext, clientVars, Exit, Goto, Dies
<1>4. pc'[p] \in {"answer", "aborted"}
  BY <1>1, <1>3
<1>5. pc'[p] \in Serving \cup Ended /\ pc'[p] \notin {"sizes", "sets", "compute", "masks"}
      /\ pc'[p] \in {"answer"} \cup Ended
  BY <1>4 DEF Ended, Serving
<1>6. answered'[p] \in Nat /\ answered'[p] <= NClients(p) /\ answered[p] <= answered'[p]
  <2>1. answered'[p] = answered[p] \/ answered'[p] = k
    BY <1>2, <1>3
  <2>2. answered[p] <= NClients(p)
    BY <1>1
  <2> QED
    BY <1>1, <2>1, <2>2
<1>7. ServerOK(p)'
  <2>1. Intersection(csets[p])' = Intersection(csets[p])
    BY <1>3, MeetStays
  <2>2. Computed(p)'
    BY <1>1, <1>2, <1>3, <1>6, <2>1 DEF Computed, ServerOK
  <2> QED
    BY <1>1, <1>2, <1>3, <1>5, <1>6, <2>2 DEF ServerOK, AnyMask
<1>8. \/ p # listener /\ e = NoSocket
      \/ \E c \in Conn : /\ p = listener /\ e = <<c, "server">> /\ e # NoSocket /\ Joined(c, k)
                         /\ PeerOf(e) = c[1] /\ Peer(e) = <<c, "client">>
  <2>1. k \in 1 .. NClients(p) /\ pc[p] \in Serving
    BY <1>1 DEF Serving
  <2> QED
    BY <2>1, SlotIs
<1>9. pc[p] # "masks" /\ pc'[p] # "masks" /\ ~ ReceiveAnswer(p)
  BY <1>1, <1>5 DEF ReceiveAnswer
<1>10. \/ inbox' = inbox
       \/ \E c \in Conn : /\ p = listener /\ Joined(c, k) /\ c[1] \notin exited
                          /\ inbox' = [inbox EXCEPT ![<<c, "client">>] = Append(@, m)]
                          /\ answered' = [answered EXCEPT ![p] = k]
  <2>1. CASE Closed(e)
    BY <1>3, <2>1 DEF Sent
  <2>2. CASE ~ Closed(e)
    BY <1>3, <1>8, <2>2 DEF Sent, Closed
  <2> QED
    BY <2>1, <2>2
<1>11. \A c \in Conn : inbox'[<<c, "server">>] = inbox[<<c, "server">>]
  <2> HIDE DEF m, k
  <2> SUFFICES ASSUME NEW c \in Conn PROVE inbox'[<<c, "server">>] = inbox[<<c, "server">>]
    OBVIOUS
  <2>1. \A d : <<d, "client">> # <<c, "server">>
    BY "client" # "server"
  <2>2. <<c, "server">> \in DOMAIN inbox
    BY <1>2 DEF End
  <2>3. \A d, x : [inbox EXCEPT ![<<d, "client">>] = x][<<c, "server">>] = inbox[<<c, "server">>]
    BY <2>1, <2>2
  <2>4. inbox' = inbox \/ \E d, x : inbox' = [inbox EXCEPT ![<<d, "client">>] = x]
    BY <1>10
  <2> QED
    BY <2>3, <2>4
<1>12. SetsOK' /\ WordsOK' /\ WaitOK'
  BY <1>2, <1>3, <1>9, <1>11, SetsStay, WordsStay, WaitStays
<1>13. ToldOK'
  <2>1. listener \in Process => 1 .. answered[listener] \subseteq 1 .. answered'[listener]
    <3>1. CASE listener = p
      BY <1>1, <1>6, <3>1
    <3>2. CASE listener # p
      BY <1>2, <3>2, InvParts, StepIsOwn DEF OwnData
    <3> QED
      BY <3>1, <3>2
  <2> QED
    BY <1>2, <1>3, <2>1, ToldStays
<1>14. AnswersOK'
  <2> SUFFICES ASSUME NEW d \in Conn, inbox'[<<d, "client">>] # <<>>
               PROVE  /\ listener \in Process /\ d[1] \in sent
                      /\ \E i \in 1 .. answered'[listener] :
                           Joined(d, i) /\ inbox'[<<d, "client">>] = <<AnswerTo(i)>>
    <3>1. \A i : AnswerTo(i)' = AnswerTo(i)
      BY <1>2, <1>3 DEF AnswerTo
    <3>2. \A d, i : Joined(d, i)' <=> Joined(d, i)
      BY LateFrame
    <3> QED
      BY <1>2, <1>3, <3>1, <3>2 DEF AnswersOK, Conn
  <2>1. CASE inbox'[<<d, "client">>] = inbox[<<d, "client">>]
    <3>1. PICK i \in 1 .. answered[listener] : Joined(d, i) /\ inbox[<<d, "client">>] = <<AnswerTo(i)>>
      BY <1>1, <2>1 DEF AnswersOK
    <3>2. listener \in Process /\ d[1] \in sent
      BY <1>1, <2>1 DEF AnswersOK
    <3>3. i \in 1 .. answered'[listener]
      <4>1. CASE listener = p
        BY <1>1, <1>6, <3>1, <4>1
      <4>2. CASE listener # p
        BY <1>2, <3>1, <3>2, <4>2, InvParts, StepIsOwn DEF OwnData
      <4> QED
        BY <4>1, <4>2
    <3> QED
      BY <2>1, <3>1, <3>2, <3>3
  <2>2. CASE inbox'[<<d, "client">>] # inbox[<<d, "client">>]
    <3>1. PICK c \in Conn : /\ p = listener /\ Joined(c, k) /\ c[1] \notin exited
                            /\ inbox' = [inbox EXCEPT ![<<c, "client">>] = Append(@, m)]
                            /\ answered' = [answered EXCEPT ![p] = k]
      BY <1>10, <2>2
    <3>2. d = c
      BY <1>2, <2>2, <3>1
    <3>3. c[1] \in sent /\ inbox[<<c, "client">>] = <<>>
      <4>1. answered[p] < NClients(p)
        BY <1>1
      <4> QED
        BY <1>1, <3>1, <4>1, AnswerArrives
    <3>4. <<c, "client">> \in DOMAIN inbox
      BY <1>2 DEF End
    <3>5. inbox'[<<c, "client">>] = <<m>>
      <4> HIDE DEF m
      <4> QED
        BY <3>1, <3>3, <3>4
    <3>6. m = AnswerTo(k)
      BY <3>1 DEF AnswerTo
    <3>7. answered'[p] = k /\ k \in 1 .. k
      BY <1>1, <1>2, <3>1
    <3> HIDE DEF m, k
    <3> QED
      BY <3>1, <3>2, <3>3, <3>5, <3>6, <3>7
  <2> QED
    BY <2>1, <2>2
<1> QED
  BY <1>2, <1>5, <1>7, <1>12, <1>13, <1>14, ServerKeeps, StepKeeps DEF ProcessOK

-----------------------------------------------------------------------------
(* What the server takes. *)

(* The server p takes what is next for it at its place k, if anything comes. *)
Takes(p, k) ==
  \/ /\ inbox' = inbox
     /\ \/ p # listener
        \/ p = listener /\ p \in exited'
        \/ /\ p = listener
           /\ \E c \in Conn : Joined(c, k) /\ c[1] \in exited /\ inbox[<<c, "server">>] = <<>>
  \/ /\ p = listener
     /\ \E q \in Process : LET e == <<<<q, 0>>, "server">> IN
          /\ Joined(<<q, 0>>, k) /\ inbox[e] = Word(q) /\ Word(q) # <<>>
          /\ inbox' = [inbox EXCEPT ![e] = Tail(@)]

(* Behind one more element, one more place has been served. *)
LEMMA TakenNext ==
  ASSUME NEW S, NEW s \in Seq(S), NEW x, NEW c
  PROVE  Taken(c, Append(s, x)) <=> Taken(c, s) \/ Joined(c, Len(s) + 1)
<1>1. DOMAIN s = 1 .. Len(s) /\ Len(s) \in Nat /\ DOMAIN Append(s, x) = 1 .. Len(s) + 1
  <2>1. DOMAIN s = 1 .. Len(s) /\ Len(s) \in Nat
    BY LenProperties
  <2>2. s \in Seq(S \cup {x}) /\ x \in S \cup {x}
    BY SeqOver
  <2>3. Append(s, x) \in Seq(S \cup {x}) /\ Len(Append(s, x)) = Len(s) + 1
    BY <2>2, AppendProperties
  <2> QED
    BY <2>1, <2>3, LenProperties
<1>2. \A i : i \in 1 .. Len(s) + 1 <=> i \in 1 .. Len(s) \/ i = Len(s) + 1
  BY <1>1
<1> QED
  BY <1>1, <1>2 DEF Taken

(* One connection has one place. *)
LEMMA PlaceHasOne ==
  ASSUME NEW c, NEW d, NEW i, Joined(c, i), Joined(d, i)
  PROVE  c = d
<1>1. \A x, y : <<x, "server">> = <<y, "server">> => x = y
  OBVIOUS
<1> QED
  BY <1>1 DEF Joined

(* What comes at the place k of a server. *)
LEMMA ReceivesAt ==
  ASSUME ProtocolInv, NEW p \in Process, pc[p] \in Serving, NEW k \in 1 .. NClients(p)
  PROVE  LET e == sockets[p][k] IN
         /\ Gets(e) => /\ p = listener
                       /\ \E q \in Process : /\ e = <<<<q, 0>>, "server">> /\ Joined(<<q, 0>>, k)
                                             /\ inbox[e] = Word(q) /\ Word(q) # <<>>
         /\ GetsNothing(e) /\ p = listener =>
              \E c \in Conn : Joined(c, k) /\ c[1] \in exited /\ inbox[<<c, "server">>] = <<>>
<1> DEFINE e == sockets[p][k]
<1>1. \/ p # listener /\ e = NoSocket
      \/ \E c \in Conn : /\ p = listener /\ e = <<c, "server">> /\ e # NoSocket /\ Joined(c, k)
                         /\ PeerOf(e) = c[1] /\ c[1] \in Process /\ p \notin exited
  BY SlotIs
<1>2. WordsOK
  BY InvParts
<1> HIDE DEF e
<1>3. ASSUME Gets(e)
      PROVE  /\ p = listener
             /\ \E q \in Process : /\ e = <<<<q, 0>>, "server">> /\ Joined(<<q, 0>>, k)
                                   /\ inbox[e] = Word(q) /\ Word(q) # <<>>
  <2>1. e # NoSocket /\ inbox[e] # <<>>
    BY <1>3 DEF Gets
  <2>2. PICK c \in Conn : /\ p = listener /\ e = <<c, "server">> /\ Joined(c, k)
                          /\ c[1] \in Process /\ p \notin exited
    BY <1>1, <2>1
  <2>3. c = <<c[1], 0>>
    <3>1. c[2] = 0
      BY <1>2, <2>1, <2>2 DEF WordsOK
    <3>2. c = <<c[1], c[2]>>
      BY DEF Conn
    <3> QED
      BY <3>1, <3>2
  <2>4. inbox[<<<<c[1], 0>>, "server">>] = Word(c[1])
    BY <1>2, <2>2 DEF WordsOK
  <2> QED
    BY <2>1, <2>2, <2>3, <2>4
<1>4. ASSUME GetsNothing(e), p = listener
      PROVE  \E c \in Conn : Joined(c, k) /\ c[1] \in exited /\ inbox[<<c, "server">>] = <<>>
  BY <1>1, <1>4 DEF GetsNothing, Gets, Closed
<1> QED
  BY <1>3, <1>4 DEF e

(* What is on its way to the server, when it has served one more place. *)
LEMMA WordsTaken ==
  ASSUME ProtocolInv, NEW p \in Process, ReceiveSizes(p) \/ ReceiveSet(p), NEW k, Takes(p, k),
         \A r \in Process : \/ p = listener /\ Joined(<<r, 0>>, k)
                            \/ /\ Taken(<<r, 0>>, neles[listener])' <=> Taken(<<r, 0>>, neles[listener])
                               /\ Taken(<<r, 0>>, csets[listener])' <=> Taken(<<r, 0>>, csets[listener]),
         p = listener => ~ \E r \in Process : Joined(<<r, 0>>, k) /\ Taken(<<r, 0>>, csets[listener]),
         \A r \in Process : p = listener /\ Joined(<<r, 0>>, k) /\ Word(r) # <<>> => Word(r)' = Tail(Word(r))
  PROVE  WordsOK'
<1>1. /\ UNCHANGED <<elements, perm, sent>> /\ pc[p] # "masks" /\ pc'[p] # "masks"
      /\ UNCHANGED <<setup, parse, sockets, listener>> /\ Step(p) /\ DOMAIN inbox = End
  <2>1. UNCHANGED <<elements, perm, sent>> /\ DOMAIN pc = Process
    BY ServerKeeps, LateFrame
  <2>2. pc[p] # "masks" /\ \E l : l # "masks" /\ pc' = [pc EXCEPT ![p] = l]
    BY DEF ReceiveSizes, ReceiveSet, Goto, GoesOn, Dies, Exit
  <2> QED
    BY <2>1, <2>2, LateFrame
<1>2. WordsOK /\ NInv /\ Ends /\ SlotsInOrder /\ Domains
  BY InvParts
<1>3. ASSUME NEW r \in Process
      PROVE  Size(r)' = Size(r) /\ Masks(r)' = Masks(r) /\ (pc'[r] = "masks" <=> pc[r] = "masks")
  <2>1. Size(r)' = Size(r) /\ Masks(r)' = Masks(r)
    BY <1>1, SenderIs
  <2>2. r # p => pc'[r] = pc[r]
    BY <1>1, <1>2, StepIsOwn DEF Alone
  <2> QED
    BY <1>1, <2>1, <2>2
<1>4. ASSUME NEW r \in Process,
             Taken(<<r, 0>>, neles[listener])' <=> Taken(<<r, 0>>, neles[listener]),
             Taken(<<r, 0>>, csets[listener])' <=> Taken(<<r, 0>>, csets[listener])
      PROVE  Word(r)' = Word(r)
  BY <1>1, <1>3, <1>4 DEF Word
<1>5. ASSUME NEW r \in Process, r \in exited, Word(r) = <<>>, p = listener, Joined(<<r, 0>>, k)
      PROVE  Word(r)' = <<>>
  <2>1. r \notin sent
    <3>1. ~ Taken(<<r, 0>>, csets[listener])
      BY <1>5
    <3>2. \A x, y : <<x>> # <<>> /\ <<x, y>> # <<>>
      OBVIOUS
    <3> QED
      BY <1>5, <3>1, <3>2 DEF Word
  <2>2. pc[r] # "masks"
    BY <1>2, <1>5 DEF Ends, Ended
  <2> QED
    BY <1>1, <1>3, <2>1, <2>2 DEF Word
<1>6. listener \notin exited' => listener \notin exited
  BY <1>1, <1>2, EndsKept
<1>7. CASE inbox' = inbox
  <2>1. ASSUME listener \notin exited', NEW r \in Process PROVE inbox[<<<<r, 0>>, "server">>] = Word(r)'
    <3>1. inbox[<<<<r, 0>>, "server">>] = Word(r)
      BY <1>2, <1>6, <2>1 DEF WordsOK
    <3>2. CASE p = listener /\ Joined(<<r, 0>>, k)
      <4>1. CASE \E c \in Conn : Joined(c, k) /\ c[1] \in exited /\ inbox[<<c, "server">>] = <<>>
        <5>1. PICK c \in Conn : Joined(c, k) /\ c[1] \in exited /\ inbox[<<c, "server">>] = <<>>
          BY <4>1
        <5>2. c = <<r, 0>>
          BY <3>2, <5>1, PlaceHasOne
        <5> QED
          BY <1>5, <3>1, <3>2, <5>1, <5>2
      <4>2. CASE \E q \in Process : LET e == <<<<q, 0>>, "server">> IN
                   /\ Joined(<<q, 0>>, k) /\ inbox[e] = Word(q) /\ Word(q) # <<>>
                   /\ inbox' = [inbox EXCEPT ![e] = Tail(@)]
        <5>1. PICK q \in Process : LET e == <<<<q, 0>>, "server">> IN
                /\ Joined(<<q, 0>>, k) /\ inbox[e] = Word(q) /\ Word(q) # <<>>
                /\ inbox' = [inbox EXCEPT ![e] = Tail(@)]
          BY <4>2
        <5>2. <<q, 0>> = <<r, 0>>
          BY <3>2, <5>1, PlaceHasOne
        <5>3. <<<<r, 0>>, "server">> \in End
          BY ConnectionOK DEF End, Conn
        <5>4. q = r
          BY <5>2
        <5>5. inbox'[<<<<r, 0>>, "server">>] = Tail(Word(r))
          BY <1>1, <5>1, <5>3, <5>4
        <5> QED
          BY <1>7, <3>2, <5>1, <5>4, <5>5
      <4> QED
        BY <2>1, <3>2, <4>1, <4>2 DEF Takes
    <3>3. CASE ~ (p = listener /\ Joined(<<r, 0>>, k))
      BY <1>4, <3>1, <3>3
    <3> QED
      BY <3>2, <3>3
  <2> QED
    BY <1>1, <1>2, <1>7, <2>1 DEF WordsOK, Conn
<1>8. CASE inbox' # inbox
  <2>1. PICK q \in Process : LET e == <<<<q, 0>>, "server">> IN
          /\ Joined(<<q, 0>>, k) /\ inbox[e] = Word(q) /\ Word(q) # <<>>
          /\ inbox' = [inbox EXCEPT ![e] = Tail(@)] /\ p = listener
    BY <1>8 DEF Takes
  <2> DEFINE e == <<<<q, 0>>, "server">>
  <2>2. e \in End /\ inbox'[e] = Tail(Word(q)) /\ \A c \in Conn : <<c, "server">> # e =>
          inbox'[<<c, "server">>] = inbox[<<c, "server">>]
    <3>1. e \in End
      BY ConnectionOK DEF End, Conn
    <3>2. \A c \in Conn : <<c, "server">> \in End
      BY DEF End
    <3> HIDE DEF e
    <3> QED
      BY <1>1, <2>1, <3>1, <3>2 DEF e
  <2>3. <<q, 0>> \in Conn
    BY ConnectionOK DEF Conn
  <2>4. ASSUME listener \notin exited', NEW r \in Process PROVE inbox'[<<<<r, 0>>, "server">>] = Word(r)'
    <3>1. CASE r = q
      BY <2>1, <2>2, <3>1
    <3>2. CASE r # q
      <4>1. <<r, 0>> # <<q, 0>> /\ <<<<r, 0>>, "server">> # e
        BY <3>2
      <4>2. ~ Joined(<<r, 0>>, k)
        BY <2>1, <4>1, PlaceHasOne
      <4>3. inbox[<<<<r, 0>>, "server">>] = Word(r)
        BY <1>2, <1>6, <2>4 DEF WordsOK
      <4>4. <<r, 0>> \in Conn
        BY ConnectionOK DEF Conn
      <4> QED
        BY <1>4, <2>2, <4>1, <4>2, <4>3, <4>4
    <3> QED
      BY <3>1, <3>2
  <2>5. ASSUME NEW c \in Conn
        PROVE  inbox'[<<c, "server">>] \in Seq(Words) /\ (c[2] # 0 => inbox'[<<c, "server">>] = <<>>)
    <3>1. inbox[<<c, "server">>] \in Seq(Words) /\ (c[2] # 0 => inbox[<<c, "server">>] = <<>>)
      BY <1>2 DEF WordsOK
    <3>2. CASE <<c, "server">> = e
      <4>1. c = <<q, 0>> /\ c[2] = 0
        BY <3>2
      <4>2. Tail(inbox[e]) \in Seq(Words)
        BY <2>1, <3>1, <3>2, HeadTailProperties
      <4> QED
        BY <2>1, <2>2, <3>2, <4>1, <4>2
    <3>3. CASE <<c, "server">> # e
      BY <2>2, <3>1, <3>3
    <3> QED
      BY <3>2, <3>3
  <2> QED
    BY <1>1, <2>4, <2>5 DEF WordsOK, Conn
<1> QED
  BY <1>7, <1>8

(* The inbox of a client is none that the server reads. *)
LEMMA ClientsUntouched ==
  ASSUME ProtocolInv, NEW p, NEW k, Takes(p, k), DOMAIN inbox = End
  PROVE  \A c \in Conn : inbox'[<<c, "client">>] = inbox[<<c, "client">>]
<1> SUFFICES ASSUME NEW c \in Conn PROVE inbox'[<<c, "client">>] = inbox[<<c, "client">>]
  OBVIOUS
<1>1. \A d : <<d, "server">> # <<c, "client">>
  BY "client" # "server"
<1>2. <<c, "client">> \in DOMAIN inbox
  BY DEF End
<1>3. \A d, x : [inbox EXCEPT ![<<d, "server">>] = x][<<c, "client">>] = inbox[<<c, "client">>]
  BY <1>1, <1>2
<1>4. inbox' = inbox \/ \E d, x : inbox' = [inbox EXCEPT ![<<d, "server">>] = x]
  BY DEF Takes
<1> QED
  BY <1>3, <1>4

(* The sizes: one is added, and the server goes on or dies, or it dies right away. *)
LEMMA ReceiveSizesIs ==
  ASSUME ProtocolInv, NEW p \in Process, ReceiveSizes(p)
  PROVE  LET k == Len(neles[p]) + 1 IN
         /\ k \in 1 .. NClients(p)
         /\ \/ UNCHANGED <<neles, inbox>> /\ pc' = [pc EXCEPT ![p] = "aborted"]
            \/ /\ \E n \in Nat : neles' = [neles EXCEPT ![p] = Append(@, n)]
               /\ Takes(p, k)
               /\ \/ pc' = [pc EXCEPT ![p] = "aborted"]
                  \/ pc' = [pc EXCEPT ![p] = IF k = NClients(p) THEN "sets" ELSE "sizes"]
<1> DEFINE k == Len(neles[p]) + 1
           e == sockets[p][k]
           After == IF k = NClients(p) THEN "sets" ELSE "sizes"
<1>1. /\ ServerOK(p) /\ pc[p] = "sizes" /\ NClients(p) \in 0 .. 2 /\ WordsOK /\ Ends
  BY InvParts, ServerKeeps DEF ReceiveSizes
<1>2. k \in 1 .. NClients(p) /\ pc[p] \in Serving
  <2>1. Len(neles[p]) \in Nat /\ Len(neles[p]) < NClients(p)
    BY <1>1, LenProperties DEF ServerOK
  <2> QED
    BY <1>1, <2>1 DEF Serving
<1>3. /\ Gets(e) => /\ p = listener
                    /\ \E q \in Process : /\ e = <<<<q, 0>>, "server">> /\ Joined(<<q, 0>>, k)
                                          /\ inbox[e] = Word(q) /\ Word(q) # <<>>
      /\ GetsNothing(e) /\ p = listener =>
           \E c \in Conn : Joined(c, k) /\ c[1] \in exited /\ inbox[<<c, "server">>] = <<>>
  BY <1>2, ReceivesAt
<1>4. \/ /\ Gets(e)
         /\ neles' = [neles EXCEPT ![p] = Append(@, Head(inbox[e])[2])]
         /\ \/ pc' = [pc EXCEPT ![p] = After] /\ inbox' = [inbox EXCEPT ![e] = Tail(@)]
            \/ Dies(p)
      \/ /\ GetsNothing(e) /\ inbox' = inbox
         /\ \E n \in {0, 1} : neles' = [neles EXCEPT ![p] = Append(@, n)]
         /\ pc' = [pc EXCEPT ![p] = After]
      \/ Dies(p) /\ neles' = neles
  BY DEF ReceiveSizes, Took, Goto, GoesOn, netVars
<1>5. Dies(p) => pc' = [pc EXCEPT ![p] = "aborted"] /\ inbox' = inbox /\ p \in exited'
  BY DEF Dies, Exit, Goto
<1> HIDE DEF k, e, After
<1>6. CASE Gets(e) /\ neles' = [neles EXCEPT ![p] = Append(@, Head(inbox[e])[2])]
  <2>1. PICK q \in Process : /\ e = <<<<q, 0>>, "server">> /\ Joined(<<q, 0>>, k)
                             /\ inbox[e] = Word(q) /\ Word(q) # <<>>
    BY <1>3, <1>6
  <2>2. Head(inbox[e])[2] \in Nat
    <3>1. ~ Taken(<<q, 0>>, csets[listener])
      <4>1. csets[listener] = <<>>
        BY <1>1, <1>3, <1>6 DEF ServerOK
      <4> QED
        BY <4>1 DEF Taken
    <3>2. ~ Taken(<<q, 0>>, neles[listener])
      <4> SUFFICES ASSUME NEW i \in DOMAIN neles[p], Joined(<<q, 0>>, i) PROVE FALSE
        BY <1>3, <1>6 DEF Taken
      <4>1. i = k
        BY <1>3, <1>6, <2>1, InvParts, JoinedOnce
      <4>2. i <= Len(neles[p]) /\ Len(neles[p]) \in Nat
        BY <1>1, LenProperties DEF ServerOK
      <4> QED
        BY <4>1, <4>2 DEF k
    <3>3. Size(q) \in Nat
      BY InvParts, LenProperties DEF ClientOK, Size
    <3>4. \A x, y : Head(<<x>>) = x /\ Head(<<x, y>>) = x
      OBVIOUS
    <3>5. \A x, y : <<x, y>>[2] = y
      OBVIOUS
    <3>6. Head(inbox[e]) = <<"sizes", Size(q)>>
      BY <2>1, <3>1, <3>2, <3>4 DEF Word
    <3> QED
      BY <3>3, <3>5, <3>6
  <2>3. Takes(p, k)
    <3>1. (inbox' = inbox /\ p \in exited') \/ inbox' = [inbox EXCEPT ![e] = Tail(@)]
      <4>1. ~ GetsNothing(e)
        BY <1>6 DEF GetsNothing
      <4> QED
        BY <1>4, <1>5, <4>1
    <3> QED
      BY <1>3, <1>6, <2>1, <3>1 DEF Takes
  <2>4. pc' = [pc EXCEPT ![p] = "aborted"] \/ pc' = [pc EXCEPT ![p] = After]
    BY <1>4, <1>5
  <2> QED
    BY <1>2, <1>6, <2>2, <2>3, <2>4 DEF k, After
<1>7. CASE /\ GetsNothing(e) /\ inbox' = inbox
           /\ \E n \in {0, 1} : neles' = [neles EXCEPT ![p] = Append(@, n)]
           /\ pc' = [pc EXCEPT ![p] = After]
  <2>1. Takes(p, k)
    BY <1>3, <1>7 DEF Takes
  <2>2. \E n \in Nat : neles' = [neles EXCEPT ![p] = Append(@, n)]
    BY <1>7
  <2> QED
    BY <1>2, <1>7, <2>1, <2>2 DEF k, After
<1>8. CASE Dies(p) /\ neles' = neles
  BY <1>2, <1>5, <1>8 DEF k
<1> QED
  BY <1>4, <1>6, <1>7, <1>8

(* The server takes a size, or gets none because the client is gone. *)
LEMMA ReceiveSizesStep ==
  ASSUME ProtocolInv, NEW p \in Process, ReceiveSizes(p)
  PROVE  ProtocolInv'
<1> DEFINE k == Len(neles[p]) + 1
<1>1. /\ ServerOK(p) /\ pc[p] = "sizes" /\ NClients(p) \in 0 .. 2 /\ WordsOK /\ Ends /\ WaitOK
  BY InvParts, ServerKeeps DEF ReceiveSizes
<1>2. /\ Step(p) /\ UNCHANGED <<setup, parse, sockets, listener>> /\ DOMAIN pc = Process
      /\ NClients(p)' = NClients(p) /\ DOMAIN neles = Process /\ DOMAIN inbox = End /\ p \notin exited
      /\ \A c, i : Joined(c, i)' <=> Joined(c, i)
  BY LateFrame
<1>3. UNCHANGED <<csets, found, answered, sent, told>>
  BY DEF ReceiveSizes, clientVars
<1>4. ~ ReceiveAnswer(p) /\ pc[p] # "masks"
  BY <1>1 DEF ReceiveAnswer
<1>5. /\ Len(neles[p]) \in Nat /\ neles[p] \in Seq(Nat) /\ csets[p] = <<>> /\ Len(csets[p]) = 0
      /\ found[p] = {} /\ answered[p] = 0 /\ k \in Nat
  <2>1. neles[p] \in Seq(Nat) /\ csets[p] = <<>> /\ found[p] = {} /\ answered[p] = 0
    BY <1>1 DEF ServerOK, Ended
  <2>2. Len(neles[p]) \in Nat /\ Len(csets[p]) = 0
    BY <2>1, LenProperties
  <2> QED
    BY <2>1, <2>2
<1>6. k \in 1 .. NClients(p)
  BY ReceiveSizesIs
<1>7. CASE UNCHANGED <<neles, inbox>> /\ pc' = [pc EXCEPT ![p] = "aborted"]
  <2>1. pc'[p] = "aborted" /\ pc'[p] \in Ended /\ pc'[p] \notin Serving
    BY <1>2, <1>7 DEF Ended, Serving
  <2>2. Intersection(csets[p])' = Intersection(csets[p])
    BY <1>3, MeetStays
  <2>3. ServerOK(p)'
    BY <1>1, <1>2, <1>3, <1>7, <2>1, <2>2 DEF ServerOK, Computed, AnyMask
  <2> QED
    BY <1>2, <1>3, <1>4, <1>7, <2>1, <2>3, ServerKeeps, QuietStep DEF ProcessOK
<1>8. CASE /\ \E n \in Nat : neles' = [neles EXCEPT ![p] = Append(@, n)]
           /\ Takes(p, k)
           /\ \/ pc' = [pc EXCEPT ![p] = "aborted"]
              \/ pc' = [pc EXCEPT ![p] = IF k = NClients(p) THEN "sets" ELSE "sizes"]
  <2>1. PICK n \in Nat : neles' = [neles EXCEPT ![p] = Append(@, n)]
    BY <1>8
  <2>2. neles'[p] = Append(neles[p], n) /\ neles'[p] \in Seq(Nat) /\ Len(neles'[p]) = k
    <3>1. neles'[p] = Append(neles[p], n)
      BY <1>2, <2>1
    <3> QED
      BY <1>5, <3>1, AppendProperties
  <2>3. pc'[p] = "aborted" \/ pc'[p] = IF k = NClients(p) THEN "sets" ELSE "sizes"
    <3> HIDE DEF k
    <3> QED
      BY <1>2, <1>8
  <2>4. /\ pc'[p] \in Serving \cup Ended /\ pc'[p] \notin {"masks", "compute", "answer"}
        /\ pc'[p] = "sets" => k = NClients(p)
        /\ pc'[p] = "sizes" => k # NClients(p)
    <3> HIDE DEF k
    <3> QED
      BY <2>3 DEF Serving, Ended
  <2>5. ServerOK(p)'
    <3>1. csets'[p] \in Seq(Seq(AnyMask)) /\ AnyMask' = AnyMask
      BY <1>1, <1>3 DEF ServerOK, AnyMask
    <3>2. pc'[p] = "sizes" => k < NClients(p)
      BY <1>1, <1>6, <2>4
    <3>3. pc'[p] = "sets" => 0 < NClients(p)
      BY <1>1, <1>6
    <3> HIDE DEF k
    <3> QED
      BY <1>2, <1>3, <1>5, <2>2, <2>4, <3>1, <3>2, <3>3 DEF ServerOK
  <2>6. \A c \in Conn : inbox'[<<c, "client">>] = inbox[<<c, "client">>]
    <3> HIDE DEF k
    <3> QED
      BY <1>2, <1>8, ClientsUntouched
  <2>7. SetsOK' /\ AnswersOK'
    BY <1>2, <1>3, <2>6, SetsStay, AnswersStay
  <2>8. ToldOK'
    BY <1>2, <1>3, ToldStays
  <2>9. ASSUME NEW c
        PROVE  /\ Taken(c, csets[listener])' <=> Taken(c, csets[listener])
               /\ p # listener => (Taken(c, neles[listener])' <=> Taken(c, neles[listener]))
               /\ p = listener => (Taken(c, neles[listener])' <=>
                                     Taken(c, neles[listener]) \/ Joined(c, k))
    <3>1. Taken(c, csets[listener])' <=> Taken(c, csets[listener])
      BY <1>2, <1>3 DEF Taken
    <3>2. p # listener => neles'[listener] = neles[listener]
      BY <1>2, <2>1
    <3>3. p # listener => (Taken(c, neles[listener])' <=> Taken(c, neles[listener]))
      BY <1>2, <3>2 DEF Taken
    <3>4. Taken(c, Append(neles[p], n)) <=> Taken(c, neles[p]) \/ Joined(c, k)
      BY <1>5, TakenNext
    <3>5. p = listener => (Taken(c, neles[listener])' <=> Taken(c, Append(neles[p], n)))
      BY <1>2, <2>2 DEF Taken
    <3> QED
      BY <3>1, <3>3, <3>4, <3>5
  <2>10. WordsOK'
    <3>1. \A r \in Process : \/ p = listener /\ Joined(<<r, 0>>, k)
                             \/ /\ Taken(<<r, 0>>, neles[listener])' <=> Taken(<<r, 0>>, neles[listener])
                                /\ Taken(<<r, 0>>, csets[listener])' <=> Taken(<<r, 0>>, csets[listener])
      BY <2>9
    <3>2. p = listener => ~ \E r \in Process : Joined(<<r, 0>>, k) /\ Taken(<<r, 0>>, csets[listener])
      <4>1. \A c : ~ Taken(c, <<>>)
        BY DEF Taken
      <4> QED
        BY <1>5, <4>1
    <3>3. ASSUME NEW r \in Process, p = listener, Joined(<<r, 0>>, k), Word(r) # <<>>
          PROVE  Word(r)' = Tail(Word(r))
      <4>1. ~ Taken(<<r, 0>>, csets[listener])
        BY <3>2, <3>3
      <4>2. ~ Taken(<<r, 0>>, neles[listener])
        <5> SUFFICES ASSUME NEW i \in DOMAIN neles[p], Joined(<<r, 0>>, i) PROVE FALSE
          BY <3>3 DEF Taken
        <5>1. i = k
          BY <3>3, InvParts, JoinedOnce
        <5>2. i <= Len(neles[p])
          BY <1>5, LenProperties
        <5> QED
          BY <1>5, <5>1, <5>2
      <4>3. Taken(<<r, 0>>, neles[listener])' /\ ~ Taken(<<r, 0>>, csets[listener])'
        BY <2>9, <3>3, <4>1
      <4>4. Masks(r)' = Masks(r) /\ (r \in sent' <=> r \in sent)
        BY <1>2, <1>3, ServerKeeps, SenderIs
      <4>5. \A x, y : Tail(<<x>>) = <<>> /\ Tail(<<x, y>>) = <<y>>
        OBVIOUS
      <4>6. CASE r \in sent
        <5>1. Word(r)' = <<<<"set", Masks(r)>>>>
          BY <4>3, <4>4, <4>6 DEF Word
        <5>2. Word(r) = <<<<"sizes", Size(r)>>, <<"set", Masks(r)>>>>
          BY <4>1, <4>2, <4>6 DEF Word
        <5> QED
          BY <4>5, <5>1, <5>2
      <4>7. CASE r \notin sent
        <5>1. Word(r)' = <<>>
          BY <4>3, <4>4, <4>7 DEF Word
        <5>2. Word(r) = <<<<"sizes", Size(r)>>>>
          BY <3>3, <4>1, <4>2, <4>7 DEF Word
        <5> QED
          BY <4>5, <5>1, <5>2
      <4> QED
        BY <4>6, <4>7
    <3> HIDE DEF k
    <3> QED
      BY <1>8, <3>1, <3>2, <3>3, WordsTaken
  <2>11. WaitOK'
    <3>1. exited \subseteq exited'
      BY <1>2, InvParts, EndsKept
    <3>2. \A q \in Process \ {p} : q \in exited' <=> q \in exited
      BY <1>2, InvParts, EndsKept
    <3>3. p \notin sent
      BY ServerKeeps
    <3>4. ASSUME NEW q \in sent', q \in exited' PROVE q \in told' \/ listener' \in exited'
      <4>1. q \in sent /\ q \in exited
        BY <1>3, <3>2, <3>3, <3>4, InvParts DEF NetOK
      <4> QED
        BY <1>1, <1>2, <1>3, <3>1, <4>1 DEF WaitOK
    <3>5. ASSUME listener' \in Process \ exited', NEW q \in Process, Taken(<<q, 0>>, neles[listener])'
          PROVE  q \in sent' \cup exited' \/ pc'[q] = "masks"
      <4>1. listener \in Process \ exited
        BY <1>2, <3>1, <3>5
      <4>2. q # p => pc'[q] = pc[q]
        BY <1>2, InvParts, StepIsOwn DEF Alone
      <4>3. q \in sent \cup exited \/ pc[q] = "masks"
        <5>1. CASE Taken(<<q, 0>>, neles[listener])
          BY <1>1, <4>1, <5>1 DEF WaitOK
        <5>2. CASE ~ Taken(<<q, 0>>, neles[listener])
          <6>1. p = listener /\ Joined(<<q, 0>>, k)
            BY <2>9, <3>5, <5>2
          <6>2. p \notin exited'
            BY <1>2, <3>5, <6>1
          <6>3. CASE \E c \in Conn : Joined(c, k) /\ c[1] \in exited /\ inbox[<<c, "server">>] = <<>>
            <7>1. PICK c \in Conn : Joined(c, k) /\ c[1] \in exited
              BY <6>3
            <7>2. c = <<q, 0>>
              BY <6>1, <7>1, PlaceHasOne
            <7> QED
              BY <7>1, <7>2
          <6>4. CASE \E r \in Process : Joined(<<r, 0>>, k) /\ Word(r) # <<>>
            <7>1. PICK r \in Process : Joined(<<r, 0>>, k) /\ Word(r) # <<>>
              BY <6>4
            <7>2. <<r, 0>> = <<q, 0>>
              BY <6>1, <7>1, PlaceHasOne
            <7>3. Word(q) # <<>>
              BY <7>1, <7>2
            <7> QED
              BY <7>3 DEF Word
          <6>5. Takes(p, k)
            BY <1>8
          <6> HIDE DEF k
          <6> QED
            BY <6>1, <6>2, <6>3, <6>4, <6>5 DEF Takes
        <5> QED
          BY <5>1, <5>2
      <4> QED
        BY <1>1, <1>3, <3>1, <4>2, <4>3
    <3> QED
      BY <3>4, <3>5 DEF WaitOK
  <2> QED
    BY <1>2, <2>4, <2>5, <2>7, <2>8, <2>10, <2>11, ServerKeeps, StepKeeps DEF ProcessOK
<1> HIDE DEF k
<1> QED
  BY <1>7, <1>8, ReceiveSizesIs DEF k

(* The sets: one is added, with the masks of a client or, when it is gone, with others. *)
LEMMA ReceiveSetIs ==
  ASSUME ProtocolInv, NEW p \in Process, ReceiveSet(p)
  PROVE  LET k == Len(csets[p]) + 1 IN
         /\ k \in 1 .. NClients(p) /\ Takes(p, k)
         /\ pc' = [pc EXCEPT ![p] = IF k = NClients(p) THEN "compute" ELSE "sets"]
         /\ \E x \in Seq(AnyMask) :
              /\ csets' = [csets EXCEPT ![p] = Append(@, x)]
              /\ p = listener => \A c \in Conn : Joined(c, k) =>
                   IF c[1] \in sent THEN c[2] = 0 /\ x = Masks(c[1]) ELSE c[1] \in exited
<1> DEFINE k == Len(csets[p]) + 1
           e == sockets[p][k]
           After == IF k = NClients(p) THEN "compute" ELSE "sets"
           junk == [j \in 1 .. neles[p][k] |-> Junk]
<1>1. /\ ServerOK(p) /\ pc[p] = "sets" /\ NClients(p) \in 0 .. 2 /\ WordsOK /\ WaitOK /\ ToldOK /\ Ends
  BY InvParts, ServerKeeps DEF ReceiveSet
<1>2. k \in 1 .. NClients(p) /\ pc[p] \in Serving /\ Len(neles[p]) = NClients(p) /\ neles[p] \in Seq(Nat)
  <2>1. Len(csets[p]) \in Nat /\ Len(csets[p]) < NClients(p)
    BY <1>1, LenProperties DEF ServerOK
  <2> QED
    BY <1>1, <2>1 DEF Serving, ServerOK
<1>3. /\ Gets(e) => /\ p = listener
                    /\ \E q \in Process : /\ e = <<<<q, 0>>, "server">> /\ Joined(<<q, 0>>, k)
                                          /\ inbox[e] = Word(q) /\ Word(q) # <<>>
      /\ GetsNothing(e) /\ p = listener =>
           \E c \in Conn : Joined(c, k) /\ c[1] \in exited /\ inbox[<<c, "server">>] = <<>>
  BY <1>2, ReceivesAt
<1>4. /\ pc' = [pc EXCEPT ![p] = After]
      /\ \/ /\ Gets(e)
            /\ csets' = [csets EXCEPT ![p] = Append(@, Head(inbox[e])[2])]
            /\ inbox' = [inbox EXCEPT ![e] = Tail(@)]
         \/ /\ GetsNothing(e) /\ inbox' = inbox
            /\ csets' = [csets EXCEPT ![p] = Append(@, junk)]
  BY DEF ReceiveSet, Took, Goto, GoesOn, netVars
<1> HIDE DEF k, e, After, junk
<1>5. CASE /\ Gets(e)
           /\ csets' = [csets EXCEPT ![p] = Append(@, Head(inbox[e])[2])]
           /\ inbox' = [inbox EXCEPT ![e] = Tail(@)]
  <2>1. PICK q \in Process : /\ e = <<<<q, 0>>, "server">> /\ Joined(<<q, 0>>, k)
                             /\ inbox[e] = Word(q) /\ Word(q) # <<>>
    BY <1>3, <1>5
  <2>2. p = listener
    BY <1>3, <1>5
  <2>3. Takes(p, k)
    BY <1>5, <2>1, <2>2 DEF Takes
  <2>4. Head(inbox[e]) = <<"set", Masks(q)>> /\ q \in sent
    <3>1. ~ Taken(<<q, 0>>, csets[listener])
      <4> SUFFICES ASSUME NEW i \in DOMAIN csets[p], Joined(<<q, 0>>, i) PROVE FALSE
        BY <2>2 DEF Taken
      <4>1. i = k
        BY <2>1, <2>2, InvParts, JoinedOnce
      <4>2. i <= Len(csets[p]) /\ Len(csets[p]) \in Nat
        BY <1>1, LenProperties DEF ServerOK
      <4> QED
        BY <4>1, <4>2 DEF k
    <3>2. Taken(<<q, 0>>, neles[listener])
      <4>1. k \in DOMAIN neles[p]
        <5>1. DOMAIN neles[p] = 1 .. NClients(p)
          BY <1>2, LenProperties
        <5> QED
          BY <1>2, <5>1
      <4> QED
        BY <2>1, <2>2, <4>1 DEF Taken
    <3>3. \A x : Head(<<x>>) = x
      OBVIOUS
    <3>4. q \in sent
      BY <2>1, <3>2 DEF Word
    <3>5. Word(q) = <<<<"set", Masks(q)>>>>
      BY <3>1, <3>2, <3>4 DEF Word
    <3> QED
      BY <2>1, <3>3, <3>4, <3>5
  <2>5. csets' = [csets EXCEPT ![p] = Append(@, Masks(q))]
    <3>1. Head(inbox[e])[2] = Masks(q)
      BY <2>4
    <3> QED
      BY <1>5, <3>1
  <2>6. Masks(q) \in Seq(AnyMask)
    <3>1. ClientOK(q) /\ (IsBench(q) => NTasks(q) \in Nat \ {0})
      BY InvParts, NumbersAre
    <3>2. Masks(q) \in Seq(Range(Mask))
      BY <2>4, <3>1, MasksAre DEF ClientOK
    <3> QED
      BY <3>2, SeqOver DEF AnyMask
  <2>7. \A c \in Conn : Joined(c, k) => c = <<q, 0>>
    BY <2>1, PlaceHasOne
  <2>8. \A c \in Conn : Joined(c, k) => c[1] \in sent /\ c[2] = 0 /\ Masks(c[1]) = Masks(q)
    BY <2>4, <2>7
  <2> QED
    BY <1>2, <1>4, <2>3, <2>5, <2>6, <2>8 DEF k, After
<1>6. CASE /\ GetsNothing(e) /\ inbox' = inbox
           /\ csets' = [csets EXCEPT ![p] = Append(@, junk)]
  <2>1. Takes(p, k)
    BY <1>3, <1>6 DEF Takes
  <2>2. junk \in Seq(AnyMask)
    <3>1. neles[p][k] \in Nat
      BY <1>2, ElementOfSeq
    <3>2. Junk \in AnyMask
      BY DEF AnyMask
    <3> QED
      BY <3>1, <3>2 DEF junk
  <2>3. ASSUME p = listener, NEW c \in Conn, Joined(c, k) PROVE c[1] \notin sent /\ c[1] \in exited
    <3>1. PICK d \in Conn : Joined(d, k) /\ d[1] \in exited
      BY <1>3, <1>6, <2>3
    <3>2. c[1] \in exited
      BY <2>3, <3>1, PlaceHasOne
    <3>3. p \notin exited
      BY LateFrame
    <3>4. ASSUME c[1] \in sent PROVE FALSE
      <4>1. c[1] \in told
        BY <1>1, <2>3, <3>2, <3>3, <3>4 DEF WaitOK
      <4>2. \E i : i \in 1 .. answered[p]
        BY <1>1, <2>3, <4>1 DEF ToldOK
      <4>3. answered[p] = 0
        BY <1>1 DEF ServerOK, Ended
      <4> QED
        BY <4>2, <4>3
    <3> QED
      BY <3>2, <3>4
  <2> QED
    BY <1>2, <1>4, <1>6, <2>1, <2>2, <2>3 DEF k, After
<1> QED
  BY <1>4, <1>5, <1>6

(* The server takes the masks that the client of the place has sent, or others for one that
   is gone and never sent its own. *)
LEMMA ReceiveSetStep ==
  ASSUME ProtocolInv, NEW p \in Process, ReceiveSet(p)
  PROVE  ProtocolInv'
<1> DEFINE k == Len(csets[p]) + 1
<1>1. /\ ServerOK(p) /\ pc[p] = "sets" /\ NClients(p) \in 0 .. 2 /\ SetsOK /\ Ends
  BY InvParts, ServerKeeps DEF ReceiveSet
<1>2. /\ Step(p) /\ UNCHANGED <<setup, parse, sockets, listener>> /\ DOMAIN pc = Process
      /\ NClients(p)' = NClients(p) /\ DOMAIN csets = Process /\ DOMAIN inbox = End /\ p \notin exited
      /\ \A c, i : Joined(c, i)' <=> Joined(c, i)
  BY LateFrame
<1>3. UNCHANGED <<neles, found, answered, sent, told, elements, perm>>
  BY DEF ReceiveSet, clientVars
<1>4. ~ ReceiveAnswer(p) /\ pc[p] # "masks"
  BY <1>1 DEF ReceiveAnswer
<1>5. /\ Len(csets[p]) \in Nat /\ csets[p] \in Seq(Seq(AnyMask)) /\ neles[p] \in Seq(Nat)
      /\ Len(neles[p]) = NClients(p) /\ found[p] = {} /\ answered[p] = 0 /\ k \in Nat
  <2>1. /\ csets[p] \in Seq(Seq(AnyMask)) /\ found[p] = {} /\ answered[p] = 0
        /\ neles[p] \in Seq(Nat) /\ Len(neles[p]) = NClients(p)
    BY <1>1 DEF ServerOK, Ended
  <2>2. Len(csets[p]) \in Nat
    BY <2>1, LenProperties
  <2> QED
    BY <2>1, <2>2
<1>6. /\ k \in 1 .. NClients(p) /\ Takes(p, k)
      /\ pc' = [pc EXCEPT ![p] = IF k = NClients(p) THEN "compute" ELSE "sets"]
  BY ReceiveSetIs
<1>7. PICK x \in Seq(AnyMask) :
        /\ csets' = [csets EXCEPT ![p] = Append(@, x)]
        /\ p = listener => \A c \in Conn : Joined(c, k) =>
             IF c[1] \in sent THEN c[2] = 0 /\ x = Masks(c[1]) ELSE c[1] \in exited
  BY ReceiveSetIs
<1>8. /\ csets'[p] = Append(csets[p], x) /\ csets'[p] \in Seq(Seq(AnyMask)) /\ Len(csets'[p]) = k
      /\ csets'[p][k] = x /\ \A i \in DOMAIN csets[p] : csets'[p][i] = csets[p][i]
      /\ \A i \in DOMAIN csets'[p] : i \in DOMAIN csets[p] \/ i = k
  <2>1. csets'[p] = Append(csets[p], x)
    BY <1>2, <1>7
  <2>2. /\ Append(csets[p], x) \in Seq(Seq(AnyMask)) /\ Len(Append(csets[p], x)) = Len(csets[p]) + 1
        /\ \A i \in 1 .. Len(csets[p]) : Append(csets[p], x)[i] = csets[p][i]
        /\ Append(csets[p], x)[Len(csets[p]) + 1] = x
    BY <1>5, AppendProperties
  <2>3. DOMAIN csets[p] = 1 .. Len(csets[p])
    BY <1>5, LenProperties
  <2>4. DOMAIN Append(csets[p], x) = 1 .. Len(csets[p]) + 1
    BY <2>2, LenProperties
  <2>5. \A i \in 1 .. Len(csets[p]) + 1 : i \in 1 .. Len(csets[p]) \/ i = Len(csets[p]) + 1
    BY <1>5
  <2> QED
    BY <2>1, <2>2, <2>3, <2>4, <2>5
<1> HIDE DEF k
<1>9. /\ pc'[p] = IF k = NClients(p) THEN "compute" ELSE "sets"
  BY <1>2, <1>6
<1>10. /\ pc'[p] \in Serving \cup Ended /\ pc'[p] \notin {"masks", "sizes", "answer"} \cup Ended
       /\ pc'[p] = "sets" => k # NClients(p)
       /\ pc'[p] = "compute" => k = NClients(p)
  BY <1>9 DEF Serving, Ended
<1>11. ServerOK(p)'
  <2>1. AnyMask' = AnyMask
    BY DEF AnyMask
  <2>2. pc'[p] = "sets" => k < NClients(p)
    BY <1>1, <1>6, <1>10
  <2>3. k <= NClients(p)
    BY <1>1, <1>6
  <2> QED
    BY <1>2, <1>3, <1>5, <1>8, <1>10, <2>1, <2>2, <2>3 DEF ServerOK
<1>12. \A c \in Conn : inbox'[<<c, "client">>] = inbox[<<c, "client">>]
  BY <1>2, <1>6, ClientsUntouched
<1>13. AnswersOK' /\ ToldOK' /\ WaitOK'
  BY <1>2, <1>3, <1>4, <1>12, AnswersStay, ToldStays, WaitStays
<1>14. SetsOK'
  <2> SUFFICES ASSUME listener \in Process, NEW i \in DOMAIN csets'[listener], NEW c \in Conn,
                      Joined(c, i)
               PROVE  IF c[1] \in sent THEN c[2] = 0 /\ csets'[listener][i] = Masks(c[1])
                      ELSE c[1] \in exited'
    <3>1. \A q : Masks(q)' = Masks(q)
      BY <1>2, <1>3, SenderIs
    <3> QED
      BY <1>2, <1>3, <3>1 DEF SetsOK, Conn
  <2>1. exited \subseteq exited'
    BY <1>2, InvParts, EndsKept
  <2>2. CASE i \in DOMAIN csets[listener]
    <3>1. csets'[listener][i] = csets[listener][i]
      <4>1. CASE listener = p
        BY <1>8, <2>2, <4>1
      <4>2. CASE listener # p
        BY <1>2, <1>7, <4>2
      <4> QED
        BY <4>1, <4>2
    <3> QED
      BY <1>1, <2>1, <2>2, <3>1 DEF SetsOK
  <2>3. CASE i \notin DOMAIN csets[listener]
    <3>1. p = listener
      BY <1>2, <1>7, <2>3
    <3>2. i = k /\ csets'[listener][i] = x
      BY <1>8, <2>3, <3>1
    <3> QED
      BY <1>7, <2>1, <3>1, <3>2
  <2> QED
    BY <2>2, <2>3
<1>15. ASSUME NEW c
       PROVE  /\ Taken(c, neles[listener])' <=> Taken(c, neles[listener])
              /\ p # listener => (Taken(c, csets[listener])' <=> Taken(c, csets[listener]))
              /\ p = listener => (Taken(c, csets[listener])' <=>
                                    Taken(c, csets[listener]) \/ Joined(c, k))
  <2>1. Taken(c, neles[listener])' <=> Taken(c, neles[listener])
    BY <1>2, <1>3 DEF Taken
  <2>2. p # listener => csets'[listener] = csets[listener]
    BY <1>2, <1>7
  <2>3. p # listener => (Taken(c, csets[listener])' <=> Taken(c, csets[listener]))
    BY <1>2, <2>2 DEF Taken
  <2>4. Taken(c, Append(csets[p], x)) <=> Taken(c, csets[p]) \/ Joined(c, k)
    BY <1>5, TakenNext DEF k
  <2>5. p = listener => (Taken(c, csets[listener])' <=> Taken(c, Append(csets[p], x)))
    BY <1>2, <1>8 DEF Taken
  <2> QED
    BY <2>1, <2>3, <2>4, <2>5
<1>16. ASSUME NEW r \in Process, p = listener, Joined(<<r, 0>>, k)
       PROVE  Taken(<<r, 0>>, neles[listener]) /\ ~ Taken(<<r, 0>>, csets[listener])
  <2>1. Taken(<<r, 0>>, neles[listener])
    <3>1. DOMAIN neles[p] = 1 .. NClients(p)
      BY <1>5, LenProperties
    <3> QED
      BY <1>6, <1>16, <3>1 DEF Taken
  <2>2. ~ Taken(<<r, 0>>, csets[listener])
    <3> SUFFICES ASSUME NEW i \in DOMAIN csets[p], Joined(<<r, 0>>, i) PROVE FALSE
      BY <1>16 DEF Taken
    <3>1. i = k
      BY <1>16, InvParts, JoinedOnce
    <3>2. i <= Len(csets[p])
      BY <1>5, LenProperties
    <3> QED
      BY <1>5, <3>1, <3>2 DEF k
  <2> QED
    BY <2>1, <2>2
<1>17. WordsOK'
  <2>1. ASSUME NEW r \in Process, p = listener, Joined(<<r, 0>>, k), Word(r) # <<>>
        PROVE  Word(r)' = Tail(Word(r))
    <3>1. /\ Taken(<<r, 0>>, neles[listener]) /\ ~ Taken(<<r, 0>>, csets[listener])
          /\ Taken(<<r, 0>>, neles[listener])' /\ Taken(<<r, 0>>, csets[listener])'
      BY <1>15, <1>16, <2>1
    <3>2. r \in sent
      BY <2>1, <3>1 DEF Word
    <3>3. Word(r) = <<<<"set", Masks(r)>>>>
      BY <3>1, <3>2 DEF Word
    <3>4. Word(r)' = <<>>
      BY <1>3, <3>1, <3>2 DEF Word
    <3>5. \A y : Tail(<<y>>) = <<>>
      OBVIOUS
    <3> QED
      BY <3>3, <3>4, <3>5
  <2>2. \A r \in Process : \/ p = listener /\ Joined(<<r, 0>>, k)
                           \/ /\ Taken(<<r, 0>>, neles[listener])' <=> Taken(<<r, 0>>, neles[listener])
                              /\ Taken(<<r, 0>>, csets[listener])' <=> Taken(<<r, 0>>, csets[listener])
    BY <1>15
  <2>3. p = listener => ~ \E r \in Process : Joined(<<r, 0>>, k) /\ Taken(<<r, 0>>, csets[listener])
    BY <1>16
  <2> QED
    BY <1>6, <2>1, <2>2, <2>3, WordsTaken
<1> QED
  BY <1>2, <1>10, <1>11, <1>13, <1>14, <1>17, ServerKeeps, StepKeeps DEF ProcessOK

-----------------------------------------------------------------------------
(* The client's steps. *)

(* A step of a client leaves it in its role. *)
LEMMA ClientKeeps ==
  ASSUME ProtocolInv, NEW p \in Process, Start(p) \/ SendMasks(p) \/ ReceiveAnswer(p)
  PROVE  /\ pc[p] \in Asking /\ p # listener
         /\ UNCHANGED <<elements, neles, csets, found, answered>>
         /\ pc'[p] \in Asking \cup Ended => RoleOK(p)' /\ FullOK(p)' /\ ServerOK(p)'
<1>1. /\ RoleOK(p) /\ FullOK(p) /\ ServerOK(p)
  BY InvParts
<1>2. pc[p] \in Asking /\ UNCHANGED <<elements, neles, csets, found, answered>>
  BY DEF Start, SendMasks, ReceiveAnswer, Asking, serverVars
<1>3. p # listener /\ ~ IsServer(p)
  BY <1>2, AskingIs
<1>4. /\ UNCHANGED <<setup, parse, sockets, listener>>
      /\ IsServer(p)' = IsServer(p) /\ Slots(p)' = Slots(p) /\ Sockets(p)' = Sockets(p)
  BY LateFrame
<1>5. ASSUME pc'[p] \in Asking \cup Ended PROVE RoleOK(p)' /\ FullOK(p)' /\ ServerOK(p)'
  <2>1. pc'[p] \notin {"listen", "accept", "connect", "elements"} \cup Serving
    BY <1>5 DEF Serving, Ended, Asking
  <2>2. pc[p] \notin Serving \cup Ended
    BY <1>2 DEF Serving, Ended, Asking
  <2>3. RoleOK(p)'
    BY <1>3, <1>4, <2>1 DEF RoleOK
  <2>4. FullOK(p)'
    BY <1>1, <1>2, <1>3, <1>4, <2>1 DEF FullOK
  <2>5. neles[p] = <<>> /\ csets[p] = <<>> /\ found[p] = {} /\ answered[p] = 0
    BY <1>1, <2>2 DEF ServerOK, Serving
  <2>6. ServerOK(p)'
    BY <1>1, <1>2, <2>1, <2>5 DEF ServerOK, Serving, AnyMask
  <2> QED
    BY <2>3, <2>4, <2>6
<1> QED
  BY <1>2, <1>3, <1>5

(* What a client sends arrives, or is lost because nobody lives who would take it. *)
LEMMA SendsWhat ==
  ASSUME ProtocolInv, NEW p \in Process, pc[p] \in Asking, NEW m, NEW l, SendOrDie(p, m, l)
  PROVE  LET e == sockets[p][1] IN
         /\ \/ /\ ~ Closed(e) /\ e # NoSocket /\ listener \in Process \ exited
               /\ inbox' = [inbox EXCEPT ![<<<<p, 0>>, "server">>] = Append(@, m)]
               /\ pc'[p] = l /\ exited' = exited
            \/ /\ Closed(e) /\ inbox' = inbox /\ pc'[p] = l /\ exited' = exited
               /\ (e = NoSocket \/ listener \in exited)
            \/ /\ Closed(e) /\ inbox' = inbox /\ pc'[p] = "aborted"
               /\ listener \in exited /\ exited' = exited \cup {p}
<1> DEFINE e == sockets[p][1]
<1>1. \/ e = NoSocket
      \/ e # NoSocket /\ listener \in Process /\ PeerOf(e) = listener /\ Peer(e) = <<<<p, 0>>, "server">>
  BY AskingIs
<1>2. DOMAIN pc = Process
  BY InvParts
<1> HIDE DEF e
<1>3. \/ inbox' = Sent(e, m) /\ pc' = [pc EXCEPT ![p] = l] /\ exited' = exited
      \/ /\ Closed(e) /\ e # NoSocket
         /\ inbox' = inbox /\ pc' = [pc EXCEPT ![p] = "aborted"] /\ exited' = exited \cup {p}
  BY DEF SendOrDie, Dies, Exit, Goto, e
<1>4. CASE Closed(e)
  BY <1>1, <1>2, <1>3, <1>4 DEF Closed, Sent, e
<1>5. CASE ~ Closed(e)
  BY <1>1, <1>2, <1>3, <1>5 DEF Closed, Sent, e
<1> QED
  BY <1>4, <1>5

(* What is on its way to the server, when a client has sent. *)
LEMMA WordsSent ==
  ASSUME ProtocolInv, NEW p \in Process, Start(p) \/ SendMasks(p), NEW m \in Words,
         \/ inbox' = inbox
         \/ inbox' = [inbox EXCEPT ![<<<<p, 0>>, "server">>] = Append(@, m)],
         inbox' = inbox /\ listener \notin exited' => Word(p)' = Word(p),
         inbox' # inbox /\ listener \notin exited' => Word(p)' = Append(Word(p), m)
  PROVE  WordsOK'
<1> DEFINE e == <<<<p, 0>>, "server">>
<1>1. /\ UNCHANGED <<setup, parse, sockets, listener>> /\ Step(p) /\ DOMAIN inbox = End
      /\ \A c, i : Joined(c, i)' <=> Joined(c, i)
  BY LateFrame
<1>2. WordsOK /\ NInv /\ Ends /\ Domains
  BY InvParts
<1>3. UNCHANGED <<elements, neles, csets>>
  BY ClientKeeps
<1>4. listener \notin exited' => listener \notin exited
  BY <1>1, <1>2, EndsKept
<1>5. ASSUME NEW r \in Process, r # p
      PROVE  Word(r)' = Word(r)
  <2>1. pc'[r] = pc[r] /\ (r \in sent' <=> r \in sent) /\ perm'[r] = perm[r]
    BY <1>1, <1>2, <1>5, StepIsOwn DEF Alone, OwnData
  <2>2. Size(r)' = Size(r) /\ Masks(r)' = Masks(r)
    BY <1>1, <1>3, <2>1, SenderIs
  <2>3. /\ Taken(<<r, 0>>, neles[listener])' <=> Taken(<<r, 0>>, neles[listener])
        /\ Taken(<<r, 0>>, csets[listener])' <=> Taken(<<r, 0>>, csets[listener])
    BY <1>1, <1>3 DEF Taken
  <2> QED
    BY <1>1, <2>1, <2>2, <2>3 DEF Word
<1>6. e \in End /\ \A r \in Process \ {p} : <<<<r, 0>>, "server">> # e /\ <<<<r, 0>>, "server">> \in End
  BY ConnectionOK DEF End, Conn
<1>7. \A c \in Conn : <<c, "server">> \in End
  BY DEF End
<1>8. <<p, 0>> \in Conn
  BY ConnectionOK DEF Conn
<1>9. \A c \in Conn : <<c, "server">> = e => c = <<p, 0>> /\ c[2] = 0
  OBVIOUS
<1> HIDE DEF e
<1>10. ASSUME listener \notin exited', NEW r \in Process PROVE inbox'[<<<<r, 0>>, "server">>] = Word(r)'
  <2>1. inbox[<<<<r, 0>>, "server">>] = Word(r)
    BY <1>2, <1>4, <1>10 DEF WordsOK
  <2>2. CASE r # p
    BY <1>1, <1>5, <1>6, <2>1, <2>2 DEF e
  <2>3. CASE r = p
    <3>1. CASE inbox' = inbox
      BY <1>10, <2>1, <2>3, <3>1
    <3>2. CASE inbox' # inbox
      <4>1. inbox' = [inbox EXCEPT ![e] = Append(@, m)]
        BY <3>2 DEF e
      <4>2. inbox'[e] = Append(inbox[e], m)
        BY <1>1, <1>6, <4>1
      <4> QED
        BY <1>10, <2>1, <2>3, <3>2, <4>2 DEF e
    <3> QED
      BY <3>1, <3>2
  <2> QED
    BY <2>2, <2>3
<1>11. ASSUME NEW c \in Conn
       PROVE  inbox'[<<c, "server">>] \in Seq(Words) /\ (c[2] # 0 => inbox'[<<c, "server">>] = <<>>)
  <2>1. inbox[<<c, "server">>] \in Seq(Words) /\ (c[2] # 0 => inbox[<<c, "server">>] = <<>>)
    BY <1>2 DEF WordsOK
  <2>2. CASE <<c, "server">> # e
    BY <1>1, <1>7, <2>1, <2>2 DEF e
  <2>3. CASE <<c, "server">> = e
    <3>1. c[2] = 0
      BY <1>9, <2>3
    <3>2. inbox' = inbox \/ inbox'[e] = Append(inbox[e], m)
      BY <1>1, <1>6 DEF e
    <3>3. Append(inbox[e], m) \in Seq(Words)
      BY <2>1, <2>3, AppendProperties
    <3> QED
      BY <2>1, <2>3, <3>1, <3>2, <3>3
  <2> QED
    BY <2>2, <2>3
<1> QED
  BY <1>1, <1>10, <1>11 DEF WordsOK, Conn

(* What is sent is no answer. *)
LEMMA AnswersUntouched ==
  ASSUME ProtocolInv, NEW p \in Process, NEW m,
         \/ inbox' = inbox
         \/ inbox' = [inbox EXCEPT ![<<<<p, 0>>, "server">>] = Append(@, m)]
  PROVE  \A c \in Conn : inbox'[<<c, "client">>] = inbox[<<c, "client">>]
<1> SUFFICES ASSUME NEW c \in Conn PROVE inbox'[<<c, "client">>] = inbox[<<c, "client">>]
  OBVIOUS
<1>1. \A d : <<d, "server">> # <<c, "client">>
  BY "client" # "server"
<1>2. <<c, "client">> \in DOMAIN inbox
  BY InvParts DEF End, NetOK
<1>3. \A d, x : [inbox EXCEPT ![<<d, "server">>] = x][<<c, "client">>] = inbox[<<c, "client">>]
  BY <1>1, <1>2
<1>4. CASE inbox' = inbox
  BY <1>4
<1>5. CASE inbox' = [inbox EXCEPT ![<<<<p, 0>>, "server">>] = Append(@, m)]
  BY <1>3, <1>5
<1> QED
  BY <1>4, <1>5

(* The client has its permutation, and its size is the first word on its way. *)
LEMMA StartStep ==
  ASSUME ProtocolInv, NEW p \in Process, Start(p)
  PROVE  ProtocolInv'
<1> DEFINE m == <<"sizes", Size(p)>>
           e == sockets[p][1]
<1>1. /\ ClientOK(p) /\ WaitOK /\ pc[p] = "start" /\ pc[p] \in Asking /\ SendOrDie(p, m, "masks")
  BY InvParts DEF Start, Asking
<1>2. /\ Step(p) /\ DOMAIN pc = Process /\ DOMAIN perm = Process /\ p \notin exited
      /\ UNCHANGED <<setup, parse, sockets, listener>> /\ \A c, i : Joined(c, i)' <=> Joined(c, i)
  BY LateFrame
<1>3. UNCHANGED <<elements, neles, csets, found, answered, sent, told>>
  BY ClientKeeps DEF Start
<1>4. p \notin sent /\ elements[p] \in Seq(DOMAIN Mask) /\ Size(p) \in Nat
  <2>1. p \notin sent /\ elements[p] \in Seq(DOMAIN Mask)
    BY <1>1 DEF ClientOK, Ended
  <2> QED
    BY <2>1, LenProperties DEF Size
<1>5. /\ \/ /\ ~ Closed(e) /\ e # NoSocket /\ listener \in Process \ exited
            /\ inbox' = [inbox EXCEPT ![<<<<p, 0>>, "server">>] = Append(@, m)]
            /\ pc'[p] = "masks" /\ exited' = exited
         \/ /\ Closed(e) /\ inbox' = inbox /\ pc'[p] = "masks" /\ exited' = exited
            /\ (e = NoSocket \/ listener \in exited)
         \/ /\ Closed(e) /\ inbox' = inbox /\ pc'[p] = "aborted"
            /\ listener \in exited /\ exited' = exited \cup {p}
  <2> HIDE DEF m
  <2> QED
    BY <1>1, SendsWhat
<1>6. pc'[p] \in {"masks", "aborted"}
  BY <1>5
<1>7. pc'[p] \in Asking \cup Ended /\ ~ ReceiveAnswer(p)
  BY <1>1, <1>6 DEF Asking, Ended, ReceiveAnswer
<1>8. ClientOK(p)'
  <2>1. \E f \in Bijections(Size(p)) : perm'[p] = f
    BY <1>2 DEF Start
  <2>2. Bijections(Size(p))' = Bijections(Size(p))
    BY <1>3 DEF Bijections, Size
  <2> QED
    BY <1>3, <1>4, <2>1, <2>2 DEF ClientOK
<1>9. m \in Words
  BY <1>4 DEF Words
<1>10. Word(p) = <<>>
  BY <1>1, <1>4 DEF Word
<1>11. inbox' = inbox /\ listener \notin exited' => Word(p)' = Word(p)
  <2> SUFFICES ASSUME inbox' = inbox, listener \notin exited' PROVE Word(p)' = Word(p)
    OBVIOUS
  <2>1. e = NoSocket \/ inbox' = [inbox EXCEPT ![<<<<p, 0>>, "server">>] = Append(@, m)]
    BY <1>5
  <2>2. CASE e = NoSocket
    BY <1>2, <1>3, <1>4, <1>10, <2>2 DEF Word
  <2>3. CASE inbox' = [inbox EXCEPT ![<<<<p, 0>>, "server">>] = Append(@, m)]
    <3>1. <<<<p, 0>>, "server">> \in DOMAIN inbox /\ inbox[<<<<p, 0>>, "server">>] \in Seq(Words)
      BY InvParts, ConnectionOK DEF NetOK, WordsOK, End, Conn
    <3>2. inbox[<<<<p, 0>>, "server">>] = Append(inbox[<<<<p, 0>>, "server">>], m)
      <4> HIDE DEF m
      <4> QED
        BY <2>3, <3>1
    <3>3. Len(Append(inbox[<<<<p, 0>>, "server">>], m)) = Len(inbox[<<<<p, 0>>, "server">>]) + 1
          /\ Len(inbox[<<<<p, 0>>, "server">>]) \in Nat
      <4> HIDE DEF m
      <4> QED
        BY <1>9, <3>1, AppendProperties, LenProperties
    <3> HIDE DEF m
    <3> QED
      BY <3>2, <3>3
  <2> QED
    BY <2>1, <2>2, <2>3
<1>12. inbox' # inbox /\ listener \notin exited' => Word(p)' = Append(Word(p), m)
  <2> SUFFICES ASSUME inbox' # inbox, listener \notin exited' PROVE Word(p)' = Append(Word(p), m)
    OBVIOUS
  <2>1. e # NoSocket /\ listener \in Process \ exited /\ pc'[p] = "masks"
    BY <1>5
  <2>2. ~ Taken(<<p, 0>>, neles[listener])
    BY <1>1, <1>2, <1>4, <2>1 DEF WaitOK
  <2>3. ~ Taken(<<p, 0>>, neles[listener])'
    BY <1>2, <1>3, <2>2 DEF Taken
  <2>4. Size(p)' = Size(p)
    BY <1>3 DEF Size
  <2>5. Word(p)' = <<m>>
    BY <1>2, <1>3, <1>4, <2>1, <2>3, <2>4 DEF Word
  <2> QED
    BY <1>10, <2>5
<1>13. WordsOK' /\ \A c \in Conn : inbox'[<<c, "client">>] = inbox[<<c, "client">>]
  <2> HIDE DEF m
  <2>1. \/ inbox' = inbox
        \/ inbox' = [inbox EXCEPT ![<<<<p, 0>>, "server">>] = Append(@, m)]
    BY <1>5
  <2> QED
    BY <1>9, <1>11, <1>12, <2>1, WordsSent, AnswersUntouched
<1>14. SetsOK' /\ AnswersOK' /\ ToldOK'
  BY <1>2, <1>3, <1>13, SetsStay, AnswersStay, ToldStays
<1>15. WaitOK'
  BY <1>1, <1>2, <1>3, <1>7, WaitStays
<1> QED
  BY <1>2, <1>7, <1>8, <1>13, <1>14, <1>15, ClientKeeps, StepKeeps DEF ProcessOK

(* The masks of the client follow its size, and the server has not had any of them. *)
LEMMA SendMasksStep ==
  ASSUME ProtocolInv, NEW p \in Process, SendMasks(p)
  PROVE  ProtocolInv'
<1> DEFINE m == <<"set", Masks(p)>>
           e == sockets[p][1]
<1>1. /\ ClientOK(p) /\ WaitOK /\ SetsOK /\ NInv /\ Domains /\ NetOK
      /\ pc[p] = "masks" /\ pc[p] \in Asking /\ SendOrDie(p, m, "receive")
      /\ sent' = IF Closed(e) THEN sent ELSE sent \cup {p}
  BY InvParts DEF SendMasks, Asking
<1>2. /\ Step(p) /\ DOMAIN pc = Process /\ p \notin exited
      /\ UNCHANGED <<setup, parse, sockets, listener>> /\ \A c, i : Joined(c, i)' <=> Joined(c, i)
  BY LateFrame
<1>3. UNCHANGED <<elements, perm, neles, csets, found, answered, told>>
  BY ClientKeeps DEF SendMasks
<1>4. /\ p \notin sent /\ elements[p] \in Seq(DOMAIN Mask) /\ perm[p] \in Bijections(Size(p))
  BY <1>1 DEF ClientOK, Ended
<1>5. /\ \/ /\ ~ Closed(e) /\ e # NoSocket /\ listener \in Process \ exited
            /\ inbox' = [inbox EXCEPT ![<<<<p, 0>>, "server">>] = Append(@, m)]
            /\ pc'[p] = "receive" /\ exited' = exited
         \/ /\ Closed(e) /\ inbox' = inbox /\ pc'[p] = "receive" /\ exited' = exited
            /\ (e = NoSocket \/ listener \in exited)
         \/ /\ Closed(e) /\ inbox' = inbox /\ pc'[p] = "aborted"
            /\ listener \in exited /\ exited' = exited \cup {p}
  <2> HIDE DEF m
  <2> QED
    BY <1>1, SendsWhat
<1>6. pc'[p] \in {"receive", "aborted"}
  BY <1>5
<1>7. pc'[p] \in Asking \cup Ended /\ pc'[p] # "masks" /\ pc'[p] \in {"receive"} \cup Ended
  BY <1>6 DEF Asking, Ended
<1>8. /\ 1 \in DOMAIN sockets[p] /\ <<p, 0>> \in Conn
      /\ \/ e = NoSocket /\ ~ \E i : listener \in Process /\ Joined(<<p, 0>>, i)
         \/ e = <<<<p, 0>>, "client">> /\ e # NoSocket /\ listener \in Process
  BY <1>1, AskingIs
<1>9. ClientOK(p)'
  <2>1. Bijections(Size(p))' = Bijections(Size(p))
    BY <1>3 DEF Bijections, Size
  <2>2. p \in sent' => e = <<<<p, 0>>, "client">>
    BY <1>1, <1>4, <1>8 DEF Closed
  <2> HIDE DEF m
  <2> QED
    BY <1>2, <1>3, <1>4, <1>7, <1>8, <2>1, <2>2 DEF ClientOK
<1>10. m \in Words /\ Masks(p)' = Masks(p) /\ Size(p)' = Size(p)
  <2>1. IsBench(p) => NTasks(p) \in Nat \ {0}
    BY <1>1, NumbersAre
  <2>2. Masks(p) \in Seq(Range(Mask))
    BY <1>4, <2>1, MasksAre
  <2>3. Masks(p)' = Masks(p) /\ Size(p)' = Size(p)
    BY <1>2, <1>3, SenderIs
  <2> QED
    BY <2>2, <2>3 DEF Words
<1>11. listener \in Process \ exited => ~ Taken(<<p, 0>>, csets[listener])
  BY <1>1, <1>2, <1>4, <1>8 DEF Taken, SetsOK
<1>12. /\ Taken(<<p, 0>>, neles[listener])' <=> Taken(<<p, 0>>, neles[listener])
       /\ Taken(<<p, 0>>, csets[listener])' <=> Taken(<<p, 0>>, csets[listener])
  BY <1>2, <1>3 DEF Taken
<1>13. inbox' = inbox /\ listener \notin exited' => Word(p)' = Word(p)
  <2> SUFFICES ASSUME inbox' = inbox, listener \notin exited' PROVE Word(p)' = Word(p)
    OBVIOUS
  <2>1. e = NoSocket \/ inbox' = [inbox EXCEPT ![<<<<p, 0>>, "server">>] = Append(@, m)]
    BY <1>5
  <2>2. CASE e = NoSocket
    <3>1. p \notin sent'
      BY <1>1, <1>4, <2>2 DEF Closed
    <3> QED
      BY <1>2, <1>4, <1>7, <2>2, <3>1 DEF Word
  <2>3. CASE inbox' = [inbox EXCEPT ![<<<<p, 0>>, "server">>] = Append(@, m)]
    <3>1. <<<<p, 0>>, "server">> \in DOMAIN inbox /\ inbox[<<<<p, 0>>, "server">>] \in Seq(Words)
      BY InvParts, ConnectionOK DEF NetOK, WordsOK, End, Conn
    <3> HIDE DEF m
    <3>2. inbox[<<<<p, 0>>, "server">>] = Append(inbox[<<<<p, 0>>, "server">>], m)
      BY <2>3, <3>1
    <3>3. Len(Append(inbox[<<<<p, 0>>, "server">>], m)) = Len(inbox[<<<<p, 0>>, "server">>]) + 1
          /\ Len(inbox[<<<<p, 0>>, "server">>]) \in Nat
      BY <1>10, <3>1, AppendProperties, LenProperties
    <3> QED
      BY <3>2, <3>3
  <2> QED
    BY <2>1, <2>2, <2>3
<1>14. inbox' # inbox /\ listener \notin exited' => Word(p)' = Append(Word(p), m)
  <2> SUFFICES ASSUME inbox' # inbox, listener \notin exited' PROVE Word(p)' = Append(Word(p), m)
    OBVIOUS
  <2>1. e # NoSocket /\ ~ Closed(e) /\ listener \in Process \ exited
    BY <1>5
  <2>2. p \in sent'
    BY <1>1, <2>1
  <2>3. \A x, y : Append(<<>>, y) = <<y>> /\ Append(<<x>>, y) = <<x, y>>
    <3> SUFFICES ASSUME NEW x, NEW y PROVE Append(<<>>, y) = <<y>> /\ Append(<<x>>, y) = <<x, y>>
      OBVIOUS
    <3>1. Append(<<>>, y) = <<y>>
      OBVIOUS
    <3>2. /\ <<x>> \in Seq({x, y}) /\ y \in {x, y} /\ Len(<<x>>) = 1 /\ <<x>>[1] = x
          /\ <<x, y>> \in Seq({x, y}) /\ Len(<<x, y>>) = 2 /\ <<x, y>>[1] = x /\ <<x, y>>[2] = y
      OBVIOUS
    <3>3. /\ Append(<<x>>, y) \in Seq({x, y}) /\ Len(Append(<<x>>, y)) = 2
          /\ Append(<<x>>, y)[1] = x /\ Append(<<x>>, y)[2] = y
      BY <3>2, AppendProperties
    <3>4. \A i \in 1 .. 2 : i = 1 \/ i = 2
      OBVIOUS
    <3>5. Append(<<x>>, y) = <<x, y>>
      BY <3>2, <3>3, <3>4, SeqEqual
    <3> QED
      BY <3>1, <3>5
  <2>4. CASE Taken(<<p, 0>>, neles[listener])
    <3>1. Word(p) = <<>>
      BY <1>4, <2>4 DEF Word
    <3>2. Word(p)' = <<m>>
      BY <1>10, <1>11, <1>12, <2>1, <2>2, <2>4 DEF Word
    <3> QED
      BY <2>3, <3>1, <3>2
  <2>5. CASE ~ Taken(<<p, 0>>, neles[listener])
    <3>1. Word(p) = <<<<"sizes", Size(p)>>>>
      BY <1>1, <1>4, <2>1, <2>5 DEF Word
    <3>2. Word(p)' = <<<<"sizes", Size(p)>>, m>>
      BY <1>10, <1>11, <1>12, <2>1, <2>2, <2>5 DEF Word
    <3> QED
      BY <2>3, <3>1, <3>2
  <2> QED
    BY <2>4, <2>5
<1>15. WordsOK' /\ \A c \in Conn : inbox'[<<c, "client">>] = inbox[<<c, "client">>]
  <2> HIDE DEF m
  <2>1. \/ inbox' = inbox
        \/ inbox' = [inbox EXCEPT ![<<<<p, 0>>, "server">>] = Append(@, m)]
    BY <1>5
  <2> QED
    BY <1>10, <1>13, <1>14, <2>1, WordsSent, AnswersUntouched
<1>16. SetsOK' /\ AnswersOK' /\ ToldOK'
  BY <1>2, <1>3, <1>15, SetsStay, AnswersStay, ToldStays
<1>17. WaitOK'
  <2>1. \A q \in Process \ {p} : (q \in exited' <=> q \in exited) /\ pc'[q] = pc[q]
                                 /\ (q \in sent' <=> q \in sent)
    BY <1>1, <1>2, InvParts, EndsKept, StepIsOwn DEF Alone, OwnData
  <2>2. exited \subseteq exited'
    BY <1>2, InvParts, EndsKept
  <2>3. ASSUME NEW q \in sent', q \in exited' PROVE q \in told' \/ listener' \in exited'
    <3>1. CASE q = p
      <4> HIDE DEF m
      <4> QED
        BY <1>1, <1>2, <1>4, <1>5, <2>3, <3>1
    <3>2. CASE q # p
      <4>1. q \in sent /\ q \in Process
        BY <1>1, <2>3, <3>2 DEF NetOK
      <4> QED
        BY <1>1, <1>2, <1>3, <2>1, <2>2, <2>3, <3>2, <4>1 DEF WaitOK
    <3> QED
      BY <3>1, <3>2
  <2>4. ASSUME listener' \in Process \ exited', NEW q \in Process, Taken(<<q, 0>>, neles[listener])'
        PROVE  q \in sent' \cup exited' \/ pc'[q] = "masks"
    <3>1. listener \in Process \ exited /\ Taken(<<q, 0>>, neles[listener])
      BY <1>2, <1>3, <2>2, <2>4 DEF Taken
    <3>2. CASE q = p
      <4>1. \E i : Joined(<<p, 0>>, i)
        BY <3>1, <3>2 DEF Taken
      <4>2. ~ Closed(e)
        <5> HIDE DEF m
        <5> QED
          BY <1>5, <1>8, <3>1, <4>1
      <4> QED
        BY <1>1, <3>2, <4>2
    <3>3. CASE q # p
      BY <1>1, <2>1, <3>1, <3>3 DEF WaitOK
    <3> QED
      BY <3>2, <3>3
  <2> QED
    BY <2>3, <2>4 DEF WaitOK
<1> QED
  BY <1>2, <1>7, <1>9, <1>15, <1>16, <1>17, ClientKeeps, StepKeeps DEF ProcessOK

(* The client reads the answer for its place, or none when the server is gone. *)
LEMMA ReceiveAnswerStep ==
  ASSUME ProtocolInv, NEW p \in Process, ReceiveAnswer(p)
  PROVE  ProtocolInv'
<1> DEFINE c == <<p, 0>>
           b == <<c, "client">>
           e == sockets[p][1]
<1>1. /\ ClientOK(p) /\ WaitOK /\ AnswersOK /\ ToldOK /\ NInv /\ Domains /\ NetOK
      /\ pc[p] = "receive" /\ pc[p] \in Asking
  BY InvParts DEF ReceiveAnswer, Asking
<1>2. /\ Step(p) /\ DOMAIN pc = Process /\ p \notin exited /\ DOMAIN result = Process /\ DOMAIN inbox = End
      /\ UNCHANGED <<setup, parse, sockets, listener>> /\ \A d, i : Joined(d, i)' <=> Joined(d, i)
  BY LateFrame
<1>3. UNCHANGED <<elements, perm, neles, csets, found, answered, sent>>
  BY ClientKeeps DEF ReceiveAnswer
<1>4. \/ /\ Gets(e)
         /\ LET a == Head(inbox[e]) IN result' = [result EXCEPT ![p] = Selected(p, a[2], a[3])]
         /\ told' = told \cup {p} /\ pc' = [pc EXCEPT ![p] = "done"]
         /\ inbox' = [inbox EXCEPT ![e] = Tail(@)]
      \/ /\ GetsNothing(e) /\ told' = told /\ inbox' = inbox
         /\ pc' = [pc EXCEPT ![p] = "done"] \/ pc' = [pc EXCEPT ![p] = "aborted"]
  BY DEF ReceiveAnswer, Dies, Exit, Goto
<1>5. p \in exited' /\ exited \subseteq exited' /\ \A q \in Process \ {p} : q \in exited' <=> q \in exited
  <2>1. p \in exited'
    BY DEF ReceiveAnswer, Dies, Exit
  <2> QED
    BY <1>2, <2>1, InvParts, EndsKept
<1>6. pc'[p] \in Asking \cup Ended /\ pc'[p] # "masks" /\ pc'[p] \in Ended
  <2>1. pc'[p] = "done" \/ pc'[p] = "aborted"
    BY <1>2, <1>4
  <2> QED
    BY <2>1 DEF Ended
<1>7. /\ c \in Conn /\ 1 \in DOMAIN sockets[p]
      /\ \/ e = NoSocket
         \/ e = b /\ e # NoSocket /\ listener \in Process /\ PeerOf(e) = listener
  BY <1>1, AskingIs
<1>8. ClientOK(p)'
  <2>1. Bijections(Size(p))' = Bijections(Size(p))
    BY <1>3 DEF Bijections, Size
  <2>2. pc[p] \notin {"masks"}
    BY <1>1
  <2> QED
    BY <1>1, <1>2, <1>3, <1>6, <2>1, <2>2 DEF ClientOK
<1>9. b \in End /\ \A d \in Conn : <<d, "client">> \in End /\ <<d, "server">> \in End /\ <<d, "server">> # b
  BY <1>7 DEF End
<1>10. \A d \in Conn : /\ inbox'[<<d, "server">>] = inbox[<<d, "server">>]
                       /\ d # c => inbox'[<<d, "client">>] = inbox[<<d, "client">>]
  <2>1. CASE inbox' = inbox
    BY <2>1
  <2>2. CASE inbox' = [inbox EXCEPT ![b] = Tail(@)]
    <3>1. \A d \in Conn : d # c => <<d, "client">> # b
      OBVIOUS
    <3> HIDE DEF b, c
    <3> QED
      BY <1>2, <1>9, <2>2, <3>1
  <2>3. inbox' = inbox \/ inbox' = [inbox EXCEPT ![b] = Tail(@)]
    <3> HIDE DEF b, c
    <3> QED
      BY <1>4, <1>7 DEF Gets
  <2> QED
    BY <2>1, <2>2, <2>3
<1>11. SetsOK' /\ WordsOK'
  BY <1>1, <1>2, <1>3, <1>6, <1>10, SetsStay, WordsStay
<1>12. \A i : AnswerTo(i)' = AnswerTo(i)
  BY <1>2, <1>3 DEF AnswerTo
<1>13. CASE Gets(e)
  <2>1. /\ e = b /\ inbox[b] # <<>> /\ listener \in Process
    <3> HIDE DEF b
    <3> QED
      BY <1>7, <1>13 DEF Gets
  <2>2. /\ LET a == Head(inbox[b]) IN result' = [result EXCEPT ![p] = Selected(p, a[2], a[3])]
        /\ told' = told \cup {p} /\ inbox' = [inbox EXCEPT ![b] = Tail(@)]
    <3> HIDE DEF b
    <3> QED
      BY <1>4, <1>13, <2>1 DEF GetsNothing
  <2>3. PICK i \in 1 .. answered[listener] : Joined(c, i) /\ inbox[b] = <<AnswerTo(i)>>
    BY <1>1, <1>7, <2>1 DEF AnswersOK
  <2>4. p \in sent
    BY <1>1, <1>7, <2>1 DEF AnswersOK
  <2>5. inbox'[b] = <<>> /\ result'[p] = Selected(p, AnswerTo(i)[2], AnswerTo(i)[3])
    <3>1. \A x : Head(<<x>>) = x /\ Tail(<<x>>) = <<>>
      OBVIOUS
    <3> HIDE DEF b
    <3> QED
      BY <1>2, <1>9, <2>2, <2>3, <3>1
  <2>6. AnswersOK'
    <3> SUFFICES ASSUME NEW d \in Conn, inbox'[<<d, "client">>] # <<>>
                 PROVE  /\ listener \in Process /\ d[1] \in sent
                        /\ \E j \in 1 .. answered[listener] :
                             Joined(d, j) /\ inbox'[<<d, "client">>] = <<AnswerTo(j)>>
      BY <1>2, <1>3, <1>12 DEF AnswersOK, Conn
    <3>1. d # c
      BY <2>5
    <3> QED
      BY <1>1, <1>10, <3>1 DEF AnswersOK
  <2>7. ToldOK'
    <3> SUFFICES ASSUME NEW q \in told'
                 PROVE  /\ listener \in Process /\ q \in sent \cap exited'
                        /\ \E j \in 1 .. answered[listener] :
                             /\ Joined(<<q, 0>>, j)
                             /\ result'[q] = Selected(q, AnswerTo(j)[2], AnswerTo(j)[3])'
      BY <1>2, <1>3 DEF ToldOK
    <3>1. \A j : Selected(q, AnswerTo(j)[2], AnswerTo(j)[3])' = Selected(q, AnswerTo(j)[2], AnswerTo(j)[3])
      BY <1>2, <1>3, ReportStays
    <3>2. CASE q = p
      BY <1>5, <2>1, <2>3, <2>4, <2>5, <3>1, <3>2
    <3>3. CASE q # p
      <4>1. q \in told /\ q \in exited
        BY <1>1, <2>2, <3>3 DEF ToldOK
      <4>2. result'[q] = result[q]
        BY <1>1, <1>2, <3>3, <4>1, StepIsOwn DEF OwnData, NetOK
      <4> QED
        BY <1>1, <1>5, <3>1, <4>1, <4>2 DEF ToldOK
    <3> QED
      BY <3>2, <3>3
  <2>8. p \in told' /\ told \subseteq told'
    BY <2>2
  <2> QED
    <3>1. WaitOK'
      <4>1. ASSUME NEW q \in sent', q \in exited' PROVE q \in told' \/ listener' \in exited'
        BY <1>1, <1>2, <1>3, <1>5, <2>8, <4>1 DEF WaitOK, NetOK
      <4>2. ASSUME listener' \in Process \ exited', NEW q \in Process, Taken(<<q, 0>>, neles[listener])'
            PROVE  q \in sent' \cup exited' \/ pc'[q] = "masks"
        <5>1. listener \in Process \ exited /\ Taken(<<q, 0>>, neles[listener])
          BY <1>2, <1>3, <1>5, <4>2 DEF Taken
        <5>2. q # p => pc'[q] = pc[q]
          BY <1>2, <1>4
        <5> QED
          BY <1>1, <1>3, <1>5, <5>1, <5>2 DEF WaitOK
      <4> QED
        BY <4>1, <4>2 DEF WaitOK
    <3> QED
      BY <1>2, <1>6, <1>8, <1>11, <2>6, <2>7, <3>1, ClientKeeps, StepKeeps DEF ProcessOK
<1>14. CASE ~ Gets(e)
  <2>1. GetsNothing(e) /\ told' = told /\ inbox' = inbox
    BY <1>4, <1>14
  <2>2. AnswersOK' /\ ToldOK'
    BY <1>2, <1>3, <2>1, AnswersStay, ToldStays
  <2>3. WaitOK'
    <3>1. p \in sent => listener \in exited
      <4> SUFFICES ASSUME p \in sent PROVE listener \in exited
        OBVIOUS
      <4>1. e = b
        BY <1>1 DEF ClientOK
      <4>2. e # NoSocket
        BY <1>7, <4>1, EndsDiffer
      <4> QED
        BY <1>7, <2>1, <4>2 DEF GetsNothing, Closed
    <3>2. ASSUME NEW q \in sent', q \in exited' PROVE q \in told' \/ listener' \in exited'
      BY <1>1, <1>2, <1>3, <1>5, <2>1, <3>1, <3>2 DEF WaitOK, NetOK
    <3>3. ASSUME listener' \in Process \ exited', NEW q \in Process, Taken(<<q, 0>>, neles[listener])'
          PROVE  q \in sent' \cup exited' \/ pc'[q] = "masks"
      <4>1. listener \in Process \ exited /\ Taken(<<q, 0>>, neles[listener])
        BY <1>2, <1>3, <1>5, <3>3 DEF Taken
      <4>2. q # p => pc'[q] = pc[q]
        BY <1>2, <1>4
      <4> QED
        BY <1>1, <1>3, <1>5, <4>1, <4>2 DEF WaitOK
    <3> QED
      BY <3>2, <3>3 DEF WaitOK
  <2> QED
    BY <1>2, <1>6, <1>8, <1>11, <2>2, <2>3, ClientKeeps, StepKeeps DEF ProcessOK
<1> QED
  BY <1>13, <1>14

-----------------------------------------------------------------------------
(* From the beginning to the end. *)

(* Nothing is sent and nothing is known in the beginning. *)
LEMMA ProtocolInitially ==
  ASSUME Init
  PROVE  ProtocolInv
<1>1. NInv /\ SlotsInOrder
  BY InOrderInitially DEF OrderInv
<1>2. /\ pc = [p \in Process |-> "parse"] /\ sent = {} /\ told = {}
      /\ elements = [p \in Process |-> <<>>] /\ perm = [p \in Process |-> <<>>]
      /\ neles = [p \in Process |-> <<>>] /\ csets = [p \in Process |-> <<>>]
      /\ found = [p \in Process |-> {}] /\ answered = [p \in Process |-> 0]
      /\ result = [p \in Process |-> <<>>]
      /\ sockets = [p \in Process |-> <<>>] /\ tries = [p \in Process |-> 0]
      /\ listener = NoProcess /\ listener \notin Process /\ exited = {}
      /\ inbox = [e \in End |-> <<>>]
  BY ConnectionOK DEF Init, NetInit
<1>3. Domains
  BY <1>2 DEF Domains
<1>4. NetOK
  <2>1. 0 \in 0 .. RETRY_CONNECT - 1
    BY ConnectionOK
  <2> QED
    BY <1>2, <2>1 DEF NetOK
<1>5. Ends
  BY <1>2 DEF Ends, Ended
<1>6. ASSUME NEW p \in Process PROVE ProcessOK(p)
  <2>1. pc[p] = "parse" /\ p # listener
    BY <1>2, <1>6
  <2>2. RoleOK(p)
    BY <1>2, <2>1 DEF RoleOK, Serving, Asking
  <2>3. FullOK(p)
    <3>1. sockets[p] = <<>> /\ DOMAIN sockets[p] = {}
      BY <1>2
    <3> QED
      BY <2>1, <3>1 DEF FullOK, Serving, Asking
  <2>4. ClientOK(p)
    BY <1>2, <2>1 DEF ClientOK
  <2>5. ServerOK(p)
    BY <1>2, <2>1 DEF ServerOK, Serving, Ended
  <2> QED
    BY <2>2, <2>3, <2>4, <2>5 DEF ProcessOK
<1>7. SetsOK /\ WaitOK /\ ToldOK
  BY <1>2 DEF SetsOK, WaitOK, ToldOK
<1>8. \A c \in Conn : inbox[<<c, "client">>] = <<>> /\ inbox[<<c, "server">>] = <<>>
  BY <1>2 DEF End
<1>9. AnswersOK
  BY <1>8 DEF AnswersOK
<1>10. WordsOK
  <2>1. \A q \in Process : <<q, 0>> \in Conn /\ Word(q) = <<>>
    BY <1>2, ConnectionOK DEF Word, Conn
  <2>2. <<>> \in Seq(Words)
    OBVIOUS
  <2> QED
    BY <1>8, <2>1, <2>2 DEF WordsOK
<1> QED
  BY <1>1, <1>3, <1>4, <1>5, <1>6, <1>7, <1>9, <1>10 DEF ProtocolInv

(* Nothing changes when nothing does. *)
LEMMA ProtocolStutters ==
  ASSUME ProtocolInv, UNCHANGED vars
  PROVE  ProtocolInv'
<1>1. /\ UNCHANGED <<setup, pc, parse, perm, elements, neles, csets, found, answered, result, sent, told>>
      /\ UNCHANGED <<sockets, tries, listener, backlog, inbox, exited>>
  BY DEF vars, netVars
<1>2. NInv' /\ SlotsInOrder'
  <2>1. Same
    BY <1>1 DEF Same, Arrivals, Opened, Conn
  <2> QED
    BY <2>1, NStutters, SameInOrder, InvParts
<1>3. Domains' /\ NetOK' /\ Ends'
  BY <1>1, InvParts DEF Domains, NetOK, Ends, End, Conn
<1>4. /\ \A q : Size(q)' = Size(q) /\ Masks(q)' = Masks(q)
      /\ \A c, i : Joined(c, i)' <=> Joined(c, i)
      /\ \A i : AnswerTo(i)' = AnswerTo(i)
  BY <1>1, SenderIs DEF Joined, AnswerTo
<1>5. ASSUME NEW q \in Process PROVE ProcessOK(q)'
  <2>1. RoleOK(q) /\ FullOK(q) /\ ClientOK(q) /\ ServerOK(q)
    BY InvParts
  <2>2. /\ IsServer(q)' = IsServer(q) /\ Slots(q)' = Slots(q) /\ Sockets(q)' = Sockets(q)
        /\ NClients(q)' = NClients(q)
    BY <1>1 DEF IsServer, Slots, Sockets, NClients, IsBench, val
  <2>3. RoleOK(q)' /\ FullOK(q)'
    BY <1>1, <2>1, <2>2 DEF RoleOK, FullOK
  <2>4. ClientOK(q)'
    <3>1. Bijections(Size(q))' = Bijections(Size(q))
      BY <1>4 DEF Bijections
    <3> QED
      BY <1>1, <2>1, <3>1 DEF ClientOK
  <2>5. ServerOK(q)'
    <3>1. Intersection(csets[q])' = Intersection(csets[q])
      BY <1>1, MeetStays
    <3> QED
      BY <1>1, <2>1, <2>2, <3>1 DEF ServerOK, Computed, AnyMask
  <2> QED
    BY <2>3, <2>4, <2>5 DEF ProcessOK
<1>6. SetsOK'
  BY <1>1, <1>4, InvParts DEF SetsOK, Conn
<1>7. AnswersOK'
  BY <1>1, <1>4, InvParts DEF AnswersOK, Conn
<1>8. \A c : /\ Taken(c, csets[listener])' <=> Taken(c, csets[listener])
             /\ Taken(c, neles[listener])' <=> Taken(c, neles[listener])
  BY <1>1, <1>4 DEF Taken
<1>9. WordsOK'
  <2>1. \A q : Word(q)' = Word(q)
    BY <1>1, <1>4, <1>8 DEF Word
  <2> QED
    BY <1>1, <2>1, InvParts DEF WordsOK, Conn
<1>10. WaitOK'
  BY <1>1, <1>8, InvParts DEF WaitOK
<1>11. ToldOK'
  <2>1. ASSUME NEW q, NEW i
        PROVE  Selected(q, AnswerTo(i)[2], AnswerTo(i)[3])' = Selected(q, AnswerTo(i)[2], AnswerTo(i)[3])
    BY <1>1, ReportStays
  <2> QED
    BY <1>1, <1>4, <2>1, InvParts DEF ToldOK
<1> QED
  BY <1>2, <1>3, <1>5, <1>6, <1>7, <1>9, <1>10, <1>11 DEF ProtocolInv

(* Every step keeps the invariant. *)
LEMMA ProtocolKept ==
  ASSUME ProtocolInv, [Next]_vars
  PROVE  ProtocolInv'
<1>1. CASE UNCHANGED vars
  BY <1>1, ProtocolStutters
<1>2. ASSUME NEW p \in Process, Step(p) PROVE ProtocolInv'
  BY <1>2, EarlySteps, ElementsStep, ReceiveSizesStep, ReceiveSetStep, ComputeStep, AnswerNextStep,
     ServerDoneStep, StartStep, SendMasksStep, ReceiveAnswerStep DEF Step
<1> QED
  BY <1>1, <1>2 DEF Next

(* The state has its types. *)
THEOREM TypeCorrect == Spec => []TypeOK
<1>1. Init => ProtocolInv
  BY ProtocolInitially
<1>2. ProtocolInv /\ [Next]_vars => ProtocolInv'
  BY ProtocolKept
<1>3. ProtocolInv => TypeOK
  BY TypesFollow
<1> QED
  BY <1>1, <1>2, <1>3, PTL DEF Spec

(* A client that is answered reports elements that all served clients have which sent their
   masks, each once, and all of them when every served client did. *)
THEOREM ResultIsExact == Spec => []ResultExact
<1>1. Init => ProtocolInv
  BY ProtocolInitially
<1>2. ProtocolInv /\ [Next]_vars => ProtocolInv'
  BY ProtocolKept
<1>3. ProtocolInv => ResultExact
  BY ToldExactly DEF ResultExact
<1> QED
  BY <1>1, <1>2, <1>3, PTL DEF Spec
================================================================================
