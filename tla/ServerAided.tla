------------------------------ MODULE ServerAided ------------------------------
(***************************************************************************)
(* The server-aided protocol (src/server-aided/sapsi.cpp): processes of    *)
(* bench_psi and psi_demo, from their command lines to their results.      *)
(*                                                                         *)
(* Clients send masks of their permuted elements to a server, which counts *)
(* and marks the masks that all of them sent.  A process that a failure    *)
(* leaves with a variable without a value goes on with some value or dies. *)
(* The two numbers that a client sends first are one message, and so are   *)
(* the two parts of the answer: nothing comes between them.                *)
(***************************************************************************)
EXTENDS ParseOptions, Connection, TaskPartition, FiniteSetsExt

CONSTANTS
  Setups,    \* program, argv, file and random elements of every process
  Mask,      \* Mask[e]: the mask of the element e, a pair of words
  Junk       \* a mask that nobody computed

IsPair(m) == m = <<m[1], m[2]>>

ASSUME MaskOK ==
  /\ \A e, f \in DOMAIN Mask : Mask[e] = Mask[f] => e = f
  /\ \A e \in DOMAIN Mask : IsPair(Mask[e]) /\ Mask[e] # Junk
  /\ IsPair(Junk)

(* The option at i of argv is followed by a number. *)
HasNumber(argv, i) == argv[i][1] = "opt" /\ argv[i + 1][1] = "num"

(* bench_psi is told to have a socket at least, and has the elements that it is told to draw. *)
ASSUME SetupsOK ==
  /\ MaxSockets >= 2
  /\ \A s \in Setups : \A p \in Process :
       LET argv == s[p].argv IN
       /\ s[p].program \in {"bench", "demo"}
       /\ argv \in Seq(Argument)
       /\ \A f \in DOMAIN s[p].files : s[p].files[f] \in Seq(DOMAIN Mask)
       /\ s[p].random \in Seq(DOMAIN Mask)
       /\ \A i \in 1 .. Len(argv) - 1 : s[p].program = "bench" /\ HasNumber(argv, i) =>
            /\ argv[i][2] = "n" => argv[i + 1][2] <= Len(s[p].random)
            /\ argv[i][2] \in {"t", "c"} => argv[i + 1][2] \in 1 .. MaxSockets

VARIABLES
  setup,      \* the processes of this execution
  pc,         \* pc[p]: where p is
  parse,      \* parse[p]: the state of parse_options
  perm,       \* perm[p]: the client's permutation
  elements,   \* elements[p]: the elements of p
  neles,      \* neles[p]: the sizes that the server p received
  masklen,    \* masklen[p]: maskbytelen of the server p
  csets,      \* csets[p]: the sets that the server p received
  found,      \* found[p]: intersection of the server p, positions per client
  answered,   \* answered[p]: clients that the server p has answered
  result,     \* result[p]: the client's result
  sent,       \* clients that sent their masks to an open socket
  told        \* clients that received an answer

vars == <<setup, pc, parse, perm, elements, neles, masklen, csets, found, answered,
          result, sent, told, netVars>>

serverVars == <<neles, masklen, csets, found, answered>>

clientVars == <<perm, result, sent, told>>

Ended == {"done", "usage", "exit", "aborted", "other"}

PC == {"parse", "listen", "accept", "connect", "elements", "sizes", "sets", "compute",
       "answer", "start", "masks", "receive"} \cup Ended

(* A result with elements that no match names. *)
Unfounded == <<Unset>>

Options(p) == IF setup[p].program = "bench" THEN BenchOptions ELSE DemoOptions

Defaults(program) == IF program = "bench" THEN BenchDefaults ELSE DemoDefaults

IsBench(p) == setup[p].program = "bench"

val(p) == parse[p].val

Init ==
  /\ setup \in Setups
  /\ pc = [p \in Process |-> "parse"]
  /\ parse = [p \in Process |-> ParseInit(setup[p].argv, Defaults(setup[p].program))]
  /\ elements = [p \in Process |-> <<>>]
  /\ perm = [p \in Process |-> <<>>]
  /\ neles = [p \in Process |-> <<>>]
  /\ masklen = [p \in Process |-> 0]
  /\ csets = [p \in Process |-> <<>>]
  /\ found = [p \in Process |-> {}]
  /\ answered = [p \in Process |-> 0]
  /\ result = [p \in Process |-> <<>>]
  /\ sent = {}
  /\ told = {}
  /\ NetInit

Goto(p, l) == pc' = [pc EXCEPT ![p] = l]

(* The process ends, and with it its sockets. *)
Exit(p, l) ==
  /\ Goto(p, l)
  /\ exited' = exited \cup {p}
  /\ UNCHANGED <<sockets, tries, listener, backlog, inbox>>

Dies(p) == Exit(p, "aborted")

(* p goes on without a change of its connections. *)
GoesOn(p, l) == Goto(p, l) /\ UNCHANGED netVars

-----------------------------------------------------------------------------
(* The command line. *)

(* One round of the loop.  An option that is not in the table changes nothing. *)
ReadOption(p) ==
  LET s == parse[p] IN
  /\ pc[p] = "parse"
  /\ ~Stopped(s)
  /\ ~AsksHelp(s)
  /\ \E o \in Matching(Options(p), s) :
       \/ ReadsBeyond(o, s) /\ Dies(p) /\ UNCHANGED parse
       \/ /\ ~ReadsBeyond(o, s)
          /\ parse' = [parse EXCEPT ![p] = Parsed(o, s)]
          /\ GoesOn(p, "parse")
  /\ UNCHANGED <<setup, elements, serverVars, clientVars>>

Accepts(p) == Stopped(parse[p]) /\ Answer(Options(p), setup[p].argv, parse[p]) # 0

(* The usage was asked for, or the command line is refused. *)
ExitWithUsage(p) ==
  /\ pc[p] = "parse"
  /\ IF Stopped(parse[p]) THEN ~Accepts(p) ELSE AsksHelp(parse[p])
  /\ Exit(p, "usage")
  /\ UNCHANGED <<setup, parse, elements, serverVars, clientVars>>

(* The role; psi_demo without -r has an arbitrary number. *)
Roles(p) == IF val(p).r = Unset THEN {0, 1, 2} ELSE {val(p).r}

(* The assertions behind parse_options, and on to the protocol; the other protocols are
   not followed here. *)
AcceptOptions(p) ==
  /\ pc[p] = "parse"
  /\ Accepts(p)
  /\ \E r \in Roles(p) :
       /\ parse' = [parse EXCEPT ![p].val.r = r]
       /\ IF r > 1 \/ val(p).p > 3 THEN Dies(p)
          ELSE IF val(p).p # 1 THEN Exit(p, "other")
          ELSE GoesOn(p, IF r = 0 THEN "listen" ELSE "connect")
  /\ UNCHANGED <<setup, elements, serverVars, clientVars>>

-----------------------------------------------------------------------------
(* Connecting. *)

IsServer(p) == val(p).r = 0

(* The connections that a server waits for, and that a client makes. *)
Slots(p) == IF IsBench(p) THEN val(p).c ELSE 2

Sockets(p) == IF IsBench(p) THEN val(p).t ELSE 1

Listen(p) ==
  /\ pc[p] = "listen"
  /\ \/ Bind(p) /\ Goto(p, "accept")
     \/ BindFails(p, Slots(p)) /\ Goto(p, "elements")
  /\ UNCHANGED <<setup, parse, elements, serverVars, clientVars>>

Accept(p) ==
  /\ pc[p] = "accept"
  /\ AcceptNext(p)
  /\ Goto(p, IF Len(sockets[p]) + 1 = Slots(p) THEN "elements" ELSE "accept")
  /\ UNCHANGED <<setup, parse, elements, serverVars, clientVars>>

Connect(p) ==
  /\ pc[p] = "connect"
  /\ ConnectSucceeds(p) \/ ConnectFails(p)
  /\ Goto(p, IF Len(sockets'[p]) = Sockets(p) THEN "elements" ELSE "connect")
  /\ UNCHANGED <<setup, parse, elements, serverVars, clientVars>>

(* The clients that the server serves, and the threads that mask a client's elements.
   bench_psi passes its number of clients where ttppsi has the number of threads, and its
   cardinality flag where ttppsi has the number of clients. *)
NClients(p) == IF IsBench(p) THEN IF val(p).y THEN 1 ELSE 0 ELSE 2

NTasks(p) == IF IsBench(p) THEN val(p).c ELSE 1

Begin(p) == IF ~IsServer(p) THEN "start" ELSE IF NClients(p) = 0 THEN "compute" ELSE "sizes"

(* bench_psi draws the elements of a client from the common seed. *)
DrawElements(p) ==
  /\ IsBench(p)
  /\ elements' = [elements EXCEPT ![p] =
                    IF IsServer(p) THEN <<>> ELSE SubSeq(setup[p].random, 1, val(p).n)]
  /\ GoesOn(p, Begin(p))

(* psi_demo, server and client alike, reads a file: as many lines as it has, or as the
   option says. *)
ReadElements(p) ==
  LET files == setup[p].files
      file == files[val(p).f]
      n == val(p).n
  IN /\ ~IsBench(p)
     /\ \/ val(p).f \notin DOMAIN files /\ Exit(p, "exit") /\ UNCHANGED elements
        \/ /\ val(p).f \in DOMAIN files
           /\ n > Len(file)
           /\ Dies(p)
           /\ UNCHANGED elements
        \/ /\ val(p).f \in DOMAIN files
           /\ n <= Len(file)
           /\ elements' = [elements EXCEPT ![p] = IF n = 0 THEN file ELSE SubSeq(file, 1, n)]
           /\ GoesOn(p, Begin(p))

Elements(p) ==
  /\ pc[p] = "elements"
  /\ DrawElements(p) \/ ReadElements(p)
  /\ UNCHANGED <<setup, parse, serverVars, clientVars>>

-----------------------------------------------------------------------------
(* server_routine. *)

(* The message e has for its holder is taken. *)
Took(e) ==
  /\ inbox' = [inbox EXCEPT ![e] = Tail(@)]
  /\ UNCHANGED <<sockets, tries, listener, backlog, exited>>

MaskBytes == 16

(* The size of the next client; all clients must have masks of one length.  From a client
   that is gone nothing is read: neles[i] has no value, temp has the one before. *)
ReceiveSizes(p) ==
  LET i == Len(neles[p])
      e == sockets[p][i + 1]
      After == IF i + 1 = NClients(p) THEN "sets" ELSE "sizes"
      Size(n) == neles' = [neles EXCEPT ![p] = Append(@, n)]
      MaskLen(l) == masklen' = [masklen EXCEPT ![p] = IF i = 0 THEN l ELSE @]
  IN /\ pc[p] = "sizes"
     /\ \/ /\ Gets(e)
           /\ Size(Head(inbox[e])[2])
           /\ MaskLen(MaskBytes)
           /\ IF masklen'[p] = MaskBytes THEN Goto(p, After) /\ Took(e) ELSE Dies(p)
        \/ /\ GetsNothing(e)
           /\ \E n \in {0, 1}, l \in {0, MaskBytes} : Size(n) /\ MaskLen(l)
           /\ GoesOn(p, After)
        \/ GetsNothing(e) /\ Dies(p) /\ UNCHANGED <<neles, masklen>>
     /\ UNCHANGED <<setup, parse, elements, csets, found, answered, clientVars>>

(* The masks of the next client, or what was in their memory. *)
ReceiveSet(p) ==
  LET i == Len(csets[p])
      e == sockets[p][i + 1]
      After == IF i + 1 = NClients(p) THEN "compute" ELSE "sets"
      Set(c) == csets' = [csets EXCEPT ![p] = Append(@, c)]
  IN /\ pc[p] = "sets"
     /\ \/ Gets(e) /\ Set(Head(inbox[e])[2]) /\ Goto(p, After) /\ Took(e)
        \/ /\ GetsNothing(e)
           /\ Set([k \in 1 .. neles[p][i + 1] |-> Junk])
           /\ GoesOn(p, After)
     /\ UNCHANGED <<setup, parse, elements, neles, masklen, found, answered, clientVars>>

(* The hash table of a set under the first words of its masks; a later mask with the same
   first word replaces an earlier one.  pos has the place of the mask per client. *)
FirstTable(c) ==
  LET last(k) == Max({j \in DOMAIN c : c[j][1] = k}) IN
  [k \in {c[j][1] : j \in DOMAIN c} |-> [low |-> c[last(k)][2], pos |-> <<last(k)>>]]

(* Without the place in the set of the next client. *)
NextTableUnplaced(table, c) ==
  [k \in {l \in DOMAIN table : \E j \in DOMAIN c : c[j] = <<l, table[l].low>>} |-> table[k]]

(* The table of the entries that the next client has, too: both words are compared. *)
NextTable(table, c) ==
  LET places(k) == {j \in DOMAIN c : c[j] = <<k, table[k].low>>} IN
  [k \in {l \in DOMAIN table : places(l) # {}} |->
     [table[k] EXCEPT !.pos = Append(@, Max(places(k)))]]

(* compute_intersection: the places of the common masks, a tuple per mask. *)
Intersection(sets) ==
  LET tables[i \in 1 .. Len(sets)] ==
        IF i = 1 THEN FirstTable(sets[1]) ELSE NextTable(tables[i - 1], sets[i])
      table == tables[Len(sets)]
  IN {table[k].pos : k \in DOMAIN table}

(* Without clients it reads neles[0] and csets[0] all the same. *)
Compute(p) ==
  /\ pc[p] = "compute"
  /\ \/ /\ found' = [found EXCEPT ![p] = IF NClients(p) = 0 THEN {} ELSE Intersection(csets[p])]
        /\ GoesOn(p, "answer")
     \/ NClients(p) = 0 /\ Dies(p) /\ UNCHANGED found
  /\ UNCHANGED <<setup, parse, elements, neles, masklen, csets, answered, clientVars>>

(* The number of common masks and the places of them in the client's set.  The second Send
   to a client that is gone may end the server. *)
AnswerNext(p) ==
  LET i == answered[p] + 1
      e == sockets[p][i]
  IN /\ pc[p] = "answer"
     /\ i <= NClients(p)
     /\ \/ /\ answered' = [answered EXCEPT ![p] = i]
           /\ inbox' = Sent(e, <<"answer", Cardinality(found[p]), {t[i] : t \in found[p]}>>)
           /\ UNCHANGED <<pc, sockets, tries, listener, backlog, exited>>
        \/ Closed(e) /\ e # NoSocket /\ Dies(p) /\ UNCHANGED answered
     /\ UNCHANGED <<setup, parse, elements, neles, masklen, csets, found, clientVars>>

ServerDone(p) ==
  /\ pc[p] = "answer"
  /\ answered[p] = NClients(p)
  /\ Exit(p, "done")
  /\ UNCHANGED <<setup, parse, elements, serverVars, clientVars>>

-----------------------------------------------------------------------------
(* client_routine. *)

Bijections(n) == {f \in [1 .. n -> 1 .. n] : \A i, j \in 1 .. n : f[i] = f[j] => i = j}

Size(p) == Len(elements[p])

(* A client sends m over its first socket; without a partner it may end with that. *)
SendOrDie(p, m, next) ==
  LET e == sockets[p][1] IN
  \/ /\ inbox' = Sent(e, m)
     /\ Goto(p, next)
     /\ UNCHANGED <<sockets, tries, listener, backlog, exited>>
  \/ Closed(e) /\ e # NoSocket /\ Dies(p)

Start(p) ==
  /\ pc[p] = "start"
  /\ \E f \in Bijections(Size(p)) : perm' = [perm EXCEPT ![p] = f]
  /\ SendOrDie(p, <<"sizes", Size(p)>>, "masks")
  /\ UNCHANGED <<setup, parse, elements, serverVars, result, sent, told>>

(* The element that run_task masks as the i-th: with elements of a fixed length, as
   bench_psi has them, every thread starts with the first. *)
InIdx(p, i) ==
  IF IsBench(p) THEN ((i - 1) % CeilDivide(Size(p), NTasks(p))) + 1 ELSE i

InvPermForward(p, j) == perm[p][j]

InvPerm(p, j) == CHOOSE i \in DOMAIN perm[p] : perm[p][i] = j

Masks(p) ==
  LET maskOf(i) == Mask[elements[p][InIdx(p, i)]]
      source(j) == CHOOSE i \in DOMAIN perm[p] : perm[p][i] = j
  IN [j \in DOMAIN elements[p] |-> maskOf(source(j))]

SendMasks(p) ==
  /\ pc[p] = "masks"
  /\ SendOrDie(p, <<"set", Masks(p)>>, "receive")
  /\ sent' = IF Closed(sockets[p][1]) THEN sent ELSE sent \cup {p}
  /\ UNCHANGED <<setup, parse, elements, serverVars, perm, result, told>>

(* The numbers of S in ascending order. *)
Sorted(S) ==
  CHOOSE s \in [1 .. Cardinality(S) -> S] : \A i, j \in DOMAIN s : i < j => s[i] < s[j]

(* matches, sorted as create_result_from_matches does, up to the size received. *)
Selected(p, size, bits) ==
  LET matches == {InvPerm(p, j) : j \in bits} IN
  IF size > Cardinality(matches) THEN Unfounded
  ELSE [k \in 1 .. size |-> elements[p][Sorted(matches)[k]]]

(* The answer, and the result from it.  Without an answer the size has no value, and
   matches has none in any case. *)
ReceiveAnswer(p) ==
  LET e == sockets[p][1] IN
  /\ pc[p] = "receive"
  /\ \/ /\ Gets(e)
        /\ LET m == Head(inbox[e]) IN
             result' = [result EXCEPT ![p] = Selected(p, m[2], m[3])]
        /\ told' = told \cup {p}
        /\ Goto(p, "done")
        /\ inbox' = [inbox EXCEPT ![e] = Tail(@)]
        /\ exited' = exited \cup {p}
        /\ UNCHANGED <<sockets, tries, listener, backlog>>
     \/ /\ GetsNothing(e)
        /\ \E r \in {<<>>, Unfounded} : result' = [result EXCEPT ![p] = r]
        /\ Exit(p, "done")
        /\ UNCHANGED told
     \/ GetsNothing(e) /\ Dies(p) /\ UNCHANGED <<result, told>>
  /\ UNCHANGED <<setup, parse, elements, serverVars, perm, sent>>

-----------------------------------------------------------------------------
Step(p) ==
  \/ ReadOption(p) \/ ExitWithUsage(p) \/ AcceptOptions(p)
  \/ Listen(p) \/ Accept(p) \/ Connect(p) \/ Elements(p)
  \/ ReceiveSizes(p) \/ ReceiveSet(p) \/ Compute(p) \/ AnswerNext(p) \/ ServerDone(p)
  \/ Start(p) \/ SendMasks(p) \/ ReceiveAnswer(p)

Next == \E p \in Process : Step(p)

Spec == Init /\ [][Next]_vars

(* The operating system runs some process as long as one can take a step.  No process can
   run for ever, and so this makes all of them run that can. *)
FairSpec == Spec /\ WF_vars(Next)

-----------------------------------------------------------------------------
(* The state has its types: what is on its way is a client's message or an answer, and the
   places found are places of the sets that were received. *)
TypeOK ==
  /\ setup \in Setups
  /\ pc \in [Process -> PC]
  /\ \A p \in Process : parse[p].set \subseteq {o.name : o \in Options(p)}
  /\ NetTypeOK({"sizes"} \X Nat \cup {"set"} \X Seq(Range(Mask)) \cup
               {"answer"} \X Nat \X SUBSET (1 .. Max({Len(elements[p]) : p \in Process})))
  /\ sent \subseteq Process
  /\ told \subseteq Process
  /\ \A p \in Process :
       /\ Len(csets[p]) <= Len(neles[p])
       /\ \A t \in found[p] : Len(t) = NClients(p) /\ \A i \in DOMAIN t : t[i] \in DOMAIN csets[p][i]

IsOpt(argv, i) == argv[i][1] = "opt"

OptionAt(p, i) == CHOOSE o \in Options(p) : o.name = setup[p].argv[i][2]

(* A command line of known options, each with the value that its type asks for. *)
WellFormed(p) ==
  LET argv == setup[p].argv
      wantsValue(i) == IsOpt(argv, i) /\ OptionAt(p, i).type # "flag"
      isValueOf(i, j) == /\ j \in DOMAIN argv
                         /\ ~IsOpt(argv, j)
                         /\ OptionAt(p, i).type = "num" => argv[j][1] = "num"
  IN /\ \A i \in DOMAIN argv : IsOpt(argv, i) => \E o \in Options(p) : o.name = argv[i][2]
     /\ \A i \in DOMAIN argv : wantsValue(i) => isValueOf(i, i + 1)
     /\ \A i \in DOMAIN argv : ~IsOpt(argv, i) => i > 1 /\ wantsValue(i - 1)

Given(p) == {setup[p].argv[i][2] : i \in {j \in DOMAIN setup[p].argv : IsOpt(setup[p].argv, j)}}

Required(p) == {o.name : o \in {q \in Options(p) : q.required}}

(* The value of the option x by the last place where it is given. *)
Written(p, x) ==
  LET argv == setup[p].argv
      at == Max({i \in DOMAIN argv : argv[i] = <<"opt", x>>})
  IN IF x \notin Given(p) THEN Defaults(setup[p].program)[x]
     ELSE IF OptionAt(p, at).type = "flag" THEN TRUE ELSE argv[at + 1][2]

(* parse_options reads a well-formed command line as it is written: refused exactly when a
   required option is missing, else every variable has the value that is given last, or
   its default.  Of other command lines only those that stop at an argument which is no
   option are taken without the required options. *)
ReadAsWritten ==
  \A p \in Process :
    /\ pc[p] # "parse" /\ WellFormed(p) =>
         IF Required(p) \subseteq Given(p)
           THEN pc[p] # "usage" /\ \A x \in DOMAIN val(p) : val(p)[x] = Written(p, x)
           ELSE pc[p] = "usage"
    /\ pc[p] \notin {"parse", "usage", "aborted"} =>
         Required(p) \subseteq parse[p].set \/ parse[p].args # <<>>

(* The connections in the order in which they came: those in the server's sockets, then
   those in the queue. *)
Arrivals ==
  (IF listener = NoProcess THEN <<>> ELSE [i \in DOMAIN sockets[listener] |-> sockets[listener][i][1]])
    \o backlog

(* listen: sockfds[i] belongs to the connection that came as the i-th, no connection is in
   two places or in none, and the connections of one process keep their order, so that
   its sockfd[k] is joined with the server's k-th when it is the only client. *)
SlotsInOrder ==
  LET opened == {c \in Conn : <<c, "client">> \in Range(sockets[c[1]])} IN
  /\ Range(Arrivals) = opened
  /\ \A i, j \in DOMAIN Arrivals : i < j =>
       /\ Arrivals[i] # Arrivals[j]
       /\ Arrivals[i][1] = Arrivals[j][1] => Arrivals[i][2] < Arrivals[j][2]

(* The clients in the places that the server serves. *)
Served(s) == {sockets[s][i][1][1] : i \in 1 .. NClients(s)}

MasksRight(p) == IsBench(p) => NTasks(p) = 1

(* The server's first table keeps all elements of the first client. *)
FirstKept(s) ==
  LET c == elements[sockets[s][1][1][1]] IN
  \A i, j \in DOMAIN c : Mask[c[i]][1] = Mask[c[j]][1] => c[i] = c[j]

(* What a client with an answer reports: elements that it has, once each, and that every
   served client has which sent a set; and all such elements, if all served clients sent
   a set and no two elements of the first one share the first word of their masks. *)
ResultExact ==
  \A p \in told :
    LET s == listener
        common == {x \in DOMAIN Mask :
                     \A q \in (Served(s) \cap sent) \cup {p} : x \in Range(elements[q])}
    IN (\A q \in Served(s) : MasksRight(q)) =>
         /\ Range(result[p]) \subseteq common
         /\ \A i, j \in DOMAIN result[p] : result[p][i] = result[p][j] => i = j
         /\ Served(s) \subseteq sent /\ FirstKept(s) => common \subseteq Range(result[p])

KnownOptions(p) ==
  Given(p) \subseteq {o.name : o \in Options(p)} \cup {"h"}

(* Everybody is connected or has given up, and a server that lives has a partner for each
   of its sockets, no two of them of the same process. *)
Settled ==
  /\ \A p \in Process : pc[p] \notin {"parse", "listen", "connect"}
  /\ Listening =>
       /\ Len(Arrivals) >= Slots(listener)
       /\ \A p \in Process \ {listener} : Len(sockets[p]) <= 1

(* A process whose options are all known gets past them and past its connects; once all
   are settled, every process ends, whatever failed before. *)
Terminates ==
  /\ \A p \in Process : KnownOptions(p) ~> (pc[p] \notin {"parse", "listen", "connect"})
  /\ Settled ~> (\A p \in Process : pc[p] \in Ended)
================================================================================
