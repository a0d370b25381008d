------------------------------ MODULE MCServerAided ------------------------------
(***************************************************************************)
(* Two clients and a server, and a third client or none.                   *)
(***************************************************************************)
EXTENDS ServerAided, TLC

CONSTANTS srv, alice, bob, carol

(* The elements 1 and 4 share the first word of their masks. *)
MCMask == <<<<11, 21>>, <<12, 22>>, <<13, 23>>, <<11, 24>>>>

MCJunk == <<0, 0>>

Opt(x) == <<<<"opt", x>>>>

Num(x, n) == <<<<"opt", x>>, <<"num", n>>>>

Str(x, w) == <<<<"opt", x>>, <<"word", w>>>>

Proc(program, argv, file) ==
  [program |-> program, argv |-> argv, files |-> [f \in {"in"} |-> file], random |-> <<1, 2, 3>>]

(* psi_demo with a role, the server-aided protocol and a file. *)
Demo(role, file) == Proc("demo", Num("r", role) \o Num("p", 1) \o Str("f", "in"), file)

DemoWith(argv, file) == Proc("demo", argv, file)

(* bench_psi with a role, the server-aided protocol and n elements. *)
Bench(role, n, more) ==
  Proc("bench", Num("r", role) \o Num("p", 1) \o Num("n", n) \o Num("b", 4) \o more, <<>>)

NoFile(role) == Proc("demo", Num("r", role) \o Num("p", 1) \o Str("f", "gone"), <<>>)

Usage == Proc("bench", <<>>, <<>>)

Of(ps, pa, pb, pc_) == (srv :> ps) @@ (alice :> pa) @@ (bob :> pb) @@ (carol :> pc_)

(* psi_demo: a client with an element twice, a client that comes too late, elements that
   share a word, a file that is missing. *)
DemoSetups == {
  Of(Demo(0, <<1>>), Demo(1, <<1, 2, 1>>), Demo(1, <<2>>), Usage),
  Of(Demo(0, <<1>>), Demo(1, <<1, 4>>), Demo(1, <<4>>), Demo(1, <<4>>)),
  Of(Demo(0, <<1>>), NoFile(1), Demo(1, <<2, 1>>), Usage),
  Of(NoFile(0), Demo(1, <<1>>), Demo(1, <<2, 1>>), Usage)}

(* bench_psi: with the flag and without it, with two threads of a client, and with two
   connections of one. *)
BenchSetups == {
  Of(Bench(0, 3, Num("c", 1) \o Opt("y")), Bench(1, 2, Num("c", 1)), Bench(1, 1, <<>>), Usage),
  Of(Bench(0, 3, <<>>), Bench(1, 2, <<>>), Bench(1, 1, <<>>), Usage),
  Of(Demo(0, <<1>>), Bench(1, 2, Num("t", 2)), Demo(1, <<1>>), Usage),
  Of(Demo(0, <<1>>), Bench(1, 3, <<>>), Demo(1, <<2>>), Usage)}

(* Command lines: an option nobody knows, one without its value, the last one without an
   argument, options after a word, help, numbers out of range, no role. *)
ParseSetups == {
  Of(DemoWith(Num("r", 0) \o Opt("x"), <<1>>), Demo(1, <<1>>),
     DemoWith(Num("r", 1) \o <<<<"word", "x">>>> \o Num("p", 1), <<1>>),
     DemoWith(Num("r", 1) \o Opt("p"), <<1>>)),
  Of(DemoWith(Num("p", 1) \o Str("f", "in") \o <<<<"word", "x">>>>, <<1>>),
     DemoWith(Num("p", 1) \o Num("r", 0) \o Num("r", 1) \o Str("f", "in") \o Num("n", 1), <<2, 1>>),
     Demo(1, <<2>>), Usage),
  Of(Demo(0, <<1>>), Demo(0, <<2>>), DemoWith(Num("r", 1) \o Opt("h"), <<1>>),
     DemoWith(Num("r", 2) \o Num("p", 1) \o Str("f", "in"), <<1>>)),
  Of(Demo(0, <<1>>), DemoWith(Num("r", 1) \o Opt("p") \o Num("p", 1) \o Str("f", "in"), <<2>>),
     DemoWith(Num("p", 1) \o Num("r", 1) \o Str("f", "in") \o Num("n", 2), <<1>>),
     DemoWith(Num("r", 1) \o Num("p", 4) \o Str("f", "in"), <<1>>)),
  Of(DemoWith(Num("p", 1) \o Num("r", 0), <<1>>), DemoWith(Opt("f"), <<1>>),
     Bench(1, 1, <<<<"opt", "e">>, <<"num", 12>>, <<"opt", "f">>>>), Bench(1, 1, <<<<"opt", "e">>>>))}

MCSetups == DemoSetups \cup BenchSetups \cup ParseSetups
==================================================================================
