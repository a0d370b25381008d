--------------------------------- MODULE MCKKOT ---------------------------------
(***************************************************************************)
(* Code words of four bits, AES blocks and registers of two, bytes of two: *)
(* a round of one block is a square matrix, one of two blocks a wide one.  *)
(***************************************************************************)
EXTENDS KKOT, TLC

(* The transposition for bytes of eight bits and registers of one and of two of them, and
   for bytes of four bits, up to four registers high and three times as wide. *)
Byte8 == INSTANCE BitMatrix WITH ByteBits <- 8, RegBytes <- 1
Byte8Reg2 == INSTANCE BitMatrix WITH ByteBits <- 8, RegBytes <- 2
Byte4Reg2 == INSTANCE BitMatrix WITH ByteBits <- 4, RegBytes <- 2

Shapes(reg) == {<<r * reg, r * c * reg>> : r \in {1, 2, 4}, c \in 1 .. 3}

ASSUME Transposes ==
  /\ TransposesAll(Shapes(2))
  /\ Byte8!TransposesAll(Shapes(8))
  /\ Byte8Reg2!TransposesAll({<<16, 16>>, <<16, 32>>, <<32, 32>>})
  /\ Byte4Reg2!TransposesAll(Shapes(8))

(* Bits and bytes at every offset, for bytes of four bits with registers of two of them,
   and for bytes of eight bits. *)
Vector4 == INSTANCE BitVector WITH ByteBits <- 4, RegBytes <- 2
Vector8 == INSTANCE BitVector WITH ByteBits <- 8, RegBytes <- 1

ASSUME CopiesBits == Vector4!KeepsPromises(3) /\ Vector8!KeepsPromises(2)

(* The value 0 stands for the dummy of an empty bin; the code words of 1 and 4 agree in
   two places. *)
MCCode == [v \in 0 .. 4 |-> CASE v = 0 -> {} [] v = 1 -> {0, 1, 3} [] v = 2 -> {1, 2}
                              [] v = 3 -> {0, 2, 3} [] v = 4 -> {0, 3}]

MCRound(level, stray, n, threads, blocks, ct, cc, st, sc, U) ==
  [level |-> level, stray |-> stray, nOTs |-> n, threads |-> threads, numOTBlocks |-> blocks,
   table |-> (CLIENT :> [i \in 0 .. Len(ct) - 1 |-> ct[i + 1]]) @@
             (SERVER :> [i \in 0 .. Len(st) - 1 |-> st[i + 1]]),
   count |-> (CLIENT :> [i \in 0 .. n - 1 |-> cc[i + 1]]) @@
             (SERVER :> [i \in 0 .. n - 1 |-> sc[i + 1]]),
   U |-> U, alpha |-> 3, tmp |-> 5, pK |-> [k \in 0 .. 3 |-> k + 1]]

(* Some choices of the server. *)
MCChoices == {{}, {0, 2}, {1, 2, 3}, {0, 1, 2, 3}}

(* Five OTs of one thread: two rounds of one block, one of two. *)
Five(level, stray, blocks, U) ==
  MCRound(level, stray, 5, 1, blocks, <<1, 0, 2, 3, 4>>, <<1, 0, 1, 1, 1>>,
          <<1, 4, 2, 3, 1, 2>>, <<2, 0, 1, 1, 2>>, U)

(* Two threads with one OT each, which share a buffer for digests; three, of which one
   has none and one starts behind the last OT; no OT. *)
MCThreads(U) ==
  {MCRound(128, FALSE, 2, 2, 1, <<1, 3>>, <<1, 1>>, <<1, 4>>, <<1, 1>>, U),
   MCRound(80, FALSE, 1, 3, 2, <<1>>, <<1>>, <<4>>, <<1>>, U)}

(* No OT, for the keys of all levels. *)
NoOT(level, stray, U) ==
  MCRound(level, stray, 0, 2, 1, <<>>, <<>>, <<>>, <<>>, U)

MCInstances ==
  {Five(128, FALSE, b, U) : b \in {1, 2}, U \in MCChoices} \cup
  {NoOT(l, s, {1, 2}) : l \in SecurityLevels, s \in BOOLEAN} \cup
  {NoOT(l, FALSE, U) : l \in {192, 256}, U \in MCChoices \cup {{1, 3}}} \cup
  MCThreads({0, 1, 2})

MCThreadInstances == MCThreads({0, 1, 2})
================================================================================
