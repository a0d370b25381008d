------------------------------- MODULE CommonSeed -------------------------------
(***************************************************************************)
(* The two parties of the OT-based protocol agree on the key of their      *)
(* common pseudo-random function: crypto::gen_common_seed and              *)
(* init_prf_state (src/util/crypto/crypto.cpp:354), the first thing they   *)
(* send over socket 0.                                                     *)
(*                                                                         *)
(* A word of eight bytes is the set of the random words that are xored     *)
(* into it; word w that party p draws is <<p, w>>.  What p has in memory   *)
(* behind the words it drew is named in the same way.                      *)
(***************************************************************************)
EXTENDS Integers, Sequences, FiniteSets

CONSTANTS
  SERVER, CLIENT,   \* the two roles
  Instances         \* what the parties may be started with, and the random values

Party == {SERVER, CLIENT}

Other(p) == IF p = SERVER THEN CLIENT ELSE SERVER

SecurityLevels == {80, 112, 128, 192, 256}

ASSUME PartiesDiffer == SERVER # CLIENT

ASSUME LevelsOK == \A i \in Instances : i.level \in SecurityLevels /\ i.stray \in BOOLEAN

VARIABLES
  inst,       \* what was chosen from Instances
  main,       \* main[p]: where p's main thread is
  chan,       \* chan[p][s]: what is on its way to p over socket s
  prfKey      \* prfKey[p]: the key that p's AES of the common function has read

(* secparam as get_sec_lvl returns it; the level is among the parameters that
   the parties have compared. *)
Level == inst.level

(* get_aes_key_bytes, in words of eight bytes. *)
KeyWords == IF Level = 192 THEN 3 ELSE IF Level = 256 THEN 4 ELSE 2

(* The words that seed_aes_key reads for a key: AES-128, or AES-256. *)
AesWords == IF Level <= 128 THEN 2 ELSE 4

Xor(x, y) == (x \ y) \cup (y \ x)

(* The words of the seeds; behind them is memory of the heap, which may be the same in
   both processes. *)
Drawn(p) == [w \in 0 .. KeyWords - 1 |-> {<<p, w>>}]

Behind(p, w) == IF inst.stray THEN {<<p, w>>} ELSE {<<SERVER, w>>}

(* The two seeds, in two calls of gen_rnd. *)
SendSeed(p) ==
  /\ main[p] = "start"
  /\ chan' = [chan EXCEPT ![Other(p)][0] = @ \o [w \in 1 .. KeyWords |-> Drawn(p)[w - 1]]]
  /\ main' = [main EXCEPT ![p] = "seed"]
  /\ UNCHANGED <<inst, prfKey>>

Mixed(p, rcv) == [w \in 0 .. KeyWords - 1 |-> Xor(Drawn(p)[w], rcv[w])]

(* The key that init_prf_state makes of a seed. *)
PrfKey(p, seed) ==
  [w \in 0 .. AesWords - 1 |-> IF w < KeyWords THEN seed[w] ELSE Behind(p, w)]

ReceiveSeed(p) ==
  /\ main[p] = "seed"
  /\ Len(chan[p][0]) >= KeyWords
  /\ LET rcv == [w \in 0 .. KeyWords - 1 |-> chan[p][0][w + 1]]
     IN prfKey' = [prfKey EXCEPT ![p] = PrfKey(p, Mixed(p, rcv))]
  /\ chan' = [chan EXCEPT ![p][0] = SubSeq(@, KeyWords + 1, Len(@))]
  /\ main' = [main EXCEPT ![p] = "base"]
  /\ UNCHANGED inst

SeedInit ==
  /\ inst \in Instances
  /\ main = [p \in Party |-> "start"]
  /\ chan = [p \in Party |-> [s \in 0 .. inst.threads - 1 |-> <<>>]]
  /\ prfKey = [p \in Party |-> <<>>]

SeedNext == \E p \in Party : SendSeed(p) \/ ReceiveSeed(p)

(* When both have their key it is the same one, unless the level is 192: there
   24 bytes are agreed on, of which AES-256 reads 32. *)
SeedsAgree ==
  (\A p \in Party : main[p] \notin {"start", "seed"}) =>
     (prfKey[SERVER] = prfKey[CLIENT] \/ (Level = 192 /\ inst.stray))
================================================================================
