------------------------------- MODULE KKOTProofs -------------------------------
(***************************************************************************)
(* Proofs about KKOT and the modules it is built on, CommonSeed and        *)
(* NaorPinkas: types, the keys of the base OTs, the threads' ends, what is *)
(* on its way between them and what the masks are, for every number of     *)
(* OTs, threads and blocks.                                                *)
(*                                                                         *)
(* The argument: until the extension begins, the places of the two main    *)
(* threads determine what socket 0 holds (Socket0) and which keys they     *)
(* have (KeysOK). From then on a thread is at a point between two of its   *)
(* rounds or inside one (ThreadsOK); what is behind it is written          *)
(* (MasksOK), and its socket holds the rounds that the client has sent and *)
(* the server has not taken (Underway). A main thread joins only what has  *)
(* ended (MainOK), although m_bRunning is set after the thread has begun   *)
(* to run.  A section is about BitMatrix alone: the transposition does     *)
(* what it promises, for every width. On it rests the last one: what every *)
(* thread has before it, has sent or has written are the masks of its      *)
(* rounds and their matrices (GInv), and two masks are compared by the     *)
(* code words that they are made of.                                       *)
(***************************************************************************)
EXTENDS KKOT, TaskPartitionProofs, SequenceTheorems, FiniteSetTheorems

(* The parts of a run in which a party has not begun the extension. *)
ServerBase == {"start", "seed", "base"}

ClientBase == {"start", "seed", "base", "keys"}

(* What the parties send over socket 0 before that. *)
SeedWords(p) == [w \in 1 .. KeyWords |-> Drawn(p)[w - 1]]

Points == <<inst.alpha, inst.tmp>>

PublicKeys == [k \in 1 .. CodeWordBits |-> PK0(Points, k - 1)]

(* The keys that the parties have when they have them. *)
ServerKeys ==
  LET dec == [k \in BaseOTs |-> Pow(inst.alpha, inst.pK[k])]
      stream == KeyStream(dec, [k \in BaseOTs |-> k], CodeWordBits)
  IN [k \in BaseOTs |-> AESKey(stream, k)]

ClientKeys ==
  LET PK0r(k) == Pow(PublicKeys[k + 1], inst.alpha)
      dlog == [c \in 0 .. 2 * CodeWordBits - 1 |->
                 IF c % 2 = 0 THEN PK0r(c \div 2)
                 ELSE Div(Pow(inst.tmp, inst.alpha), PK0r(c \div 2))]
      stream == KeyStream(dlog, [c \in 0 .. 2 * CodeWordBits - 1 |-> c \div 2],
                          2 * CodeWordBits)
  IN [c \in 0 .. 2 * CodeWordBits - 1 |-> AESKey(stream, c)]

States == {"start", "seed", "base", "keys", "create", "mark", "wait", "done"}

(* Where the two main threads are, relative to each other. *)
Together ==
  /\ inst \in Instances
  /\ main \in [Party -> States]
  /\ main[SERVER] # "keys"
  /\ main[SERVER] = "base" => main[CLIENT] # "start"
  /\ main[CLIENT] \in {"base", "keys"} => main[SERVER] # "start"
  /\ main[SERVER] \in ServerBase => main[CLIENT] \in ClientBase
  /\ main[SERVER] \notin ServerBase => main[CLIENT] \notin {"start", "seed", "base"}

(* What is on its way over socket 0 until the extension begins. *)
Socket0 ==
  /\ main[SERVER] \in ServerBase =>
       chan[SERVER][0] =
         (IF main[CLIENT] = "start" \/ main[SERVER] = "base" THEN <<>> ELSE SeedWords(CLIENT))
           \o (IF main[CLIENT] = "keys" THEN Points ELSE <<>>)
  /\ main[CLIENT] \in ClientBase =>
       chan[CLIENT][0] =
         (IF main[SERVER] = "start" \/ main[CLIENT] \notin {"start", "seed"} THEN <<>>
          ELSE SeedWords(SERVER))
           \o (IF main[SERVER] \in ServerBase THEN <<>> ELSE PublicKeys)

(* What the parties have agreed on. *)
KeysOK ==
  /\ DOMAIN prfKey = Party
  /\ \A p \in Party : main[p] \notin {"start", "seed"} =>
       prfKey[p] = PrfKey(p, Mixed(p, Drawn(Other(p))))
  /\ keySeeds = IF main[SERVER] \in ServerBase THEN <<>> ELSE ServerKeys
  /\ keySeedMtx = IF main[CLIENT] \in ClientBase THEN <<>> ELSE ClientKeys

(* One entry for each thread of each party; a channel holds a sequence. *)
TableOf(a, P, T) == a = [p \in P |-> [t \in T |-> a[p][t]]]

Put(a, q, u, r) == [a EXCEPT ![q] = [a[q] EXCEPT ![u] = r]]

IsTable(a) == TableOf(a, Party, Threads)

IsSeq(s) == \E S : s \in Seq(S)

Channels == IsTable(chan) /\ \A p \in Party, t \in Threads : IsSeq(chan[p][t])

Begun(p) == main[p] \in {"create", "mark", "wait", "done"}

(* What a thread keeps; no thread exists before the extension begins. *)
Fields == {"st", "ot_id", "jobs", "pos", "snd"}

Asleep ==
  /\ IsTable(th)
  /\ \A p \in Party, t \in Threads : DOMAIN th[p][t] = Fields
  /\ \A p \in Party, t \in Threads : th[p][t].st # "none" => Begun(p)

BaseInv == Together /\ Socket0 /\ KeysOK /\ Channels /\ Asleep

(* The loop variable of a main thread. *)
InRange ==
  /\ idx \in [Party -> Nat]
  /\ \A p \in Party :
       /\ ~ Begun(p) => idx[p] = 0
       /\ main[p] \in {"create", "mark", "wait"} => idx[p] < inst.threads
       /\ main[p] = "done" => idx[p] <= inst.threads

KeyInv == BaseInv /\ InRange

--------------------------------------------------------------------------------

(* The main thread's loops: which threads it has created, marked and joined. *)
Created(p, t) ==
  \/ main[p] = "create" /\ t < idx[p]
  \/ main[p] = "mark" /\ t <= idx[p]
  \/ main[p] = "wait"
  \/ main[p] = "done" /\ nOTs > 0

Marked(p, t) ==
  \/ main[p] \in {"create", "mark"} /\ t < idx[p]
  \/ main[p] = "wait"
  \/ main[p] = "done" /\ nOTs > 0

HasJoined(p, t) ==
  \/ main[p] = "wait" /\ t < idx[p]
  \/ main[p] = "done" /\ nOTs > 0

MainOK ==
  /\ running \in [Party -> [Threads -> BOOLEAN]]
  /\ \A p \in Party :
       /\ main[p] \in {"mark", "wait"} \/ (main[p] = "create" /\ idx[p] > 0) => nOTs > 0
       /\ \A t \in Threads :
            /\ th[p][t].st # "none" <=> Created(p, t)
            /\ Marked(p, t) /\ ~ running[p][t] => th[p][t].st = "ended"
            /\ HasJoined(p, t) => th[p][t].st = "ended"

(* The numbers at which a round of thread t can begin. *)
RoundSize == inst.numOTBlocks * CodeWordBits

Point(t, o) ==
  /\ o \in Nat
  /\ MyStartPos(t) <= o
  /\ o = MyStartPos(t) \/ o <= OtLim(t)
  /\ o = OtLim(t) \/ \E j \in Nat : o = MyStartPos(t) + j * RoundSize

Active(s) == s.st \in {"hash", "copy"}

(* The masks of the OTs from a up to b are among the jobs. *)
Covers(p, jobs, a, b) ==
  \A o \in a .. b - 1, e \in 0 .. NMasks(p) - 1 :
    StartingPos(p)[o] <= e /\ e < StartingPos(p)[o + 1] =>
      \E n \in 1 .. Len(jobs) : jobs[n].cell = e

JobsOK(p, jobs, a, b) ==
  /\ IsSeq(jobs)
  /\ \A n \in 1 .. Len(jobs) : jobs[n].cell \in (0 .. NMasks(p) - 1) \cup {NoCell}
  /\ Covers(p, jobs, a, b)

(* Where a thread is that has come to OT s.ot_id. *)
ThreadOK(p, t, s) ==
  /\ s.st \in {"none", "ready", "hash", "copy", "ended"}
  /\ DOMAIN s.jobs = {} \/ Active(s)
  /\ s.st # "none" => Point(t, s.ot_id)
  /\ s.st = "ended" => s.ot_id >= OtLim(t)
  /\ Active(s) =>
       /\ s.ot_id < OtLim(t)
       /\ JobsOK(p, s.jobs, s.ot_id, NextOtId(t, s.ot_id))
       /\ s.pos \in 1 .. Len(s.jobs) + 1
       /\ p = CLIENT => DOMAIN s.snd = 0 .. CodeWordBits * ProcessedOTs(t, s.ot_id) - 1
  /\ s.st = "copy" => s.pos <= Len(s.jobs)

ThreadsOK == \A p \in Party, t \in Threads : ThreadOK(p, t, th[p][t])

(* Those of the rounds before are written, and those of the jobs that are over. *)
Written(p, a, b) ==
  \A o \in a .. b - 1, e \in DOMAIN out[p] :
    StartingPos(p)[o] <= e /\ e < StartingPos(p)[o + 1] => out[p][e] # <<>>

JobsWritten(p, jobs, pos) ==
  \A n \in 1 .. pos - 1 : jobs[n].cell # NoCell => out[p][jobs[n].cell] # <<>>

MasksOK ==
  /\ DOMAIN out = Party /\ DOMAIN hashBuf = Party
  /\ \A p \in Party :
       /\ DOMAIN out[p] = 0 .. NMasks(p) - 1
       /\ \A t \in Threads :
            LET s == th[p][t]
            IN /\ s.st = "copy" => hashBuf[p] # <<>>
               /\ s.st # "none" => Written(p, MyStartPos(t), s.ot_id)
               /\ Active(s) => JobsWritten(p, s.jobs, s.pos)

(* The inductive invariant of what the extension computes. *)
IInv == KeyInv /\ MainOK /\ ThreadsOK /\ MasksOK

(* The bits of the rounds of thread t up to OT o. *)
Bits(t, o) == CodeWordBits * (CodeWordBits * CeilDivide(o - MyStartPos(t), CodeWordBits))

(* Where a thread is with what it sends, and with what it takes. *)
SentAt(t, s) == IF s.st = "none" THEN MyStartPos(t) ELSE s.ot_id

TakenAt(t, s) ==
  IF s.st = "none" THEN MyStartPos(t)
  ELSE IF Active(s) THEN NextOtId(t, s.ot_id) ELSE s.ot_id

(* What is under way to a thread of the server are the rounds between the two. *)
Underway ==
  /\ main[SERVER] \in ServerBase => \A t \in Threads : t # 0 => chan[SERVER][t] = <<>>
  /\ main[SERVER] \notin ServerBase =>
       \A t \in Threads :
         LET a == TakenAt(t, th[SERVER][t])
             b == SentAt(t, th[CLIENT][t])
         IN a <= b /\ Len(chan[SERVER][t]) = Bits(t, b) - Bits(t, a)
(***************************************************************************)
(* Sequences and tables.                                                   *)
(***************************************************************************)

(* The length and domain of a sequence; nothing put to it leaves it as it is. *)
LEMMA SeqFacts ==
  ASSUME NEW s, IsSeq(s)
  PROVE  /\ Len(s) \in Nat /\ DOMAIN s = 1 .. Len(s)
         /\ s \o <<>> = s /\ <<>> \o s = s
<1> PICK S : s \in Seq(S)
  BY DEF IsSeq
<1> QED
  BY LenProperties, ConcatEmptySeq

(* A function on 1 .. m that is given entry by entry is a sequence of m entries. *)
LEMMA ListIsSeq ==
  ASSUME NEW m \in Nat, NEW s, DOMAIN s = 1 .. m, s = [i \in 1 .. m |-> s[i]]
  PROVE  IsSeq(s) /\ Len(s) = m
<1> DEFINE S == {s[i] : i \in 1 .. m}
<1>1. s \in [1 .. m -> S]
  OBVIOUS
<1> HIDE DEF S
<1>2. s \in Seq(S)
  BY <1>1, SeqDef
<1> QED
  BY <1>2, LenProperties DEF IsSeq

(* Behind a sequence another one is put, and its first part is taken off. *)
LEMMA Joined ==
  ASSUME NEW s, IsSeq(s), NEW r, IsSeq(r)
  PROVE  /\ IsSeq(s \o r) /\ Len(s \o r) = Len(s) + Len(r)
         /\ \A i \in 1 .. Len(s) : (s \o r)[i] = s[i]
         /\ SubSeq(s \o r, Len(s) + 1, Len(s \o r)) = r
<1> PICK S : s \in Seq(S)
  BY DEF IsSeq
<1> PICK R : r \in Seq(R)
  BY DEF IsSeq
<1> DEFINE T == S \cup R
<1>1. s \in Seq(T) /\ r \in Seq(T)
  BY SeqMonotonic
<1> HIDE DEF T
<1>2. /\ s \o r \in Seq(T) /\ Len(s \o r) = Len(s) + Len(r)
      /\ \A i \in 1 .. Len(s) + Len(r) :
           (s \o r)[i] = IF i <= Len(s) THEN s[i] ELSE r[i - Len(s)]
  BY <1>1, ConcatProperties
<1>3. Len(s) \in Nat /\ Len(r) \in Nat
  BY <1>1, LenProperties
<1> DEFINE m == Len(s) + 1
           n == Len(s) + Len(r)
           u == SubSeq(s \o r, m, n)
<1>4. \A i \in m .. n : (s \o r)[i] \in T /\ (s \o r)[i] = r[i - Len(s)]
  <2>1. \A i \in m .. n : i \in 1 .. Len(s \o r) /\ ~(i <= Len(s))
    BY <1>2, <1>3
  <2>2. \A i \in 1 .. Len(s \o r) : (s \o r)[i] \in T
    BY <1>2, ElementOfSeq
  <2> QED
    BY <1>2, <2>1, <2>2
<1>5. m \in Int /\ n \in Int
  BY <1>3
<1>6. /\ u \in Seq(T) /\ Len(u) = IF m <= n THEN n - m + 1 ELSE 0
      /\ \A i \in 1 .. n - m + 1 : u[i] = (s \o r)[m + i - 1]
  <2> DEFINE w == s \o r
             v == SubSeq(w, m, n)
  <2>1. \A i \in m .. n : w[i] \in T
    BY <1>4
  <2> SUFFICES /\ v \in Seq(T) /\ Len(v) = IF m <= n THEN n - m + 1 ELSE 0
               /\ \A i \in 1 .. n - m + 1 : v[i] = w[m + i - 1]
    BY Zenon
  <2> HIDE DEF m, n, u, w
  <2> QED
    BY <2>1, <1>5, SubSeqProperties
<1>7. Len(u) = Len(r)
  BY <1>6, <1>3
<1>8. \A i \in 1 .. Len(r) : u[i] = r[i]
  <2> SUFFICES ASSUME NEW i \in 1 .. Len(r) PROVE u[i] = r[i]
    OBVIOUS
  <2>1. i \in 1 .. n - m + 1 /\ m + i - 1 \in m .. n /\ (m + i - 1) - Len(s) = i
    BY <1>3
  <2>2. u[i] = (s \o r)[m + i - 1]
    BY <2>1, <1>6
  <2>3. (s \o r)[m + i - 1] = r[(m + i - 1) - Len(s)]
    <3> HIDE DEF m, n, u
    <3> QED
      BY <2>1, <1>4
  <2> QED
    BY <2>1, <2>2, <2>3
<1>9. u = r
  <2> HIDE DEF u
  <2> QED
    BY <1>1, <1>6, <1>7, <1>8, SeqEqual
<1>10. \A i \in 1 .. Len(s) : (s \o r)[i] = s[i]
  BY <1>2, <1>3
<1> QED
  BY <1>2, <1>9, <1>10 DEF IsSeq

(* What remains of a sequence when its first n elements are taken. *)
LEMMA TakenOff ==
  ASSUME NEW s, IsSeq(s), NEW n \in Nat, n <= Len(s)
  PROVE  IsSeq(SubSeq(s, n + 1, Len(s))) /\ Len(SubSeq(s, n + 1, Len(s))) = Len(s) - n
<1> PICK S : s \in Seq(S)
  BY DEF IsSeq
<1>1. Len(s) \in Nat
  BY LenProperties
<1> DEFINE m == n + 1
           k == Len(s)
<1>2. m \in Int /\ k \in Int
  BY <1>1
<1>3. \A i \in m .. k : s[i] \in S
  <2>1. \A i \in m .. k : i \in 1 .. Len(s)
    BY <1>1
  <2> QED
    BY <2>1, ElementOfSeq
<1>4. (IF m <= k THEN k - m + 1 ELSE 0) = Len(s) - n
  BY <1>1
<1> HIDE DEF m, k
<1>5. SubSeq(s, m, k) \in Seq(S) /\ Len(SubSeq(s, m, k)) = IF m <= k THEN k - m + 1 ELSE 0
  BY <1>2, <1>3, SubSeqProperties
<1>6. SubSeq(s, m, k) \in Seq(S) /\ Len(SubSeq(s, m, k)) = Len(s) - n
  BY <1>4, <1>5
<1> QED
  BY <1>6 DEF IsSeq, m, k

(* Another value at one place of a table, and nothing else. *)
LEMMA Placed ==
  ASSUME NEW P, NEW T, NEW a, TableOf(a, P, T),
         NEW q \in P, NEW u \in T, NEW r
  PROVE  /\ TableOf(Put(a, q, u, r), P, T)
         /\ \A p \in P, t \in T : Put(a, q, u, r)[p][t] = IF p = q /\ t = u THEN r ELSE a[p][t]
         /\ \A p \in P : p # q => Put(a, q, u, r)[p] = a[p]
<1> DEFINE b == Put(a, q, u, r)
<1>0. a = [p \in P |-> [t \in T |-> a[p][t]]]
  BY DEF TableOf
<1>1. DOMAIN a = P /\ \A p \in P : a[p] = [t \in T |-> a[p][t]]
  <2>1. DOMAIN a = P
    BY <1>0, Zenon
  <2>2. ASSUME NEW p \in P PROVE a[p] = [t \in T |-> a[p][t]]
    BY <1>0, Zenon
  <2> QED
    BY <2>1, <2>2
<1>2. \A p \in P : DOMAIN a[p] = T
  BY <1>1, Zenon
<1>3. DOMAIN b = P /\ b = [p \in P |-> b[p]]
  BY <1>1 DEF Put
<1>4. \A p \in P : p # q => b[p] = a[p]
  BY <1>1 DEF Put
<1>5. b[q] = [a[q] EXCEPT ![u] = r]
  BY <1>1 DEF Put
<1> HIDE DEF b
<1>6. DOMAIN b[q] = T /\ b[q] = [t \in T |-> b[q][t]] /\ \A t \in T : b[q][t] = IF t = u THEN r ELSE a[q][t]
  BY <1>2, <1>5
<1>7. \A p \in P : b[p] = [t \in T |-> b[p][t]]
  <2> SUFFICES ASSUME NEW p \in P PROVE b[p] = [t \in T |-> b[p][t]]
    OBVIOUS
  <2>1. CASE p = q
    BY <1>6, <2>1, Zenon
  <2>2. CASE p # q
    <3>1. b[p] = a[p]
      BY <1>4, <2>2
    <3> QED
      BY <3>1, <1>1, Zenon
  <2> QED
    BY <2>1, <2>2
<1>8. b = [p \in P |-> [t \in T |-> b[p][t]]]
  BY <1>3, <1>7
<1>9. \A p \in P, t \in T : b[p][t] = IF p = q /\ t = u THEN r ELSE a[p][t]
  BY <1>4, <1>6
<1> QED
  BY <1>4, <1>8, <1>9 DEF TableOf, b

(***************************************************************************)
(* The common seed and the base OTs.                                       *)
(***************************************************************************)

LEMMA Parties ==
  /\ CLIENT \in Party /\ SERVER \in Party /\ CLIENT # SERVER
  /\ Other(SERVER) = CLIENT /\ Other(CLIENT) = SERVER
  /\ \A p \in Party : p = SERVER \/ p = CLIENT
  /\ \A p \in Party : Other(p) \in Party /\ Other(p) # p
BY PartiesDiffer DEF Party, Other

(* The sizes that an instance fixes. *)
LEMMA Sizes ==
  ASSUME inst \in Instances
  PROVE  /\ inst.threads \in Nat \ {0} /\ 0 \in Threads
         /\ KeyWords \in {2, 3, 4} /\ CodeWordBits \in Nat \ {0}
<1>1. inst.threads \in Nat \ {0}
  BY TablesOK
<1>2. 0 \in Threads
  BY <1>1 DEF Threads
<1> QED
  BY <1>1, <1>2, GroupOK DEF KeyWords

(* What depends on the instance alone. *)
LEMMA Static ==
  ASSUME inst' = inst
  PROVE  /\ Threads' = Threads /\ KeyWords' = KeyWords /\ Points' = Points
         /\ PublicKeys' = PublicKeys
         /\ ServerKeys' = ServerKeys /\ ClientKeys' = ClientKeys
         /\ SeedWords(SERVER)' = SeedWords(SERVER) /\ SeedWords(CLIENT)' = SeedWords(CLIENT)
<1>1. Threads' = Threads
  BY DEF Threads
<1>2. KeyWords' = KeyWords /\ AesWords' = AesWords
  BY DEF KeyWords, AesWords, Level
<1>3. Points' = Points
  BY DEF Points
<1>4. PublicKeys' = PublicKeys
  BY <1>3 DEF PublicKeys, PK0
<1>5. ServerKeys' = ServerKeys
  BY <1>2 DEF ServerKeys, KeyStream, AESKey
<1>6. ClientKeys' = ClientKeys
  BY <1>2, <1>4 DEF ClientKeys, KeyStream, AESKey
<1>7. SeedWords(SERVER)' = SeedWords(SERVER) /\ SeedWords(CLIENT)' = SeedWords(CLIENT)
  BY <1>2 DEF SeedWords, Drawn
<1> QED
  BY <1>1, <1>2, <1>3, <1>4, <1>5, <1>6, <1>7

(* The key of the generator of a party depends on the inputs alone. *)
LEMMA StaticKey ==
  ASSUME inst' = inst, NEW p \in Party
  PROVE  PrfKey(p, Mixed(p, Drawn(Other(p))))' = PrfKey(p, Mixed(p, Drawn(Other(p))))
<1>1. KeyWords' = KeyWords /\ AesWords' = AesWords
  BY DEF KeyWords, AesWords, Level
<1>2. \A w : Behind(p, w)' = Behind(p, w)
  BY DEF Behind
<1>3. \A q : Drawn(q)' = Drawn(q)
  BY <1>1 DEF Drawn
<1>4. Mixed(p, Drawn(Other(p)))' = Mixed(p, Drawn(Other(p)))
  BY <1>1, <1>3 DEF Mixed
<1> QED
  BY <1>1, <1>2, <1>4 DEF PrfKey

(* What the parties send before the extension is in sequences of known lengths. *)
LEMMA Words ==
  ASSUME inst \in Instances
  PROVE  /\ \A p \in Party : IsSeq(SeedWords(p)) /\ Len(SeedWords(p)) = KeyWords
         /\ IsSeq(Points) /\ Len(Points) = 2
         /\ IsSeq(PublicKeys) /\ Len(PublicKeys) = CodeWordBits
         /\ IsSeq(<<>>) /\ Len(<<>>) = 0
<1>1. KeyWords \in Nat /\ CodeWordBits \in Nat
  BY Sizes
<1>2. ASSUME NEW p \in Party PROVE IsSeq(SeedWords(p)) /\ Len(SeedWords(p)) = KeyWords
  <2> DEFINE s == SeedWords(p)
  <2>1. DOMAIN s = 1 .. KeyWords /\ s = [i \in 1 .. KeyWords |-> s[i]]
    BY DEF SeedWords
  <2> HIDE DEF s
  <2> QED
    BY <1>1, <2>1, ListIsSeq DEF s
<1>3. IsSeq(PublicKeys) /\ Len(PublicKeys) = CodeWordBits
  <2> DEFINE s == PublicKeys
  <2>1. DOMAIN s = 1 .. CodeWordBits /\ s = [i \in 1 .. CodeWordBits |-> s[i]]
    BY DEF PublicKeys
  <2> HIDE DEF s
  <2> QED
    BY <1>1, <2>1, ListIsSeq DEF s
<1>4. IsSeq(Points) /\ Len(Points) = 2
  <2> DEFINE S == {inst.alpha, inst.tmp}
  <2>1. Points \in Seq(S) /\ Len(Points) = 2
    BY DEF Points
  <2> QED
    BY <2>1 DEF IsSeq
<1>5. IsSeq(<<>>) /\ Len(<<>>) = 0
  <2>1. <<>> \in Seq({}) /\ Len(<<>>) = 0
    BY EmptySeq
  <2> QED
    BY <2>1 DEF IsSeq
<1> QED
  BY <1>2, <1>3, <1>4, <1>5

(* At the start nothing is under way and no thread exists. *)
LEMMA InitBase == Init => BaseInv
<1> SUFFICES ASSUME Init PROVE BaseInv
  OBVIOUS
<1>0. /\ inst \in Instances /\ main = [p \in Party |-> "start"]
      /\ chan = [p \in Party |-> [t \in Threads |-> <<>>]]
      /\ th = [p \in Party |-> [t \in Threads |-> Idle]]
      /\ keySeeds = <<>> /\ keySeedMtx = <<>> /\ prfKey = [p \in Party |-> <<>>]
  BY Zenon DEF Init, BaseInit, SeedInit, Threads
<1>1. inst \in Instances
  BY <1>0
<1>2. main = [p \in Party |-> "start"]
  BY <1>0
<1>3. \A p \in Party : main[p] = "start"
  BY <1>2
<1>4. Together
  BY <1>1, <1>2, <1>3, Parties DEF Together, States, ServerBase, ClientBase
<1>5. chan = [p \in Party |-> [t \in Threads |-> <<>>]]
  BY <1>0
<1>6. \A p \in Party, t \in Threads : chan[p][t] = <<>>
  BY <1>5, Zenon
<1>7. 0 \in Threads /\ <<>> \o <<>> = <<>>
  BY <1>1, Sizes, Words, SeqFacts
<1>8. Socket0
  <2>1. chan[SERVER][0] = <<>> /\ chan[CLIENT][0] = <<>> /\ main[SERVER] = "start" /\ main[CLIENT] = "start"
    BY <1>3, <1>6, <1>7, Parties
  <2> QED
    BY <2>1, <1>7 DEF Socket0, ServerBase
<1>9. KeysOK
  BY <1>0, <1>3, Parties DEF KeysOK, ServerBase, ClientBase
<1>10. Channels
  <2>1. IsTable(chan)
    BY <1>5, <1>6 DEF IsTable, TableOf
  <2>2. \A p \in Party, t \in Threads : IsSeq(chan[p][t])
    BY <1>6, <1>1, Words
  <2> QED
    BY <2>1, <2>2 DEF Channels
<1>11. Asleep
  <2>1. th = [p \in Party |-> [t \in Threads |-> Idle]]
    BY <1>0
  <2>2. \A p \in Party, t \in Threads : th[p][t] = Idle
    BY <2>1
  <2>3. IsTable(th)
    BY <2>1, <2>2 DEF IsTable, TableOf
  <2>4. Idle.st = "none" /\ DOMAIN Idle = Fields
    BY DEF Idle, Fields
  <2>5. \A p \in Party, t \in Threads : th[p][t].st = "none" /\ DOMAIN th[p][t] = Fields
    BY <2>2, <2>4
  <2> QED
    BY <2>3, <2>5 DEF Asleep
<1> QED
  BY <1>4, <1>8, <1>9, <1>10, <1>11 DEF BaseInv

(* One channel is replaced and the others stay. *)
LEMMA ChannelPlaced ==
  ASSUME inst' = inst, Channels, NEW q \in Party, NEW u \in Threads, NEW s, IsSeq(s),
         chan' = Put(chan, q, u, s)
  PROVE  /\ Channels'
         /\ \A p \in Party, t \in Threads :
              chan'[p][t] = IF p = q /\ t = u THEN s ELSE chan[p][t]
         /\ \A p \in Party : p # q => chan'[p] = chan[p]
<1>1. Threads' = Threads
  BY Static
<1>2. TableOf(chan, Party, Threads)
  BY DEF Channels, IsTable
<1> DEFINE b == chan'
<1>3. /\ TableOf(b, Party, Threads)
      /\ \A p \in Party, t \in Threads : b[p][t] = IF p = q /\ t = u THEN s ELSE chan[p][t]
      /\ \A p \in Party : p # q => b[p] = chan[p]
  <2>1. b = Put(chan, q, u, s)
    OBVIOUS
  <2> HIDE DEF b
  <2> QED
    BY <1>2, <2>1, Placed
<1>4. \A p \in Party, t \in Threads : IsSeq(b[p][t])
  BY <1>3 DEF Channels
<1>5. Channels'
  <2>1. IsTable(chan)'
    BY <1>1, <1>3 DEF IsTable, TableOf
  <2>2. (\A p \in Party, t \in Threads : IsSeq(chan[p][t]))'
    BY <1>1, <1>4 DEF IsSeq
  <2> QED
    BY <2>1, <2>2 DEF Channels
<1> QED
  BY <1>3, <1>5

(* One main thread moves and the other stays. *)
LEMMA MainMoves ==
  ASSUME main \in [Party -> States], NEW p \in Party, NEW x \in States,
         main' = [main EXCEPT ![p] = x]
  PROVE  main' \in [Party -> States] /\ \A q \in Party : main'[q] = IF q = p THEN x ELSE main[q]
OBVIOUS

(* Threads that do not move stay asleep. *)
LEMMA StillAsleep ==
  ASSUME Asleep, inst' = inst, th' = th, \A p \in Party : Begun(p) => Begun(p)'
  PROVE  Asleep'
<1>1. Threads' = Threads
  BY Static
<1>2. IsTable(th)'
  BY <1>1 DEF Asleep, IsTable, TableOf
<1> QED
  BY <1>1, <1>2 DEF Asleep, Fields

(* A step that leaves the keys and the phases alone keeps what is known of the keys. *)
LEMMA KeysStay ==
  ASSUME KeysOK, inst' = inst, UNCHANGED <<prfKey, keySeeds, keySeedMtx>>,
         \A p \in Party : main'[p] \in {"start", "seed"} <=> main[p] \in {"start", "seed"},
         main'[SERVER] \in ServerBase <=> main[SERVER] \in ServerBase,
         main'[CLIENT] \in ClientBase <=> main[CLIENT] \in ClientBase
  PROVE  KeysOK'
<1>1. ServerKeys' = ServerKeys /\ ClientKeys' = ClientKeys
  BY Static
<1>2. \A p \in Party : PrfKey(p, Mixed(p, Drawn(Other(p))))' = PrfKey(p, Mixed(p, Drawn(Other(p))))
  BY StaticKey
<1>3. (\A p \in Party : main[p] \notin {"start", "seed"} =>
         prfKey[p] = PrfKey(p, Mixed(p, Drawn(Other(p)))))'
  BY <1>2 DEF KeysOK
<1>4. (keySeeds = IF main[SERVER] \in ServerBase THEN <<>> ELSE ServerKeys)'
  <2>1. ServerBase' = ServerBase
    BY DEF ServerBase
  <2> QED
    BY <1>1, <2>1 DEF KeysOK
<1>5. (keySeedMtx = IF main[CLIENT] \in ClientBase THEN <<>> ELSE ClientKeys)'
  <2>1. ClientBase' = ClientBase
    BY DEF ClientBase
  <2> QED
    BY <1>1, <2>1 DEF KeysOK
<1> QED
  BY <1>3, <1>4, <1>5 DEF KeysOK

(* The channel to a party before it has begun, as a function of where both are. *)
LEMMA Plain ==
  ASSUME inst \in Instances
  PROVE  /\ <<>> \o <<>> = <<>>
         /\ <<>> \o Points = Points /\ <<>> \o PublicKeys = PublicKeys
         /\ \A p \in Party : SeedWords(p) \o <<>> = SeedWords(p) /\ <<>> \o SeedWords(p) = SeedWords(p)
BY Words, SeqFacts

(* Sending the seed (ot-psi.cpp, the common seed) keeps the base invariant. *)
LEMMA SendSeedStep ==
  ASSUME BaseInv, NEW p \in Party, SendSeed(p), UNCHANGED <<keySeeds, keySeedMtx, th>>
  PROVE  BaseInv'
<1> DEFINE o == Other(p)
<1>1. /\ main[p] = "start" /\ main' = [main EXCEPT ![p] = "seed"] /\ inst' = inst /\ prfKey' = prfKey
      /\ chan' = Put(chan, o, 0, chan[o][0] \o SeedWords(p))
  BY Zenon DEF Put,  SendSeed, SeedWords
<1>2. /\ inst \in Instances /\ main \in [Party -> States] /\ "seed" \in States
      /\ Together /\ Socket0 /\ KeysOK /\ Channels /\ Asleep
  BY DEF BaseInv, Together, States
<1>3. main' \in [Party -> States] /\ \A q \in Party : main'[q] = IF q = p THEN "seed" ELSE main[q]
  BY <1>1, <1>2, MainMoves
<1>4. o \in Party /\ o # p /\ 0 \in Threads
  BY <1>2, Parties, Sizes
<1>5. IsSeq(chan[o][0] \o SeedWords(p))
  BY <1>2, <1>4, Words, Joined DEF Channels
<1>6. /\ Channels' /\ \A q \in Party, t \in Threads :
              chan'[q][t] = IF q = o /\ t = 0 THEN chan[o][0] \o SeedWords(p) ELSE chan[q][t]
  BY <1>1, <1>2, <1>4, <1>5, ChannelPlaced
<1>7. chan'[o][0] = chan[o][0] \o SeedWords(p) /\ chan'[p][0] = chan[p][0]
  BY <1>4, <1>6
<1>8. Asleep'
  BY <1>1, <1>2, <1>3, StillAsleep DEF Begun
<1>9. Together'
  BY <1>1, <1>2, <1>3, Parties DEF Together, ServerBase, ClientBase, States
<1>10. KeysOK'
  BY <1>1, <1>2, <1>3, Parties, KeysStay DEF ServerBase, ClientBase
<1>11. Socket0'
  <2>1. /\ Points' = Points /\ PublicKeys' = PublicKeys /\ SeedWords(SERVER)' = SeedWords(SERVER)
        /\ SeedWords(CLIENT)' = SeedWords(CLIENT)
    BY <1>1, Static
  <2>2. CASE p = SERVER
    <3>1. o = CLIENT /\ main[CLIENT] \in {"start", "seed"}
      BY <1>1, <1>2, <2>2, Parties DEF Together, ServerBase, ClientBase
    <3>2. chan[CLIENT][0] = <<>>
      BY <1>1, <1>2, <2>2, <3>1, Plain DEF Socket0, ServerBase, ClientBase
    <3>3. chan'[CLIENT][0] = SeedWords(SERVER) /\ chan'[SERVER][0] = chan[SERVER][0]
      BY <1>2, <1>7, <2>2, <3>1, <3>2, Plain
    <3>4. main'[SERVER] = "seed" /\ main'[CLIENT] = main[CLIENT]
      BY <1>3, <2>2, Parties
    <3>5. chan'[SERVER][0] =
             (IF main'[CLIENT] = "start" \/ main'[SERVER] = "base" THEN <<>> ELSE SeedWords(CLIENT)')
               \o (IF main'[CLIENT] = "keys" THEN Points' ELSE <<>>)
      BY <1>1, <1>2, <2>1, <2>2, <3>1, <3>3, <3>4, Plain DEF Socket0, ServerBase
    <3>6. chan'[CLIENT][0] =
             (IF main'[SERVER] = "start" \/ main'[CLIENT] \notin {"start", "seed"} THEN <<>>
              ELSE SeedWords(SERVER)')
               \o (IF main'[SERVER] \in ServerBase THEN <<>> ELSE PublicKeys')
      BY <1>1, <1>2, <2>1, <2>2, <3>1, <3>3, <3>4, Plain DEF Socket0, ServerBase, ClientBase
    <3> QED
      BY Zenon, <3>5, <3>6 DEF Socket0
  <2>3. CASE p = CLIENT
    <3>1. o = SERVER /\ main[SERVER] \in {"start", "seed"}
      BY <1>1, <1>2, <2>3, Parties DEF Together, ServerBase, ClientBase, States
    <3>2. chan[SERVER][0] = <<>>
      BY <1>1, <1>2, <2>3, <3>1, Plain DEF Socket0, ServerBase, ClientBase
    <3>3. chan'[SERVER][0] = SeedWords(CLIENT) /\ chan'[CLIENT][0] = chan[CLIENT][0]
      BY <1>2, <1>7, <2>3, <3>1, <3>2, Plain
    <3>4. main'[CLIENT] = "seed" /\ main'[SERVER] = main[SERVER]
      BY <1>3, <2>3, Parties
    <3>5. chan'[SERVER][0] =
             (IF main'[CLIENT] = "start" \/ main'[SERVER] = "base" THEN <<>> ELSE SeedWords(CLIENT)')
               \o (IF main'[CLIENT] = "keys" THEN Points' ELSE <<>>)
      BY <1>1, <1>2, <2>1, <2>3, <3>1, <3>3, <3>4, Plain DEF Socket0, ServerBase
    <3>6. chan'[CLIENT][0] =
             (IF main'[SERVER] = "start" \/ main'[CLIENT] \notin {"start", "seed"} THEN <<>>
              ELSE SeedWords(SERVER)')
               \o (IF main'[SERVER] \in ServerBase THEN <<>> ELSE PublicKeys')
      BY <1>1, <1>2, <2>1, <2>3, <3>1, <3>3, <3>4, Plain DEF Socket0, ServerBase, ClientBase
    <3> QED
      BY Zenon, <3>5, <3>6 DEF Socket0
  <2> QED
    BY <2>2, <2>3, Parties
<1> QED
  BY <1>6, <1>8, <1>9, <1>10, <1>11 DEF BaseInv

FirstWords(s) == [w \in 0 .. KeyWords - 1 |-> s[w + 1]]

(* The seed at the head of a channel, as the receiver takes it. *)
LEMMA SeedTaken ==
  ASSUME inst \in Instances, NEW q \in Party, NEW rest, IsSeq(rest)
  PROVE  /\ FirstWords(SeedWords(q) \o rest) = Drawn(q)
         /\ SubSeq(SeedWords(q) \o rest, KeyWords + 1, Len(SeedWords(q) \o rest)) = rest
<1> DEFINE s == SeedWords(q) \o rest
<1>1. KeyWords \in Nat /\ IsSeq(SeedWords(q)) /\ Len(SeedWords(q)) = KeyWords
  BY Sizes, Words
<1>2. /\ \A i \in 1 .. KeyWords : s[i] = SeedWords(q)[i]
      /\ SubSeq(s, KeyWords + 1, Len(s)) = rest
  BY <1>1, Joined
<1> HIDE DEF s
<1>3. ASSUME NEW w \in 0 .. KeyWords - 1 PROVE s[w + 1] = Drawn(q)[w]
  <2>1. w + 1 \in 1 .. KeyWords /\ (w + 1) - 1 = w
    BY <1>1
  <2>2. SeedWords(q)[w + 1] = Drawn(q)[(w + 1) - 1]
    BY <2>1 DEF SeedWords
  <2> QED
    BY <1>2, <2>1, <2>2
<1>4. Drawn(q) = [w \in 0 .. KeyWords - 1 |-> Drawn(q)[w]]
  BY DEF Drawn
<1>5. FirstWords(s) = [w \in 0 .. KeyWords - 1 |-> Drawn(q)[w]]
  BY <1>3 DEF FirstWords
<1> QED
  BY <1>2, <1>4, <1>5 DEF s

(* What is on its way to the party that receives the seed. *)
LEMMA SeedArrived ==
  ASSUME BaseInv, NEW p \in Party, main[p] = "seed", Len(chan[p][0]) >= KeyWords
  PROVE  /\ chan[p][0] = SeedWords(Other(p)) \o
                (IF p = SERVER /\ main[CLIENT] = "keys" THEN Points ELSE <<>>)
         /\ main[Other(p)] # "start"
<1>1. inst \in Instances /\ Together /\ Socket0 /\ KeyWords >= 2 /\ KeyWords \in Nat
  <2>1. inst \in Instances /\ Together /\ Socket0
    BY DEF BaseInv, Together
  <2> QED
    BY <2>1, Sizes
<1>2. Len(<<>>) = 0 /\ <<>> \o <<>> = <<>>
  BY <1>1, Words, Plain
<1>3. CASE p = SERVER
  <2>1. chan[SERVER][0] =
          (IF main[CLIENT] = "start" THEN <<>> ELSE SeedWords(CLIENT))
             \o (IF main[CLIENT] = "keys" THEN Points ELSE <<>>)
    BY <1>1, <1>3 DEF Socket0, ServerBase
  <2>2. ASSUME main[CLIENT] = "start" PROVE FALSE
    <3>1. chan[SERVER][0] = <<>> \o <<>>
      BY <2>1, <2>2
    <3>2. Len(chan[SERVER][0]) = 0
      BY <3>1, <1>2
    <3> QED
      BY <1>1, <1>3, <3>2
  <2> QED
    BY <1>3, <2>1, <2>2, Parties
<1>4. CASE p = CLIENT
  <2>1. main[SERVER] \in ServerBase
    BY <1>1, <1>4 DEF Together
  <2>2. chan[CLIENT][0] =
          (IF main[SERVER] = "start" THEN <<>> ELSE SeedWords(SERVER)) \o <<>>
    BY <1>1, <1>4, <2>1 DEF Socket0, ClientBase
  <2>3. main[SERVER] # "start"
    BY <1>1, <1>2, <1>4, <2>2
  <2> QED
    BY <1>4, <2>2, <2>3, Parties
<1> QED
  BY <1>3, <1>4, Parties

(* So does receiving the seed of the other party, *)
LEMMA ReceiveSeedStep ==
  ASSUME BaseInv, NEW p \in Party, ReceiveSeed(p), UNCHANGED <<keySeeds, keySeedMtx, th>>
  PROVE  BaseInv'
<1> DEFINE o == Other(p)
           rest == IF p = SERVER /\ main[CLIENT] = "keys" THEN Points ELSE <<>>
           s == chan[p][0]
           rcv == FirstWords(s)
<1>1. /\ main[p] = "seed" /\ main' = [main EXCEPT ![p] = "base"] /\ inst' = inst
      /\ Len(chan[p][0]) >= KeyWords
      /\ prfKey' = [prfKey EXCEPT ![p] = PrfKey(p, Mixed(p, rcv))]
      /\ chan' = Put(chan, p, 0, SubSeq(s, KeyWords + 1, Len(s)))
  BY Zenon DEF ReceiveSeed, Put, FirstWords
<1>2. /\ inst \in Instances /\ main \in [Party -> States] /\ "base" \in States
      /\ Together /\ Socket0 /\ KeysOK /\ Channels /\ Asleep
  BY DEF BaseInv, Together, States
<1>3. main' \in [Party -> States] /\ \A q \in Party : main'[q] = IF q = p THEN "base" ELSE main[q]
  BY <1>1, <1>2, MainMoves
<1>4. o \in Party /\ o # p /\ 0 \in Threads
  BY <1>2, Parties, Sizes
<1>5. s = SeedWords(o) \o rest /\ main[o] # "start"
  BY <1>1, SeedArrived
<1>6. IsSeq(rest)
  BY <1>2, Words
<1>7. rcv = Drawn(o) /\ SubSeq(s, KeyWords + 1, Len(s)) = rest
  <2> HIDE DEF rest, o, s
  <2> QED
    BY <1>2, <1>4, <1>5, <1>6, SeedTaken
<1>8. /\ Channels'
      /\ \A q \in Party, t \in Threads : chan'[q][t] = IF q = p /\ t = 0 THEN rest ELSE chan[q][t]
  <2>1. chan' = Put(chan, p, 0, rest)
    BY <1>1, <1>7
  <2>2. inst' = inst /\ Channels
    BY <1>1, <1>2
  <2> HIDE DEF rest, o, s
  <2> QED
    BY <2>1, <2>2, <1>4, <1>6, ChannelPlaced
<1>9. chan'[p][0] = rest /\ chan'[o][0] = chan[o][0]
  BY <1>4, <1>8
<1>10. Asleep'
  BY <1>1, <1>2, <1>3, StillAsleep DEF Begun
<1>11. Together'
  <2>1. CASE p = SERVER
    <3>1. o = CLIENT /\ main'[SERVER] = "base" /\ main'[CLIENT] = main[CLIENT]
      BY <1>3, <2>1, Parties
    <3> QED
      BY <1>1, <1>2, <1>3, <1>5, <2>1, <3>1 DEF Together, ServerBase, ClientBase
  <2>2. CASE p = CLIENT
    <3>1. o = SERVER /\ main'[CLIENT] = "base" /\ main'[SERVER] = main[SERVER]
      BY <1>3, <2>2, Parties
    <3> QED
      BY <1>1, <1>2, <1>3, <1>5, <2>2, <3>1 DEF Together, ServerBase, ClientBase
  <2> QED
    BY <2>1, <2>2, Parties
<1>12. KeysOK'
  <2> DEFINE key(q) == PrfKey(q, Mixed(q, Drawn(Other(q))))
  <2>1. \A q \in Party : key(q)' = key(q)
    BY <1>1, StaticKey
  <2>2. \A q \in Party : main'[q] \notin {"start", "seed"} => prfKey'[q] = key(q)
    <3> SUFFICES ASSUME NEW q \in Party, main'[q] \notin {"start", "seed"}
                 PROVE  prfKey'[q] = key(q)
      OBVIOUS
    <3>1. CASE q = p
      <4>1. p \in DOMAIN prfKey
        BY <1>2 DEF KeysOK
      <4>2. prfKey'[p] = PrfKey(p, Mixed(p, rcv))
        BY <1>1, <4>1
      <4> QED
        BY <3>1, <4>2, <1>7
    <3>2. CASE q # p
      BY <1>1, <1>2, <1>3, <3>2 DEF KeysOK
    <3> QED
      BY <3>1, <3>2
  <2>3. /\ ServerKeys' = ServerKeys /\ ClientKeys' = ClientKeys
        /\ ServerBase' = ServerBase /\ ClientBase' = ClientBase
    BY <1>1, Static DEF ServerBase, ClientBase
  <2>4. /\ main'[SERVER] \in ServerBase <=> main[SERVER] \in ServerBase
        /\ main'[CLIENT] \in ClientBase <=> main[CLIENT] \in ClientBase
    BY <1>1, <1>3, Parties DEF ServerBase, ClientBase
  <2>5. /\ keySeeds' = (IF main'[SERVER] \in ServerBase THEN <<>> ELSE ServerKeys)
        /\ keySeedMtx' = (IF main'[CLIENT] \in ClientBase THEN <<>> ELSE ClientKeys)
    BY <1>2, <2>4 DEF KeysOK
  <2>6. (\A q \in Party : main[q] \notin {"start", "seed"} =>
           prfKey[q] = PrfKey(q, Mixed(q, Drawn(Other(q)))))'
    BY <2>1, <2>2
  <2>7. DOMAIN prfKey' = Party
    BY <1>1, <1>2 DEF KeysOK
  <2> HIDE DEF key, rcv
  <2> QED
    BY <2>3, <2>5, <2>6, <2>7 DEF KeysOK
<1>13. Socket0'
  <2>1. /\ Points' = Points /\ PublicKeys' = PublicKeys /\ SeedWords(SERVER)' = SeedWords(SERVER)
        /\ SeedWords(CLIENT)' = SeedWords(CLIENT)
    BY <1>1, Static
  <2>2. CASE p = SERVER
    <3>1. o = CLIENT /\ main'[SERVER] = "base" /\ main'[CLIENT] = main[CLIENT]
      BY <1>3, <2>2, Parties
    <3>2. chan'[SERVER][0] = rest /\ chan'[CLIENT][0] = chan[CLIENT][0]
      BY <1>9, <2>2, <3>1
    <3>3. rest = <<>> \o (IF main[CLIENT] = "keys" THEN Points ELSE <<>>)
      BY <1>2, <2>2, Plain
    <3> HIDE DEF rest
    <3> QED
      BY <1>1, <1>2, <2>1, <2>2, <3>1, <3>2, <3>3 DEF Socket0, ServerBase, ClientBase
  <2>3. CASE p = CLIENT
    <3>1. o = SERVER /\ main'[CLIENT] = "base" /\ main'[SERVER] = main[SERVER]
      BY <1>3, <2>3, Parties
    <3>2. chan'[CLIENT][0] = <<>> /\ chan'[SERVER][0] = chan[SERVER][0]
      BY <1>9, <2>3, <3>1, Parties
    <3>3. main[SERVER] \in ServerBase /\ <<>> \o <<>> = <<>>
      BY <1>1, <1>2, <2>3, Plain DEF Together
    <3> QED
      BY <1>1, <1>2, <2>1, <2>3, <3>1, <3>2, <3>3 DEF Socket0, ServerBase, ClientBase
  <2> QED
    BY <2>2, <2>3, Parties
<1> QED
  BY <1>8, <1>10, <1>11, <1>12, <1>13 DEF BaseInv

(* sending the two points of the base OT, *)
LEMMA SendPointsStep ==
  ASSUME BaseInv, SendPoints, UNCHANGED th
  PROVE  BaseInv'
<1>1. /\ main[CLIENT] = "base" /\ main' = [main EXCEPT ![CLIENT] = "keys"] /\ inst' = inst
      /\ UNCHANGED <<prfKey, keySeeds, keySeedMtx>>
      /\ chan' = Put(chan, SERVER, 0, chan[SERVER][0] \o Points)
  BY Zenon DEF SendPoints, Points, Put
<1>2. /\ inst \in Instances /\ main \in [Party -> States] /\ "keys" \in States
      /\ Together /\ Socket0 /\ KeysOK /\ Channels /\ Asleep
  BY DEF BaseInv, Together, States
<1>3. main' \in [Party -> States] /\ main'[CLIENT] = "keys" /\ main'[SERVER] = main[SERVER]
      /\ \A q \in Party : main'[q] = IF q = CLIENT THEN "keys" ELSE main[q]
  BY <1>1, <1>2, MainMoves, Parties
<1>4. 0 \in Threads /\ SERVER \in Party /\ CLIENT \in Party /\ SERVER # CLIENT
  BY <1>2, Parties, Sizes
<1>5. IsSeq(chan[SERVER][0] \o Points)
  BY <1>2, <1>4, Words, Joined DEF Channels
<1>6. /\ Channels'
      /\ \A q \in Party, t \in Threads :
           chan'[q][t] = IF q = SERVER /\ t = 0 THEN chan[SERVER][0] \o Points ELSE chan[q][t]
  BY <1>1, <1>2, <1>4, <1>5, ChannelPlaced
<1>7. chan'[SERVER][0] = chan[SERVER][0] \o Points /\ chan'[CLIENT][0] = chan[CLIENT][0]
  BY <1>4, <1>6
<1>8. Asleep'
  BY <1>1, <1>2, <1>3, StillAsleep DEF Begun
<1>9. Together'
  BY <1>1, <1>2, <1>3 DEF Together, ServerBase, ClientBase
<1>10. KeysOK'
  BY <1>1, <1>2, <1>3, Parties, KeysStay DEF ServerBase, ClientBase
<1>11. Socket0'
  <2>1. /\ Points' = Points /\ PublicKeys' = PublicKeys /\ SeedWords(SERVER)' = SeedWords(SERVER)
        /\ SeedWords(CLIENT)' = SeedWords(CLIENT)
    BY <1>1, Static
  <2> DEFINE seed == IF main[SERVER] = "base" THEN <<>> ELSE SeedWords(CLIENT)
  <2>2. seed \o <<>> = seed
    BY <1>2, <1>4, Plain
  <2>3. main[SERVER] \in ServerBase => chan[SERVER][0] = seed
    <3>1. main[SERVER] \in ServerBase => chan[SERVER][0] = seed \o <<>>
      BY <1>1, <1>2 DEF Socket0
    <3> QED
      BY <2>2, <3>1
  <2>4. (main[SERVER] \in ServerBase =>
       chan[SERVER][0] =
         (IF main[CLIENT] = "start" \/ main[SERVER] = "base" THEN <<>> ELSE SeedWords(CLIENT))
           \o (IF main[CLIENT] = "keys" THEN Points ELSE <<>>))'
    BY <1>3, <1>7, <2>1, <2>3 DEF ServerBase
  <2>5. (main[CLIENT] \in ClientBase =>
       chan[CLIENT][0] =
         (IF main[SERVER] = "start" \/ main[CLIENT] \notin {"start", "seed"} THEN <<>>
          ELSE SeedWords(SERVER))
           \o (IF main[SERVER] \in ServerBase THEN <<>> ELSE PublicKeys))'
    BY <1>1, <1>2, <1>3, <1>7, <2>1 DEF Socket0, ServerBase, ClientBase
  <2> QED
    BY <2>4, <2>5 DEF Socket0
<1> QED
  BY <1>6, <1>8, <1>9, <1>10, <1>11 DEF BaseInv

(* The points at the head of the server's channel. *)
LEMMA PointsArrived ==
  ASSUME BaseInv, main[SERVER] = "base", Len(chan[SERVER][0]) >= 2
  PROVE  main[CLIENT] = "keys" /\ chan[SERVER][0] = Points
<1>1. inst \in Instances /\ Socket0
  BY DEF BaseInv, Together
<1>2. Len(<<>>) = 0 /\ <<>> \o <<>> = <<>> /\ <<>> \o Points = Points
  BY <1>1, Words, Plain
<1>3. chan[SERVER][0] = <<>> \o (IF main[CLIENT] = "keys" THEN Points ELSE <<>>)
  BY <1>1 DEF Socket0, ServerBase
<1>4. ASSUME main[CLIENT] # "keys" PROVE FALSE
  <2>1. chan[SERVER][0] = <<>>
    BY <1>2, <1>3, <1>4
  <2>2. Len(chan[SERVER][0]) = 0
    BY <1>2, <2>1
  <2> QED
    BY <2>2
<1> QED
  BY <1>2, <1>3, <1>4

(* answering with the public keys, after which nothing is left on the way to the server, *)
LEMMA AnswerPointsStep ==
  ASSUME BaseInv, AnswerPoints, UNCHANGED th
  PROVE  /\ BaseInv'
         /\ \A t \in Threads : chan'[SERVER][t] = IF t = 0 THEN <<>> ELSE chan[SERVER][t]
<1> DEFINE s == chan[SERVER][0]
           C == SubSeq(s, 1, 2)
           answer == [k \in 1 .. CodeWordBits |-> PK0(C, k - 1)]
           first == Put(chan, SERVER, 0, SubSeq(s, 3, Len(s)))
<1>1. /\ main[SERVER] = "base" /\ main' = [main EXCEPT ![SERVER] = "create"] /\ inst' = inst
      /\ UNCHANGED <<prfKey, keySeedMtx>> /\ Len(chan[SERVER][0]) >= 2
  BY DEF AnswerPoints
<1>2. /\ inst \in Instances /\ main \in [Party -> States] /\ "create" \in States
      /\ Together /\ Socket0 /\ KeysOK /\ Channels /\ Asleep
  BY DEF BaseInv, Together, States
<1>3. main' \in [Party -> States] /\ main'[SERVER] = "create" /\ main'[CLIENT] = main[CLIENT]
      /\ \A q \in Party : main'[q] = IF q = SERVER THEN "create" ELSE main[q]
  BY <1>1, <1>2, MainMoves, Parties
<1>4. 0 \in Threads /\ SERVER \in Party /\ CLIENT \in Party /\ SERVER # CLIENT
  BY <1>2, Parties, Sizes
<1>5. main[CLIENT] = "keys" /\ s = Points
  BY <1>1, PointsArrived
<1>6. C = Points /\ C[1] = inst.alpha /\ SubSeq(s, 3, Len(s)) = <<>>
  <2>1. Points \in Seq({inst.alpha, inst.tmp}) /\ Len(Points) = 2 /\ Points[1] = inst.alpha
    BY DEF Points
  <2>2. SubSeq(Points, 1, Len(Points)) = Points
    BY <2>1, SubSeqFull
  <2>3. SubSeq(Points, 3, Len(Points)) = <<>>
    <3> HIDE DEF Points
    <3> QED
      BY <2>1, SubSeqEmpty
  <2> HIDE DEF s
  <2> QED
    BY <1>5, <2>1, <2>2, <2>3
<1>7. answer = PublicKeys
  BY <1>6 DEF PublicKeys
<1>8. chan[CLIENT][0] = <<>>
  <2>1. chan[CLIENT][0] = <<>> \o <<>>
    BY <1>1, <1>2, <1>5 DEF Socket0, ServerBase, ClientBase
  <2> QED
    BY <1>2, <2>1, Plain
<1>9. keySeeds' = ServerKeys
  <2>1. keySeeds' =
          LET dec == [k \in BaseOTs |-> Pow(C[1], inst.pK[k])]
              stream == KeyStream(dec, [k \in BaseOTs |-> k], CodeWordBits)
          IN [k \in BaseOTs |-> AESKey(stream, k)]
    BY Zenon DEF AnswerPoints
  <2> HIDE DEF C
  <2> QED
    BY <1>6, <2>1 DEF ServerKeys
<1>10. chan' = Put(first, CLIENT, 0, chan[CLIENT][0] \o answer)
  <2>1. chan' = [chan EXCEPT ![SERVER][0] = SubSeq(@, 3, Len(@)), ![CLIENT][0] = @ \o answer]
    BY Zenon DEF AnswerPoints
  <2>2. DOMAIN chan = Party /\ CLIENT # SERVER /\ SERVER \in Party /\ CLIENT \in Party
    <3>1. DOMAIN chan = Party
      BY <1>2, Zenon DEF Channels, IsTable, TableOf
    <3> QED
      BY <1>4, <3>1
  <2> HIDE DEF C, answer
  <2> QED
    BY <2>1, <2>2 DEF Put
<1>11. IsSeq(<<>>) /\ IsSeq(PublicKeys) /\ <<>> \o PublicKeys = PublicKeys
  BY <1>2, Words, Plain
<1>12. /\ TableOf(first, Party, Threads)
       /\ \A p \in Party, t \in Threads :
            first[p][t] = IF p = SERVER /\ t = 0 THEN <<>> ELSE chan[p][t]
  <2>1. TableOf(chan, Party, Threads)
    BY <1>2 DEF Channels, IsTable
  <2>2. first = Put(chan, SERVER, 0, <<>>)
    BY <1>6
  <2> HIDE DEF first
  <2> QED
    BY <1>4, <2>1, <2>2, Placed
<1>13. chan' = Put(first, CLIENT, 0, PublicKeys)
  <2> HIDE DEF first, answer
  <2> QED
    BY <1>7, <1>8, <1>10, <1>11
<1>14. /\ TableOf(chan', Party, Threads)
       /\ \A p \in Party, t \in Threads :
            chan'[p][t] = IF p = CLIENT /\ t = 0 THEN PublicKeys ELSE first[p][t]
  <2> HIDE DEF first
  <2> DEFINE b == Put(first, CLIENT, 0, PublicKeys)
  <2>1. /\ TableOf(b, Party, Threads)
        /\ \A p \in Party, t \in Threads :
             b[p][t] = IF p = CLIENT /\ t = 0 THEN PublicKeys ELSE first[p][t]
    BY <1>4, <1>12, Placed
  <2> HIDE DEF b
  <2>2. chan' = b
    BY <1>13 DEF b
  <2> QED
    BY <2>1, <2>2
<1> HIDE DEF first
<1>15. Channels'
  <2>1. Threads' = Threads
    BY <1>1, Static
  <2>2. \A p \in Party, t \in Threads : IsSeq(chan'[p][t])
    BY <1>2, <1>11, <1>12, <1>14 DEF Channels
  <2>3. IsTable(chan)'
    BY <1>14, <2>1 DEF IsTable, TableOf
  <2>4. (\A p \in Party, t \in Threads : IsSeq(chan[p][t]))'
    BY <2>1, <2>2 DEF IsSeq
  <2> QED
    BY <2>3, <2>4 DEF Channels
<1>16. chan'[SERVER][0] = <<>> /\ chan'[CLIENT][0] = PublicKeys
  BY <1>4, <1>12, <1>14
<1>17. Asleep'
  <2>1. \A p \in Party : Begun(p) => Begun(p)'
    BY <1>3 DEF Begun
  <2>2. inst' = inst /\ th' = th /\ Asleep
    BY <1>1, <1>2
  <2> QED
    BY <2>1, <2>2, StillAsleep
<1>18. Together'
  BY <1>1, <1>2, <1>3, <1>5 DEF Together, ServerBase, ClientBase
<1>19. KeysOK'
  <2>1. \A q \in Party : PrfKey(q, Mixed(q, Drawn(Other(q))))' = PrfKey(q, Mixed(q, Drawn(Other(q))))
    BY <1>1, StaticKey
  <2>2. (\A q \in Party : main[q] \notin {"start", "seed"} =>
           prfKey[q] = PrfKey(q, Mixed(q, Drawn(Other(q)))))'
    BY <1>1, <1>2, <1>3, <2>1 DEF KeysOK
  <2>3. /\ ServerKeys' = ServerKeys /\ ClientKeys' = ClientKeys
        /\ ServerBase' = ServerBase /\ ClientBase' = ClientBase
    BY <1>1, Static DEF ServerBase, ClientBase
  <2>4. main'[SERVER] \notin ServerBase
    BY <1>3 DEF ServerBase
  <2>5. /\ keySeeds' = (IF main'[SERVER] \in ServerBase THEN <<>> ELSE ServerKeys)
        /\ keySeedMtx' = (IF main'[CLIENT] \in ClientBase THEN <<>> ELSE ClientKeys)
    BY <1>1, <1>2, <1>3, <1>9, <2>4 DEF KeysOK
  <2>6. DOMAIN prfKey' = Party
    BY <1>1, <1>2 DEF KeysOK
  <2> QED
    BY <2>2, <2>3, <2>5, <2>6 DEF KeysOK
<1>20. Socket0'
  <2>1. PublicKeys' = PublicKeys
    BY <1>1, Static
  <2>2. main'[SERVER] = "create" /\ main'[CLIENT] = "keys" /\ chan'[CLIENT][0] = <<>> \o PublicKeys
    BY <1>3, <1>5, <1>11, <1>16
  <2> QED
    BY <2>1, <2>2 DEF Socket0, ServerBase, ClientBase
<1>21. \A t \in Threads : chan'[SERVER][t] = IF t = 0 THEN <<>> ELSE chan[SERVER][t]
  BY <1>4, <1>12, <1>14
<1> QED
  BY <1>15, <1>17, <1>18, <1>19, <1>20, <1>21 DEF BaseInv

(* The public keys at the head of the client's channel. *)
LEMMA KeysArrived ==
  ASSUME BaseInv, main[CLIENT] = "keys", Len(chan[CLIENT][0]) >= CodeWordBits
  PROVE  main[SERVER] \notin ServerBase /\ chan[CLIENT][0] = PublicKeys
<1>1. inst \in Instances /\ Socket0
  BY DEF BaseInv, Together
<1>2. Len(<<>>) = 0 /\ <<>> \o <<>> = <<>> /\ <<>> \o PublicKeys = PublicKeys
  BY <1>1, Words, Plain
<1>3. chan[CLIENT][0] = <<>> \o (IF main[SERVER] \in ServerBase THEN <<>> ELSE PublicKeys)
  BY <1>1 DEF Socket0, ClientBase
<1>4. ASSUME main[SERVER] \in ServerBase PROVE FALSE
  <2>1. chan[CLIENT][0] = <<>>
    BY <1>2, <1>3, <1>4
  <2>2. Len(chan[CLIENT][0]) = 0
    BY <1>2, <2>1
  <2> QED
    BY <2>2, GroupOK
<1> QED
  BY <1>2, <1>3, <1>4

(* and receiving the public keys. *)
LEMMA ReceiveKeysStep ==
  ASSUME BaseInv, ReceiveKeys, UNCHANGED th
  PROVE  BaseInv'
<1> DEFINE s == chan[CLIENT][0]
<1>1. /\ main[CLIENT] = "keys" /\ main' = [main EXCEPT ![CLIENT] = "create"] /\ inst' = inst
      /\ UNCHANGED <<prfKey, keySeeds>> /\ Len(s) >= CodeWordBits
      /\ chan' = Put(chan, CLIENT, 0, SubSeq(s, CodeWordBits + 1, Len(s)))
  BY DEF ReceiveKeys, Put
<1>2. /\ inst \in Instances /\ main \in [Party -> States] /\ "create" \in States
      /\ Together /\ Socket0 /\ KeysOK /\ Channels /\ Asleep
  BY DEF BaseInv, Together, States
<1>3. main' \in [Party -> States] /\ main'[CLIENT] = "create" /\ main'[SERVER] = main[SERVER]
      /\ \A q \in Party : main'[q] = IF q = CLIENT THEN "create" ELSE main[q]
  BY <1>1, <1>2, MainMoves, Parties
<1>4. 0 \in Threads /\ SERVER \in Party /\ CLIENT \in Party /\ SERVER # CLIENT
  BY <1>2, Parties, Sizes
<1>5. main[SERVER] \notin ServerBase /\ s = PublicKeys
  BY <1>1, KeysArrived
<1>6. SubSeq(s, CodeWordBits + 1, Len(s)) = <<>>
  <2>1. Len(s) = CodeWordBits /\ CodeWordBits \in Nat
    BY <1>2, <1>5, Words, GroupOK
  <2> HIDE DEF s
  <2> QED
    BY <2>1, SubSeqEmpty
<1>7. /\ Channels'
      /\ \A q \in Party, t \in Threads : chan'[q][t] = IF q = CLIENT /\ t = 0 THEN <<>> ELSE chan[q][t]
  <2>1. chan' = Put(chan, CLIENT, 0, <<>>)
    BY <1>1, <1>6
  <2>2. inst' = inst /\ Channels /\ IsSeq(<<>>)
    BY <1>1, <1>2, Words
  <2> QED
    BY <2>1, <2>2, <1>4, ChannelPlaced
<1>8. Asleep'
  <2>1. \A p \in Party : Begun(p) => Begun(p)'
    BY <1>3 DEF Begun
  <2>2. inst' = inst /\ th' = th /\ Asleep
    BY <1>1, <1>2
  <2> QED
    BY <2>1, <2>2, StillAsleep
<1>9. Together'
  BY <1>1, <1>2, <1>3, <1>5 DEF Together, ServerBase, ClientBase
<1>10. keySeedMtx' = ClientKeys
  <2>1. keySeedMtx' =
          LET PK0r(k) == Pow(s[k + 1], inst.alpha)
              dlog == [c \in 0 .. 2 * CodeWordBits - 1 |->
                         IF c % 2 = 0 THEN PK0r(c \div 2)
                         ELSE Div(Pow(inst.tmp, inst.alpha), PK0r(c \div 2))]
              stream == KeyStream(dlog, [c \in 0 .. 2 * CodeWordBits - 1 |-> c \div 2],
                                  2 * CodeWordBits)
          IN [c \in 0 .. 2 * CodeWordBits - 1 |-> AESKey(stream, c)]
    BY Zenon DEF ReceiveKeys
  <2> HIDE DEF s
  <2> QED
    BY <1>5, <2>1 DEF ClientKeys
<1>11. KeysOK'
  <2>1. \A q \in Party : PrfKey(q, Mixed(q, Drawn(Other(q))))' = PrfKey(q, Mixed(q, Drawn(Other(q))))
    BY <1>1, StaticKey
  <2>2. (\A q \in Party : main[q] \notin {"start", "seed"} =>
           prfKey[q] = PrfKey(q, Mixed(q, Drawn(Other(q)))))'
    BY <1>1, <1>2, <1>3, <2>1 DEF KeysOK
  <2>3. /\ ServerKeys' = ServerKeys /\ ClientKeys' = ClientKeys
        /\ ServerBase' = ServerBase /\ ClientBase' = ClientBase
    BY <1>1, Static DEF ServerBase, ClientBase
  <2>4. main'[CLIENT] \notin ClientBase
    BY <1>3 DEF ClientBase
  <2>5. /\ keySeeds' = (IF main'[SERVER] \in ServerBase THEN <<>> ELSE ServerKeys)
        /\ keySeedMtx' = (IF main'[CLIENT] \in ClientBase THEN <<>> ELSE ClientKeys)
    BY <1>1, <1>2, <1>3, <1>10, <2>4 DEF KeysOK
  <2>6. DOMAIN prfKey' = Party
    BY <1>1, <1>2 DEF KeysOK
  <2> QED
    BY <2>2, <2>3, <2>5, <2>6 DEF KeysOK
<1>12. Socket0'
  BY <1>3, <1>5 DEF Socket0, ServerBase, ClientBase
<1> QED
  BY <1>7, <1>8, <1>9, <1>11, <1>12 DEF BaseInv

(***************************************************************************)
(* The steps of the extension, each as what it does to one thread.         *)
(***************************************************************************)

LEMMA ThreadPlaced ==
  ASSUME inst' = inst, IsTable(th), NEW q \in Party, NEW u \in Threads, NEW r,
         th' = Put(th, q, u, r)
  PROVE  /\ IsTable(th)'
         /\ \A p \in Party, t \in Threads :
              th'[p][t] = IF p = q /\ t = u THEN r ELSE th[p][t]
<1>1. Threads' = Threads
  BY Static
<1>2. TableOf(th, Party, Threads)
  BY DEF IsTable
<1> DEFINE b == Put(th, q, u, r)
<1>3. /\ TableOf(b, Party, Threads)
      /\ \A p \in Party, t \in Threads : b[p][t] = IF p = q /\ t = u THEN r ELSE th[p][t]
  BY <1>2, Placed
<1> HIDE DEF b
<1>4. th' = b
  BY DEF b
<1>5. TableOf(b, Party', Threads')
  BY <1>1, <1>3
<1>6. IsTable(th)'
  BY <1>4, <1>5 DEF IsTable, TableOf
<1>7. \A p \in Party, t \in Threads : th'[p][t] = IF p = q /\ t = u THEN r ELSE th[p][t]
  BY Zenon, <1>3, <1>4
<1> QED
  BY <1>6, <1>7

(* One thread is p's thread t with these fields, and the others are as they were. *)
Becomes(p, t, st, ot_id, jobs, pos, snd) ==
  \E r : /\ th' = Put(th, p, t, r) /\ DOMAIN r = Fields
         /\ r.st = st /\ r.ot_id = ot_id /\ r.jobs = jobs /\ r.pos = pos /\ r.snd = snd

(* An update of the state of a thread leaves its other fields alone. *)
LEMMA FieldChanged ==
  ASSUME NEW s, DOMAIN s = Fields, NEW v
  PROVE  /\ DOMAIN [s EXCEPT !.st = v] = Fields
         /\ [s EXCEPT !.st = v].st = v /\ [s EXCEPT !.st = v].ot_id = s.ot_id
         /\ [s EXCEPT !.st = v].jobs = s.jobs /\ [s EXCEPT !.st = v].pos = s.pos
         /\ [s EXCEPT !.st = v].snd = s.snd
BY DEF Fields

(* Creating a thread: it is ready, at its first OT. *)
LEMMA CreateThreadIs ==
  ASSUME Asleep, NEW p \in Party, CreateThread(p), idx[p] \in Threads
  PROVE  LET s == th[p][idx[p]]
         IN Becomes(p, idx[p], "ready", MyStartPos(idx[p]), s.jobs, s.pos, s.snd)
<1> DEFINE i == idx[p]
           s == th[p][i]
           r == [s EXCEPT !.st = "ready", !.ot_id = MyStartPos(i)]
<1>1. th' = [th EXCEPT ![p][i].st = "ready", ![p][i].ot_id = MyStartPos(i)]
  BY DEF CreateThread
<1>2. DOMAIN th = Party /\ DOMAIN th[p] = Threads /\ DOMAIN s = Fields
  <2>1. th = [q \in Party |-> [t \in Threads |-> th[q][t]]]
    BY Zenon DEF Asleep, IsTable, TableOf
  <2>2. DOMAIN th = Party
    BY <2>1, Zenon
  <2>3. th[p] = [t \in Threads |-> th[p][t]]
    BY <2>1, Zenon
  <2>4. DOMAIN th[p] = Threads
    BY <2>3, Zenon
  <2> QED
    BY <2>2, <2>4 DEF Asleep
<1>3. th' = Put(th, p, i, r)
  BY <1>1, <1>2 DEF Put
<1>4. DOMAIN r = Fields /\ r.st = "ready" /\ r.ot_id = MyStartPos(i) /\ r.jobs = s.jobs
      /\ r.pos = s.pos /\ r.snd = s.snd
  <2> HIDE DEF i, s
  <2> QED
    BY <1>2 DEF Fields
<1> QED
  BY <1>3, <1>4, Zenon DEF Becomes

(* A round of the client: its masks are to be hashed, its matrix has been sent. *)
LEMMA ClientRoundIs ==
  ASSUME Asleep, NEW t \in Threads, ClientRound(t)
  PROVE  LET s == th[CLIENT][t]
             columns == ProcessedOTs(t, s.ot_id)
             n == OtLen(t, s.ot_id)
         IN Becomes(CLIENT, t, "hash", s.ot_id, ClientJobs(s.ot_id, columns, n), 1,
                    MatrixSnd(s.ot_id, columns, n))
<1> DEFINE s == th[CLIENT][t]
           columns == ProcessedOTs(t, s.ot_id)
           n == OtLen(t, s.ot_id)
           jobs == ClientJobs(s.ot_id, columns, n)
           snd == MatrixSnd(s.ot_id, columns, n)
           r == [s EXCEPT !.st = "hash", !.pos = 1, !.jobs = jobs, !.snd = snd]
<1>1. th' = Put(th, CLIENT, t, r)
  BY Zenon DEF ClientRound, Put
<1>2. DOMAIN s = Fields
  BY Parties DEF Asleep
<1>3. DOMAIN r = Fields /\ r.st = "hash" /\ r.ot_id = s.ot_id /\ r.jobs = jobs
      /\ r.pos = 1 /\ r.snd = snd
  <2> HIDE DEF jobs, snd, s
  <2> QED
    BY <1>2 DEF Fields
<1> QED
  BY <1>1, <1>3, Zenon DEF Becomes

(* A round of the server: the masks of the matrix it received are to be hashed. *)
LEMMA ServerRoundIs ==
  ASSUME Asleep, NEW t \in Threads, ServerRound(t)
  PROVE  LET s == th[SERVER][t]
             rcv == SubSeq(chan[SERVER][t], 1, Awaited(t, s.ot_id))
         IN Becomes(SERVER, t, "hash", s.ot_id,
                    ServerJobs(rcv, s.ot_id, ProcessedOTs(t, s.ot_id), OtLen(t, s.ot_id)), 1, s.snd)
<1> DEFINE s == th[SERVER][t]
           jobs == ServerJobs(SubSeq(chan[SERVER][t], 1, Awaited(t, s.ot_id)), s.ot_id,
                              ProcessedOTs(t, s.ot_id), OtLen(t, s.ot_id))
           r == [s EXCEPT !.st = "hash", !.pos = 1, !.jobs = jobs]
<1>1. th' = Put(th, SERVER, t, r)
  BY Zenon DEF ServerRound, Put
<1>2. DOMAIN s = Fields
  BY Parties DEF Asleep
<1>3. DOMAIN r = Fields /\ r.st = "hash" /\ r.ot_id = s.ot_id /\ r.jobs = jobs
      /\ r.pos = 1 /\ r.snd = s.snd
  <2> HIDE DEF jobs, s
  <2> QED
    BY <1>2 DEF Fields
<1> QED
  BY <1>1, <1>3, Zenon DEF Becomes

(* Hashing into the shared buffer. *)
LEMMA HashIntoIs ==
  ASSUME Asleep, NEW p \in Party, NEW t \in Threads, HashInto(p, t)
  PROVE  LET s == th[p][t] IN Becomes(p, t, "copy", s.ot_id, s.jobs, s.pos, s.snd)
<1> DEFINE s == th[p][t]
           r == [s EXCEPT !.st = "copy"]
<1>1. th' = Put(th, p, t, r)
  BY Zenon DEF HashInto, Put
<1>2. DOMAIN s = Fields
  BY DEF Asleep
<1>3. DOMAIN r = Fields /\ r.st = "copy" /\ r.ot_id = s.ot_id /\ r.jobs = s.jobs
      /\ r.pos = s.pos /\ r.snd = s.snd
  <2> HIDE DEF s
  <2> QED
    BY <1>2, FieldChanged
<1> QED
  BY <1>1, <1>3, Zenon DEF Becomes

(* Copying out of the shared buffer: the next mask is due. *)
LEMMA CopyOutIs ==
  ASSUME Asleep, NEW p \in Party, NEW t \in Threads, CopyOut(p, t)
  PROVE  LET s == th[p][t] IN Becomes(p, t, "hash", s.ot_id, s.jobs, s.pos + 1, s.snd)
<1> DEFINE s == th[p][t]
           r == [s EXCEPT !.st = "hash", !.pos = s.pos + 1]
<1>1. th' = [th EXCEPT ![p][t].st = "hash", ![p][t].pos = @ + 1]
  BY DEF CopyOut
<1>2. DOMAIN th = Party /\ DOMAIN th[p] = Threads /\ DOMAIN s = Fields
  <2>1. th = [q \in Party |-> [u \in Threads |-> th[q][u]]]
    BY Zenon DEF Asleep, IsTable, TableOf
  <2>2. DOMAIN th = Party
    BY <2>1, Zenon
  <2>3. th[p] = [u \in Threads |-> th[p][u]]
    BY <2>1, Zenon
  <2>4. DOMAIN th[p] = Threads
    BY <2>3, Zenon
  <2> QED
    BY <2>2, <2>4 DEF Asleep
<1>3. th' = Put(th, p, t, r)
  BY <1>1, <1>2 DEF Put, Fields
<1>4. DOMAIN r = Fields /\ r.st = "hash" /\ r.ot_id = s.ot_id /\ r.jobs = s.jobs
      /\ r.pos = s.pos + 1 /\ r.snd = s.snd
  <2> HIDE DEF s
  <2> QED
    BY <1>2 DEF Fields
<1> QED
  BY <1>3, <1>4, Zenon DEF Becomes

(* The end of a round: the thread is at the next one. *)
LEMMA EndRoundIs ==
  ASSUME Asleep, NEW p \in Party, NEW t \in Threads, EndRound(p, t)
  PROVE  LET s == th[p][t]
         IN Becomes(p, t, "ready", NextOtId(t, s.ot_id), Idle.jobs, Idle.pos, Idle.snd)
<1> DEFINE s == th[p][t]
           o == NextOtId(t, s.ot_id)
           r == [Idle EXCEPT !.st = "ready", !.ot_id = o]
<1>1. th' = Put(th, p, t, r)
  BY Zenon DEF EndRound, Put
<1>2. DOMAIN Idle = Fields
  BY DEF Idle, Fields
<1>3. DOMAIN r = Fields /\ r.st = "ready" /\ r.ot_id = o /\ r.jobs = Idle.jobs
      /\ r.pos = Idle.pos /\ r.snd = Idle.snd
  <2> HIDE DEF o
  <2> QED
    BY <1>2 DEF Fields
<1> QED
  BY <1>1, <1>3, Zenon DEF Becomes

(* The end of a thread. *)
LEMMA EndThreadIs ==
  ASSUME Asleep, NEW p \in Party, NEW t \in Threads, EndThread(p, t)
  PROVE  LET s == th[p][t] IN Becomes(p, t, "ended", s.ot_id, s.jobs, s.pos, s.snd)
<1> DEFINE s == th[p][t]
           r == [s EXCEPT !.st = "ended"]
<1>1. th' = Put(th, p, t, r)
  BY Zenon DEF EndThread, Put
<1>2. DOMAIN s = Fields
  BY DEF Asleep
<1>3. DOMAIN r = Fields /\ r.st = "ended" /\ r.ot_id = s.ot_id /\ r.jobs = s.jobs
      /\ r.pos = s.pos /\ r.snd = s.snd
  <2> HIDE DEF s
  <2> QED
    BY <1>2, FieldChanged
<1> QED
  BY <1>1, <1>3, Zenon DEF Becomes

(* One thread has changed and the others have not. *)
Changed(p, t, st, ot_id, jobs, pos, snd) ==
  /\ IsTable(th)'
  /\ \A q \in Party, u \in Threads : DOMAIN th'[q][u] = Fields
  /\ \A q \in Party, u \in Threads : (q # p \/ u # t) => th'[q][u] = th[q][u]
  /\ th'[p][t].st = st /\ th'[p][t].ot_id = ot_id /\ th'[p][t].jobs = jobs
  /\ th'[p][t].pos = pos /\ th'[p][t].snd = snd

(* What the updated record says, field by field. *)
LEMMA BecomesChanged ==
  ASSUME inst' = inst, Asleep, NEW p \in Party, NEW t \in Threads,
         NEW st, NEW ot_id, NEW jobs, NEW pos, NEW snd,
         Becomes(p, t, st, ot_id, jobs, pos, snd)
  PROVE  Changed(p, t, st, ot_id, jobs, pos, snd)
<1> PICK r : /\ th' = Put(th, p, t, r) /\ DOMAIN r = Fields
             /\ r.st = st /\ r.ot_id = ot_id /\ r.jobs = jobs /\ r.pos = pos /\ r.snd = snd
  BY DEF Becomes
<1>1. IsTable(th)
  BY DEF Asleep
<1>2. /\ IsTable(th)'
      /\ \A q \in Party, u \in Threads : th'[q][u] = IF q = p /\ u = t THEN r ELSE th[q][u]
  BY <1>1, ThreadPlaced
<1>3. th'[p][t] = r
  BY <1>2
<1>4. \A q \in Party, u \in Threads : (q # p \/ u # t) => th'[q][u] = th[q][u]
  BY <1>2
<1>5. \A q \in Party, u \in Threads : DOMAIN th'[q][u] = Fields
  BY <1>2 DEF Asleep
<1> QED
  BY <1>2, <1>3, <1>4, <1>5 DEF Changed

(***************************************************************************)
(* The invariant of the common seed and the base OTs under every step.     *)
(***************************************************************************)

LEMMA LateFrame ==
  ASSUME BaseInv, inst' = inst, UNCHANGED <<prfKey, keySeeds, keySeedMtx>>,
         main' \in [Party -> States],
         \A p \in Party : main'[p] = main[p] \/ (Begun(p) /\ Begun(p)'),
         chan'[CLIENT] = chan[CLIENT],
         chan'[SERVER] = chan[SERVER] \/ main[SERVER] \notin ServerBase,
         Channels', Asleep'
  PROVE  BaseInv'
<1>1. inst \in Instances /\ Together /\ Socket0 /\ KeysOK
  BY DEF BaseInv, Together
<1>2. /\ main'[SERVER] = main[SERVER] \/ (Begun(SERVER) /\ Begun(SERVER)')
      /\ main'[CLIENT] = main[CLIENT] \/ (Begun(CLIENT) /\ Begun(CLIENT)')
  BY Parties
<1>3. Together'
  BY <1>1, <1>2 DEF Together, Begun, ServerBase, ClientBase
<1>4. KeysOK'
  <2>1. \A p \in Party : main'[p] \in {"start", "seed"} <=> main[p] \in {"start", "seed"}
    BY DEF Begun
  <2>2. /\ main'[SERVER] \in ServerBase <=> main[SERVER] \in ServerBase
        /\ main'[CLIENT] \in ClientBase <=> main[CLIENT] \in ClientBase
    BY <1>2 DEF Begun, ServerBase, ClientBase
  <2> QED
    BY <1>1, <2>1, <2>2, KeysStay
<1>5. Socket0'
  <2>1. /\ Points' = Points /\ PublicKeys' = PublicKeys /\ SeedWords(SERVER)' = SeedWords(SERVER)
        /\ SeedWords(CLIENT)' = SeedWords(CLIENT)
    BY Static
  <2>2. (main[SERVER] \in ServerBase =>
       chan[SERVER][0] =
         (IF main[CLIENT] = "start" \/ main[SERVER] = "base" THEN <<>> ELSE SeedWords(CLIENT))
           \o (IF main[CLIENT] = "keys" THEN Points ELSE <<>>))'
    <3> SUFFICES ASSUME main'[SERVER] \in ServerBase
                 PROVE  (chan[SERVER][0] =
                          (IF main[CLIENT] = "start" \/ main[SERVER] = "base" THEN <<>>
                           ELSE SeedWords(CLIENT))
                             \o (IF main[CLIENT] = "keys" THEN Points ELSE <<>>))'
      BY DEF ServerBase
    <3>1. main'[SERVER] = main[SERVER] /\ main[SERVER] \in ServerBase
      BY <1>2 DEF Begun, ServerBase
    <3>2. chan'[SERVER] = chan[SERVER]
      BY <3>1
    <3>3. main'[CLIENT] = main[CLIENT]
      BY <1>1, <1>2, <3>1 DEF Together, Begun, ClientBase
    <3> QED
      BY <1>1, <2>1, <3>1, <3>2, <3>3 DEF Socket0
  <2>3. (main[CLIENT] \in ClientBase =>
       chan[CLIENT][0] =
         (IF main[SERVER] = "start" \/ main[CLIENT] \notin {"start", "seed"} THEN <<>>
          ELSE SeedWords(SERVER))
           \o (IF main[SERVER] \in ServerBase THEN <<>> ELSE PublicKeys))'
    <3> SUFFICES ASSUME main'[CLIENT] \in ClientBase
                 PROVE  (chan[CLIENT][0] =
                         (IF main[SERVER] = "start" \/ main[CLIENT] \notin {"start", "seed"} THEN <<>>
                          ELSE SeedWords(SERVER))
                           \o (IF main[SERVER] \in ServerBase THEN <<>> ELSE PublicKeys))'
      BY DEF ClientBase
    <3>1. main'[CLIENT] = main[CLIENT] /\ main[CLIENT] \in ClientBase
      BY <1>2 DEF Begun, ClientBase
    <3>2. /\ main'[SERVER] \in ServerBase <=> main[SERVER] \in ServerBase
          /\ main'[SERVER] = "start" <=> main[SERVER] = "start"
      BY <1>2 DEF Begun, ServerBase
    <3>3. ServerBase' = ServerBase
      BY DEF ServerBase
    <3> QED
      BY <1>1, <2>1, <3>1, <3>2, <3>3 DEF Socket0
  <2> QED
    BY <2>2, <2>3 DEF Socket0
<1> QED
  BY <1>3, <1>4, <1>5 DEF BaseInv

(* Channels that no step touches stay sequences. *)
LEMMA ChannelsStay ==
  ASSUME Channels, inst' = inst, chan' = chan
  PROVE  Channels'
<1>1. Threads' = Threads
  BY Static
<1> QED
  BY <1>1 DEF Channels, IsTable, TableOf, IsSeq

(* A step of the loops over the threads keeps the base invariant and the range of the loop variable. *)
LEMMA MainStepBase ==
  ASSUME KeyInv, NEW p \in Party, MainStep(p)
  PROVE  KeyInv'
<1>1. /\ inst \in Instances /\ main \in [Party -> States] /\ Channels /\ Asleep /\ InRange /\ BaseInv
      /\ inst.threads \in Nat \ {0}
  BY Sizes DEF KeyInv, BaseInv, Together
<1>2. /\ inst' = inst /\ chan' = chan /\ UNCHANGED <<prfKey, keySeeds, keySeedMtx>>
      /\ Begun(p) /\ main'[p] \in {"create", "mark", "wait", "done"}
      /\ \A q \in Party : q # p => main'[q] = main[q]
      /\ main' \in [Party -> States]
  BY <1>1 DEF MainStep, NoOTs, CreateThread, MarkRunning, WaitThread, Begun, States
<1>3. Asleep'
  <2>1. CASE CreateThread(p)
    <3>1. idx[p] \in Threads
      BY <1>1, <2>1 DEF CreateThread, Threads, InRange
    <3> DEFINE s == th[p][idx[p]]
    <3>2. Changed(p, idx[p], "ready", MyStartPos(idx[p]), s.jobs, s.pos, s.snd)
      BY <1>1, <1>2, <2>1, <3>1, CreateThreadIs, BecomesChanged
    <3>3. Threads' = Threads
      BY <1>2, Static
    <3>4. \A q \in Party, u \in Threads : th'[q][u].st # "none" => Begun(q)'
      <4> SUFFICES ASSUME NEW q \in Party, NEW u \in Threads, th'[q][u].st # "none"
                   PROVE  main'[q] \in {"create", "mark", "wait", "done"}
        BY DEF Begun
      <4>1. CASE q = p
        BY <1>2, <4>1
      <4>2. CASE q # p
        <5>1. th'[q][u] = th[q][u] /\ main'[q] = main[q]
          BY <1>2, <3>2, <4>2 DEF Changed
        <5> QED
          BY <1>1, <5>1 DEF Asleep, Begun
      <4> QED
        BY <4>1, <4>2
    <3> QED
      BY <3>2, <3>3, <3>4 DEF Asleep, Changed, Fields
  <2>2. CASE ~ CreateThread(p)
    <3>1. th' = th
      BY <2>2 DEF MainStep, NoOTs, MarkRunning, WaitThread
    <3>2. \A q \in Party : Begun(q) => Begun(q)'
      BY <1>2 DEF Begun
    <3> QED
      BY <1>1, <1>2, <3>1, <3>2, StillAsleep
  <2> QED
    BY <2>1, <2>2
<1>4. InRange'
  <2>1. NoOTs(p) \/ CreateThread(p) \/ MarkRunning(p) \/ WaitThread(p)
    BY DEF MainStep
  <2>2. idx' \in [Party -> Nat] /\ \A q \in Party : q # p => idx'[q] = idx[q]
    BY <1>1, <2>1 DEF NoOTs, CreateThread, MarkRunning, WaitThread, InRange
  <2>3. main'[p] \in {"create", "mark", "wait"} => idx'[p] < inst.threads
    BY <1>1, <2>1 DEF NoOTs, CreateThread, MarkRunning, WaitThread, InRange
  <2>4. main'[p] = "done" => idx'[p] <= inst.threads
    BY <1>1, <2>1 DEF NoOTs, CreateThread, MarkRunning, WaitThread, InRange
  <2>5. ASSUME NEW q \in Party
        PROVE  /\ ~ (main'[q] \in {"create", "mark", "wait", "done"}) => idx'[q] = 0
               /\ main'[q] \in {"create", "mark", "wait"} => idx'[q] < inst'.threads
               /\ main'[q] = "done" => idx'[q] <= inst'.threads
    <3>1. CASE q = p
      BY <1>2, <2>3, <2>4, <3>1
    <3>2. CASE q # p
      <4>1. idx'[q] = idx[q] /\ main'[q] = main[q] /\ inst' = inst
        BY <1>2, <2>2, <3>2
      <4> QED
        BY <1>1, <4>1 DEF InRange, Begun
    <3> QED
      BY <3>1, <3>2
  <2> QED
    BY <2>2, <2>5 DEF InRange, Begun
<1>5. Channels'
  BY <1>1, <1>2, ChannelsStay
<1>6. \A q \in Party : main'[q] = main[q] \/ (Begun(q) /\ Begun(q)')
  BY <1>2 DEF Begun
<1>7. BaseInv'
  BY <1>1, <1>2, <1>3, <1>5, <1>6, LateFrame
<1> QED
  BY <1>4, <1>7 DEF KeyInv

(***************************************************************************)
(* The parts of the threads and their rounds, as numbers.                  *)
(***************************************************************************)

(* A sum does not change when a summand is replaced by its remainder. *)
LEMMA AddedRemainder ==
  ASSUME NEW w \in Nat \ {0}, NEW s \in Int, NEW y \in Int, NEW l \in 0 .. w - 1, l = s + y
  PROVE  (s + (y % w)) % w = l
<1> DEFINE q == y \div w
           r == y % w
<1>1. q \in Int /\ r \in Int /\ y = w * q + r
  BY Remainder
<1> HIDE DEF q, r
<1>2. w * (-q) = -(w * q) /\ w * q \in Int
  BY <1>1
<1>3. s + r = w * (-q) + l
  BY <1>1, <1>2
<1>4. (w * (-q) + l) % w = l
  <2>1. -q \in Int
    BY <1>1
  <2> QED
    BY <2>1, OneRemainder
<1> QED
  BY <1>3, <1>4 DEF r

(* Rounding up does not exceed a multiple that is not exceeded, and grows with x. *)
LEMMA CeilDivideLeast ==
  ASSUME NEW x \in Nat, NEW k \in Nat \ {0}, NEW m \in Nat, x <= k * m
  PROVE  CeilDivide(x, k) <= m
<1>1. CASE x = 0
  BY <1>1 DEF CeilDivide
<1>2. CASE x > 0
  <2> DEFINE q == (x - 1) \div k
  <2>1. q \in Nat /\ k * q <= x - 1
    BY <1>2, DivBounds
  <2>2. CeilDivide(x, k) = q + 1
    BY <1>2 DEF CeilDivide
  <2> HIDE DEF q
  <2>3. ASSUME m <= q PROVE FALSE
    <3>1. k * m <= k * q
      BY <2>1, <2>3
    <3>2. k * m \in Nat /\ k * q \in Nat
      BY <2>1
    <3> QED
      BY <2>1, <3>1, <3>2, <1>2
  <2> QED
    BY <2>1, <2>2, <2>3
<1> QED
  BY <1>1, <1>2

(* Rounding up is monotonic. *)
LEMMA CeilDivideGrows ==
  ASSUME NEW x \in Nat, NEW y \in Nat, NEW k \in Nat \ {0}, x <= y
  PROVE  CeilDivide(x, k) <= CeilDivide(y, k)
<1> DEFINE m == CeilDivide(y, k)
<1>1. m \in Nat /\ y <= k * m
  BY CeilDivideBounds
<1> HIDE DEF m
<1>2. x <= k * m
  BY <1>1
<1> QED
  BY <1>1, <1>2, CeilDivideLeast DEF m

(* Whole parts are counted for themselves. *)
LEMMA CeilDivideSum ==
  ASSUME NEW j \in Nat, NEW x \in Nat, NEW k \in Nat \ {0}
  PROVE  CeilDivide(k * j + x, k) = j + CeilDivide(x, k)
<1> DEFINE c == CeilDivide(x, k)
           d == CeilDivide(k * j + x, k)
<1>1. k * j \in Nat /\ k * j + x \in Nat
  OBVIOUS
<1>2. c \in Nat /\ x <= k * c
  BY CeilDivideBounds
<1>3. d \in Nat /\ k * j + x <= k * d
  BY <1>1, CeilDivideBounds
<1> HIDE DEF c, d
<1>4. d <= j + c
  <2>1. k * (j + c) = k * j + k * c /\ k * c \in Nat
    BY <1>2
  <2>2. k * j + x <= k * (j + c) /\ j + c \in Nat
    BY <1>1, <1>2, <2>1
  <2> QED
    BY <1>1, <2>2, CeilDivideLeast DEF d
<1>5. d >= j
  <2>1. ASSUME d < j PROVE FALSE
    <3>1. k * (d + 1) <= k * j
      BY <1>3, <2>1
    <3>2. k * (d + 1) = k * d + k /\ k * d \in Nat
      BY <1>3
    <3> QED
      BY <1>1, <1>3, <3>1, <3>2
  <2> QED
    BY <1>3, <2>1
<1>6. c <= d - j
  <2>1. d - j \in Nat /\ k * (d - j) = k * d - k * j /\ k * d \in Nat
    BY <1>3, <1>5
  <2>2. x <= k * (d - j)
    BY <1>1, <1>3, <2>1
  <2> QED
    BY <2>1, <2>2, CeilDivideLeast DEF c
<1>7. d = j + c
  BY <1>2, <1>3, <1>4, <1>6
<1> QED
  BY <1>7 DEF c, d

(* The part of each thread, before it is cut off: all OTs have room in the parts. *)
LEMMA Shares ==
  ASSUME inst \in Instances
  PROVE  /\ nOTs \in Nat /\ MyNumOTs \in Nat /\ (nOTs > 0 => MyNumOTs > 0)
         /\ nOTs <= inst.threads * MyNumOTs
         /\ inst.threads * MyNumOTs + MyNumOTs < Wrap
         /\ Wrap \in Nat \ {0} /\ nOTs < Wrap
<1> DEFINE n == nOTs
           k == inst.threads
           c == CeilDivide(n, AesBits)
           P == PadToMultiple(n, AesBits)
           M == MyNumOTs
<1>1. n \in Nat /\ k \in Nat \ {0} /\ AesBits \in Nat \ {0} /\ (k + 1) * (n + AesBits) < Wrap
      /\ Wrap \in Nat
  BY TablesOK DEF nOTs
<1>2. P = c * AesBits /\ M = CeilDivide(P, k)
  BY DEF PadToMultiple, MyNumOTs
<1>3. c \in Nat /\ n <= AesBits * c /\ (n > 0 => c >= 1) /\ AesBits * c < n + AesBits
  <2>1. n \in Nat /\ AesBits \in Nat \ {0}
    BY <1>1
  <2>2. c \in Nat /\ n <= AesBits * c /\ (n > 0 => c >= 1)
    <3> HIDE DEF n
    <3> QED
      BY <2>1, CeilDivideBounds
  <2>3. AesBits * c < n + AesBits
    <3>1. CASE n = 0
      BY <2>1, <3>1 DEF CeilDivide
    <3>2. CASE n > 0
      <4> DEFINE q == (n - 1) \div AesBits
      <4>1. q \in Nat /\ AesBits * q <= n - 1
        <5>1. n - 1 \in Nat
          BY <2>1, <3>2
        <5> QED
          BY <5>1, <2>1, DivBounds
      <4>2. c = q + 1
        BY <3>2 DEF CeilDivide
      <4> HIDE DEF q, c, n
      <4>3. AesBits * (q + 1) = AesBits * q + AesBits /\ AesBits * q \in Nat
        BY <2>1, <4>1
      <4> QED
        BY <2>1, <4>1, <4>2, <4>3
    <3> QED
      BY <2>1, <3>1, <3>2
  <2> QED
    BY <2>2, <2>3
<1> HIDE DEF c, n
<1>4. P \in Nat /\ n <= P /\ P < n + AesBits /\ (n > 0 => P > 0)
  <2>1. c * AesBits = AesBits * c /\ c * AesBits \in Nat
    BY <1>1, <1>3
  <2> QED
    BY <1>1, <1>2, <1>3, <2>1
<1> HIDE DEF P
<1>5. M \in Nat /\ P <= k * M /\ (P > 0 => M >= 1) /\ M <= P
  <2>1. M \in Nat /\ P <= k * M /\ (P > 0 => M >= 1)
    BY <1>1, <1>2, <1>4, CeilDivideBounds
  <2>2. P <= k * P
    BY <1>1, <1>4
  <2>3. M <= P
    BY <1>1, <1>2, <1>4, <2>2, CeilDivideLeast
  <2> QED
    BY <2>1, <2>3
<1> HIDE DEF M, k
<1>6. k * M + M < Wrap
  <2>1. k * M + M = (k + 1) * M /\ (k + 1) * M \in Nat
    BY <1>1, <1>5
  <2>2. (k + 1) * M <= (k + 1) * (n + AesBits)
    <3>1. M <= n + AesBits
      BY <1>1, <1>4, <1>5
    <3>2. k + 1 \in Nat /\ n + AesBits \in Nat
      BY <1>1
    <3> QED
      BY <1>5, <3>1, <3>2
  <2>3. (k + 1) * (n + AesBits) \in Nat
    BY <1>1
  <2> QED
    BY <1>1, <2>1, <2>2, <2>3
<1>7. n <= k * M /\ n < Wrap /\ k * M \in Nat
  <2>1. k * M \in Nat
    BY <1>1, <1>5
  <2> QED
    BY <1>1, <1>4, <1>5, <1>6, <2>1
<1> QED
  BY <1>1, <1>4, <1>5, <1>6, <1>7 DEF n, M, k

(* The end of a thread's part, though it is computed with a difference that wraps. *)
LEMMA Part ==
  ASSUME inst \in Instances, NEW t \in Threads
  PROVE  /\ MyStartPos(t) \in Nat /\ OtLim(t) \in Nat /\ OtLim(t) <= nOTs
         /\ OtLim(t) = Lesser(MyStartPos(t) + MyNumOTs, nOTs)
         /\ MyStartPos(t) + MyNumOTs < Wrap
         /\ MyStartPos(t) < OtLim(t) => CutNumOTs(t) = OtLim(t) - MyStartPos(t)
<1> DEFINE M == MyNumOTs
           s == MyStartPos(t)
           n == nOTs
           l == Lesser(M + s, n)
<1>1. /\ n \in Nat /\ M \in Nat /\ Wrap \in Nat \ {0} /\ n < Wrap
      /\ inst.threads * M + M < Wrap /\ inst.threads \in Nat /\ t \in Nat /\ t < inst.threads
  BY Shares, Sizes DEF Threads
<1>2. s \in Nat /\ s + M < Wrap
  <2>1. s = t * M
    BY DEF MyStartPos
  <2> HIDE DEF M, s
  <2>2. t * M \in Nat /\ t * M <= inst.threads * M /\ inst.threads * M \in Nat
    BY <1>1
  <2> QED
    BY <1>1, <2>1, <2>2
<1>3. CutNumOTs(t) = (l - s) % Wrap /\ OtLim(t) = (s + CutNumOTs(t)) % Wrap
  BY DEF CutNumOTs, OtLim
<1> HIDE DEF M, s, n
<1>4. l \in Nat /\ l <= n /\ l < Wrap /\ l = Lesser(s + M, n)
  BY <1>1, <1>2 DEF Lesser
<1> HIDE DEF l
<1>5. OtLim(t) = l
  <2>1. l - s \in Int /\ l \in 0 .. Wrap - 1 /\ l = s + (l - s) /\ s \in Int
    BY <1>1, <1>2, <1>4
  <2>2. (s + ((l - s) % Wrap)) % Wrap = l
    BY <1>1, <2>1, AddedRemainder
  <2> QED
    BY <1>3, <2>2
<1>6. ASSUME s < l PROVE CutNumOTs(t) = l - s
  <2>1. l - s \in 0 .. Wrap - 1 /\ Wrap * 0 + (l - s) = l - s /\ 0 \in Int
    BY <1>1, <1>2, <1>4, <1>6
  <2>2. (Wrap * 0 + (l - s)) % Wrap = l - s
    BY <1>1, <2>1, OneRemainder
  <2> QED
    BY <1>3, <2>1, <2>2
<1> QED
  BY <1>2, <1>4, <1>5, <1>6 DEF M, s, n

(* A round has at least one OT and is inside the part; all but the last are full. *)
LEMMA Round ==
  ASSUME inst \in Instances, NEW t \in Threads, NEW o \in Nat, o < OtLim(t)
  PROVE  /\ Blocks(t, o) \in Nat \ {0} /\ Blocks(t, o) <= inst.numOTBlocks
         /\ Blocks(t, o) = CeilDivide(OtLen(t, o), CodeWordBits)
         /\ ProcessedOTs(t, o) = CodeWordBits * Blocks(t, o) /\ ProcessedOTs(t, o) \in Nat
         /\ OtLen(t, o) \in Nat \ {0} /\ OtLen(t, o) <= OtLim(t) - o
         /\ NextOtId(t, o) \in Nat /\ o < NextOtId(t, o) /\ NextOtId(t, o) <= OtLim(t)
         /\ NextOtId(t, o) = OtLim(t) \/ NextOtId(t, o) = o + RoundSize
<1> DEFINE B == CodeWordBits
           l == OtLim(t)
           m == inst.numOTBlocks
           x == l - o
           c == CeilDivide(x, B)
           b == Blocks(t, o)
           e == OtLen(t, o)
<1>1. l \in Nat /\ B \in Nat \ {0} /\ m \in Nat \ {0} /\ x \in Nat \ {0}
  <2>1. l \in Nat
    BY Part
  <2>2. m \in Nat \ {0}
    BY TablesOK
  <2> QED
    BY <2>1, <2>2, GroupOK
<1>2. b = Lesser(m, c) /\ ProcessedOTs(t, o) = b * B /\ e = Lesser(x, b * B) /\ RoundSize = m * B
      /\ NextOtId(t, o) = o + e
  BY DEF Blocks, ProcessedOTs, OtLen, RoundSize, NextOtId
<1> HIDE DEF b, e, l, m, B
<1>3. c \in Nat \ {0} /\ x <= B * c
  <2>1. x \in Nat /\ x > 0
    BY <1>1
  <2> HIDE DEF x
  <2> QED
    BY <1>1, <2>1, CeilDivideBounds
<1>4. x \in Nat /\ l = o + x /\ o < l
  BY <1>1 DEF l
<1> HIDE DEF x, c
<1>5. b \in Nat \ {0} /\ b <= m /\ b <= c /\ (b = m \/ b = c)
  BY <1>1, <1>2, <1>3 DEF Lesser
<1>6. b * B = B * b /\ B * b \in Nat \ {0} /\ B * m = m * B /\ B * m \in Nat
  <2>1. b * B = B * b /\ B * b \in Nat /\ B * m = m * B /\ B * m \in Nat
    BY <1>1, <1>5
  <2>2. B * b >= B * 1
    BY <1>1, <1>5
  <2> QED
    BY <1>1, <2>1, <2>2
<1>7. e \in Nat \ {0} /\ e <= x /\ e <= B * b /\ (e = x \/ e = B * b)
  BY <1>1, <1>2, <1>4, <1>6 DEF Lesser
<1>8. o + e = l \/ o + e = o + RoundSize
  <2>1. CASE b = m
    <3>1. B * b = RoundSize
      BY <1>2, <1>6, <2>1
    <3> QED
      BY <1>4, <1>7, <3>1
  <2>2. CASE b = c
    BY <1>3, <1>4, <1>6, <1>7, <1>1, <1>2, <2>2 DEF Lesser
  <2> QED
    BY <1>5, <2>1, <2>2
<1>9. b = CeilDivide(e, B)
  <2>1. CeilDivide(e, B) <= b /\ CeilDivide(e, B) \in Nat /\ e <= B * CeilDivide(e, B)
    BY <1>1, <1>5, <1>7, CeilDivideLeast, CeilDivideBounds
  <2>2. CASE e = x
    <3>1. CeilDivide(e, B) = c
      BY <2>2 DEF c
    <3> QED
      BY <1>5, <2>1, <3>1, <1>3
  <2>3. CASE e = B * b
    <3> DEFINE d == CeilDivide(e, B)
    <3>1. d \in Nat /\ d <= b /\ B * b <= B * d
      BY <2>1, <2>3
    <3> HIDE DEF d
    <3>2. ASSUME d < b PROVE FALSE
      <4>1. B * (d + 1) <= B * b
        BY <1>1, <1>5, <3>1, <3>2
      <4>2. B * (d + 1) = B * d + B /\ B * d \in Nat
        BY <1>1, <3>1
      <4> QED
        BY <1>1, <1>6, <3>1, <4>1, <4>2
    <3> QED
      BY <1>5, <3>1, <3>2 DEF d
  <2> QED
    BY <1>7, <2>2, <2>3
<1>10. o + e \in Nat /\ o < o + e /\ o + e <= l
  BY <1>4, <1>7
<1> QED
  BY <1>2, <1>5, <1>6, <1>7, <1>8, <1>9, <1>10, <1>4 DEF b, B, m, e, l

(* The first round of a thread begins at its first OT, *)
LEMMA PointFirst ==
  ASSUME inst \in Instances, NEW t \in Threads
  PROVE  Point(t, MyStartPos(t))
<1>1. MyStartPos(t) \in Nat
  BY Part
<1>2. RoundSize \in Nat
  BY TablesOK, GroupOK DEF RoundSize
<1>3. MyStartPos(t) = MyStartPos(t) + 0 * RoundSize /\ 0 \in Nat
  BY <1>1, <1>2
<1> QED
  BY <1>1, <1>3 DEF Point

(* and where a round ends another can begin. *)
LEMMA PointNext ==
  ASSUME inst \in Instances, NEW t \in Threads, NEW o, Point(t, o), o < OtLim(t)
  PROVE  Point(t, NextOtId(t, o))
<1> DEFINE s == MyStartPos(t)
           x == NextOtId(t, o)
<1>1. o \in Nat /\ s <= o /\ s \in Nat /\ OtLim(t) \in Nat
  BY Part DEF Point
<1>2. x \in Nat /\ o < x /\ x <= OtLim(t) /\ (x = OtLim(t) \/ x = o + RoundSize)
  BY <1>1, Round
<1>3. RoundSize \in Nat
  BY TablesOK, GroupOK DEF RoundSize
<1>4. ASSUME x = o + RoundSize PROVE \E j \in Nat : x = s + j * RoundSize
  <2> PICK j \in Nat : o = s + j * RoundSize
    BY <1>1 DEF Point
  <2>1. (j + 1) * RoundSize = j * RoundSize + RoundSize /\ j * RoundSize \in Nat
    BY <1>3
  <2>2. x = s + (j + 1) * RoundSize /\ j + 1 \in Nat
    <3> HIDE DEF s, x
    <3> QED
      BY <1>1, <1>2, <1>3, <1>4, <2>1
  <2> HIDE DEF x, s
  <2> QED
    BY <2>2
<1>5. s <= x
  BY <1>1, <1>2
<1> HIDE DEF s, x
<1>6. Point(t, x)
  BY <1>2, <1>4, <1>5 DEF Point, s
<1> QED
  BY <1>6 DEF x

(* Every OT is in the part of a thread. *)
LEMMA PartsCover ==
  ASSUME inst \in Instances, NEW o \in 0 .. nOTs - 1
  PROVE  \E t \in Threads : MyStartPos(t) <= o /\ o < OtLim(t)
<1> DEFINE M == MyNumOTs
           k == inst.threads
           t == o \div M
<1>1. /\ nOTs \in Nat /\ M \in Nat \ {0} /\ k \in Nat \ {0} /\ nOTs <= k * M /\ o \in Nat /\ o < nOTs
  <2>1. nOTs \in Nat /\ M \in Nat /\ (nOTs > 0 => M > 0) /\ nOTs <= k * M
    BY Shares
  <2>2. o \in Nat /\ o < nOTs /\ nOTs > 0
    BY <2>1
  <2>3. k \in Nat \ {0}
    BY Sizes
  <2> HIDE DEF M, k
  <2> QED
    BY <2>1, <2>2, <2>3
<1> HIDE DEF M, k
<1>2. t \in Nat /\ M * t <= o /\ o < M * t + M
  BY <1>1, DivBounds
<1> HIDE DEF t
<1>3. ASSUME t >= k PROVE FALSE
  <2>1. M * t >= M * k
    BY <1>1, <1>2, <1>3
  <2>2. M * k = k * M /\ k * M \in Nat /\ M * t \in Nat
    BY <1>1, <1>2
  <2> QED
    BY <1>1, <1>2, <2>1, <2>2
<1>4. t \in Threads
  BY <1>1, <1>2, <1>3 DEF Threads, k
<1>5. MyStartPos(t) = M * t /\ M * t \in Nat
  BY <1>1, <1>2 DEF MyStartPos, M
<1>6. OtLim(t) = Lesser(M * t + M, nOTs)
  BY <1>4, <1>5, Part DEF M
<1>7. o < OtLim(t)
  BY <1>1, <1>2, <1>5, <1>6 DEF Lesser
<1> QED
  BY <1>2, <1>4, <1>5, <1>7

(* Where the masks of the bins begin. *)
LEMMA Starts ==
  ASSUME inst \in Instances, NEW p \in Party
  PROVE  IsSums(StartingPos(p), inst.count[p], nOTs)
<1> DEFINE n == nOTs
           a == inst.count[p]
<1>1. n \in Nat /\ a \in [0 .. n - 1 -> Nat]
  BY TablesOK DEF nOTs
<1>2. StartingPos(p) = RunningSums(a, n)
  BY Zenon DEF StartingPos, RunningSums
<1> HIDE DEF n, a
<1>3. IsSums(RunningSums(a, n), a, n)
  BY <1>1, RunningSumsAre
<1> QED
  BY <1>2, <1>3 DEF n, a

(***************************************************************************)
(* Masks and bins.                                                         *)
(***************************************************************************)

LEMMA SumsGrow ==
  ASSUME NEW n \in Nat, NEW a \in [0 .. n - 1 -> Nat], NEW s, IsSums(s, a, n),
         NEW i \in 0 .. n, NEW j \in i .. n
  PROVE  s[i] <= s[j]
<1> DEFINE T == {x \in i .. n : ~ (s[i] <= s[x])}
<1> SUFFICES ASSUME T # {} PROVE FALSE
  OBVIOUS
<1>1. T \subseteq Nat
  OBVIOUS
<1>2. PICK x \in T : \A y \in T : x <= y
  BY <1>1, Least
<1>3. x \in i .. n /\ ~ (s[i] <= s[x])
  OBVIOUS
<1>4. s \in [0 .. n -> Nat]
  BY DEF IsSums
<1>5. x # i
  BY <1>3, <1>4
<1>6. x - 1 \in i .. n /\ x - 1 \in 0 .. n - 1 /\ (x - 1) + 1 = x /\ x - 1 \notin T
  BY <1>2, <1>3, <1>5
<1>7. s[i] <= s[x - 1]
  BY <1>6
<1>8. s[x] = s[x - 1] + a[x - 1] /\ a[x - 1] \in Nat
  BY <1>6 DEF IsSums
<1>9. s[x] \in Nat /\ s[x - 1] \in Nat /\ s[i] \in Nat
  BY <1>3, <1>4, <1>6
<1> HIDE DEF T
<1>10. s[i] <= s[x]
  BY <1>7, <1>8, <1>9
<1> QED
  BY <1>3, <1>10

(* Every number below a sum belongs to one of its parts. *)
LEMMA SumHasPart ==
  ASSUME NEW n \in Nat, NEW a \in [0 .. n - 1 -> Nat], NEW s, IsSums(s, a, n),
         NEW e \in 0 .. s[n] - 1
  PROVE  \E o \in 0 .. n - 1 : s[o] <= e /\ e < s[o + 1]
<1> DEFINE T == {x \in 0 .. n : e < s[x]}
<1>1. s \in [0 .. n -> Nat] /\ s[0] = 0
  BY DEF IsSums
<1>2. n \in T /\ T \subseteq Nat
  BY <1>1
<1>3. PICK x \in T : \A y \in T : x <= y
  BY <1>2, Least
<1>4. x \in 0 .. n /\ e < s[x]
  OBVIOUS
<1>5. x # 0
  BY <1>1, <1>4
<1>6. x - 1 \in 0 .. n - 1 /\ x - 1 \in 0 .. n /\ (x - 1) + 1 = x /\ x - 1 \notin T
  BY <1>3, <1>4, <1>5
<1>7. ~ (e < s[x - 1]) /\ s[x - 1] \in Nat
  BY <1>1, <1>6
<1> QED
  BY <1>4, <1>6, <1>7

(* What the places of the bins have to do with each other. *)
LEMMA Places ==
  ASSUME inst \in Instances, NEW p \in Party
  PROVE  /\ nOTs \in Nat /\ NMasks(p) \in Nat
         /\ \A o \in 0 .. nOTs : StartingPos(p)[o] \in Nat
         /\ \A i \in 0 .. nOTs : \A j \in i .. nOTs : StartingPos(p)[i] <= StartingPos(p)[j]
         /\ \A o \in 0 .. nOTs - 1 : StartingPos(p)[o + 1] = StartingPos(p)[o] + inst.count[p][o]
         /\ \A e \in 0 .. NMasks(p) - 1 :
              \E o \in 0 .. nOTs - 1 : StartingPos(p)[o] <= e /\ e < StartingPos(p)[o + 1]
<1> DEFINE n == nOTs
           a == inst.count[p]
           s == StartingPos(p)
<1>1. n \in Nat /\ a \in [0 .. n - 1 -> Nat]
  BY TablesOK DEF nOTs
<1>2. IsSums(s, a, n) /\ NMasks(p) = s[n]
  BY Starts DEF NMasks
<1> HIDE DEF n, a, s
<1>3. s \in [0 .. n -> Nat] /\ \A o \in 0 .. n - 1 : s[o + 1] = s[o] + a[o]
  BY <1>2 DEF IsSums
<1>4. \A i \in 0 .. n : \A j \in i .. n : s[i] <= s[j]
  BY <1>1, <1>2, SumsGrow
<1>5. \A e \in 0 .. s[n] - 1 : \E o \in 0 .. n - 1 : s[o] <= e /\ e < s[o + 1]
  BY <1>1, <1>2, SumHasPart
<1>6. \A o \in 0 .. n : s[o] \in Nat
  BY <1>3
<1>7. s[n] \in Nat
  BY <1>1, <1>3
<1> QED
  BY <1>1, <1>2, <1>3, <1>4, <1>5, <1>6, <1>7 DEF n, a, s

(* The jobs of a round are for the masks of its OTs. *)
LEMMA ClientJobsOK ==
  ASSUME inst \in Instances, NEW o \in Nat, NEW columns, NEW n \in Nat, o + n <= nOTs
  PROVE  JobsOK(CLIENT, ClientJobs(o, columns, n), o, o + n)
<1> DEFINE jobs == ClientJobs(o, columns, n)
           s == StartingPos(CLIENT)
<1>1. DOMAIN jobs = 1 .. n /\ jobs = [i \in 1 .. n |-> jobs[i]]
  BY DEF ClientJobs
<1>2. \A i \in 1 .. n : jobs[i].cell = ClientCell(o + i - 1)
  BY DEF ClientJobs
<1> HIDE DEF jobs
<1>3. IsSeq(jobs) /\ Len(jobs) = n
  BY <1>1, ListIsSeq
<1>4. /\ nOTs \in Nat /\ NMasks(CLIENT) \in Nat
      /\ \A x \in 0 .. nOTs : s[x] \in Nat
      /\ \A i \in 0 .. nOTs : \A j \in i .. nOTs : s[i] <= s[j]
      /\ \A x \in 0 .. nOTs - 1 : s[x + 1] = s[x] + inst.count[CLIENT][x]
      /\ NMasks(CLIENT) = s[nOTs]
  BY Places, Parties DEF NMasks
<1>5. \A x \in 0 .. nOTs - 1 : inst.count[CLIENT][x] \in {0, 1}
  BY TablesOK DEF nOTs
<1> HIDE DEF s
<1>6. ASSUME NEW i \in 1 .. n
      PROVE  jobs[i].cell \in (0 .. NMasks(CLIENT) - 1) \cup {NoCell}
  <2> DEFINE x == o + i - 1
  <2>1. x \in 0 .. nOTs - 1 /\ x + 1 \in 0 .. nOTs /\ x \in 0 .. nOTs /\ nOTs \in (x + 1) .. nOTs
    BY <1>4
  <2>2. jobs[i].cell = ClientCell(x)
    BY <1>2
  <2> HIDE DEF x
  <2>3. CASE inst.count[CLIENT][x] > 0
    <3>1. jobs[i].cell = s[x]
      BY <2>2, <2>3 DEF ClientCell, s
    <3>2. s[x + 1] = s[x] + 1 /\ s[x] \in Nat /\ s[x + 1] <= s[nOTs]
      BY <1>4, <1>5, <2>1, <2>3
    <3>3. s[x] \in 0 .. NMasks(CLIENT) - 1
      BY <1>4, <3>2
    <3> QED
      BY <3>1, <3>3
  <2>4. CASE ~ (inst.count[CLIENT][x] > 0)
    BY <2>2, <2>4 DEF ClientCell
  <2> QED
    BY <2>3, <2>4
<1>7. ASSUME NEW x \in o .. (o + n) - 1, NEW e \in 0 .. NMasks(CLIENT) - 1, s[x] <= e, e < s[x + 1]
      PROVE  \E i \in 1 .. Len(jobs) : jobs[i].cell = e
  <2>1. x \in 0 .. nOTs - 1 /\ x \in 0 .. nOTs
    <3>1. x \in Nat /\ x < o + n /\ o + n \in Nat /\ nOTs \in Nat
      BY <1>4
    <3> QED
      BY <3>1
  <2>2. s[x + 1] = s[x] + inst.count[CLIENT][x] /\ s[x] \in Nat /\ inst.count[CLIENT][x] \in {0, 1}
    BY <1>4, <1>5, <2>1
  <2>3. inst.count[CLIENT][x] > 0 /\ e = s[x]
    <3>1. e \in Nat /\ s[x] <= e /\ e < s[x + 1]
      BY <1>4, <1>7
    <3>2. CASE inst.count[CLIENT][x] = 0
      <4>1. s[x + 1] = s[x]
        BY <2>2, <3>2
      <4> QED
        BY <2>2, <3>1, <4>1
    <3>3. CASE inst.count[CLIENT][x] = 1
      BY <2>2, <3>1, <3>3
    <3> QED
      BY <2>2, <3>2, <3>3
  <2> DEFINE i == x - o + 1
  <2>4. i \in 1 .. n /\ o + i - 1 = x
    OBVIOUS
  <2> HIDE DEF i
  <2>5. jobs[i].cell = ClientCell(x)
    BY <1>2, <2>4
  <2>6. jobs[i].cell = e
    BY <2>3, <2>5 DEF ClientCell, s
  <2> QED
    BY <1>3, <2>4, <2>6
<1> QED
  BY <1>3, <1>6, <1>7 DEF JobsOK, Covers, s, jobs

(* The masks of a round of the server are those of its OTs. *)
LEMMA ServerJobsOK ==
  ASSUME inst \in Instances, NEW rcv, NEW o \in Nat, NEW columns, NEW n \in Nat, o + n <= nOTs
  PROVE  JobsOK(SERVER, ServerJobs(rcv, o, columns, n), o, o + n)
<1> DEFINE jobs == ServerJobs(rcv, o, columns, n)
           s == StartingPos(SERVER)
           first == s[o]
           m == s[o + n] - first
<1>1. DOMAIN jobs = 1 .. m /\ jobs = [i \in 1 .. m |-> jobs[i]]
  BY DEF ServerJobs
<1>2. \A i \in 1 .. m : jobs[i].cell = first + i - 1
  BY DEF ServerJobs
<1> HIDE DEF jobs
<1>4. /\ nOTs \in Nat /\ NMasks(SERVER) \in Nat
      /\ \A x \in 0 .. nOTs : s[x] \in Nat
      /\ \A i \in 0 .. nOTs : \A j \in i .. nOTs : s[i] <= s[j]
      /\ NMasks(SERVER) = s[nOTs]
  BY Places, Parties DEF NMasks
<1> HIDE DEF s
<1>5. first \in Nat /\ m \in Nat /\ first + m = s[o + n] /\ s[o + n] <= s[nOTs] /\ s[nOTs] \in Nat
  <2>1. o \in 0 .. nOTs /\ o + n \in o .. nOTs /\ o + n \in 0 .. nOTs /\ nOTs \in (o + n) .. nOTs
        /\ nOTs \in 0 .. nOTs
    BY <1>4
  <2>2. s[o] \in Nat /\ s[o + n] \in Nat /\ s[o] <= s[o + n] /\ s[o + n] <= s[nOTs] /\ s[nOTs] \in Nat
    BY <1>4, <2>1
  <2> QED
    BY <2>2
<1>3. IsSeq(jobs) /\ Len(jobs) = m
  BY <1>1, <1>5, ListIsSeq
<1>6. ASSUME NEW i \in 1 .. m
      PROVE  jobs[i].cell \in (0 .. NMasks(SERVER) - 1) \cup {NoCell}
  <2>1. jobs[i].cell = first + i - 1
    BY <1>2
  <2> HIDE DEF first, m
  <2>2. first + i - 1 \in 0 .. NMasks(SERVER) - 1
    BY <1>4, <1>5
  <2> QED
    BY <2>1, <2>2
<1>7. ASSUME NEW x \in o .. (o + n) - 1, NEW e \in 0 .. NMasks(SERVER) - 1, s[x] <= e, e < s[x + 1]
      PROVE  \E i \in 1 .. Len(jobs) : jobs[i].cell = e
  <2>1. x \in o .. nOTs /\ x + 1 \in 0 .. nOTs /\ o + n \in (x + 1) .. nOTs /\ o \in 0 .. nOTs
        /\ o + n \in 0 .. nOTs /\ x \in 0 .. nOTs
    BY <1>4
  <2>2. first <= s[x] /\ s[x + 1] <= s[o + n] /\ s[x] \in Nat /\ s[x + 1] \in Nat /\ s[o + n] \in Nat
    BY <1>4, <2>1
  <2> DEFINE i == e - first + 1
  <2>3. i \in 1 .. m /\ first + i - 1 = e
    <3> HIDE DEF first, m
    <3>1. e \in Nat /\ first <= e /\ e < first + m
      BY <1>4, <1>5, <1>7, <2>2
    <3> QED
      BY <1>5, <3>1
  <2> HIDE DEF i, first, m
  <2>4. jobs[i].cell = e
    BY <1>2, <2>3
  <2> QED
    BY <1>3, <2>3, <2>4
<1> QED
  BY <1>3, <1>6, <1>7 DEF JobsOK, Covers, s, jobs

(***************************************************************************)
(* What depends on the instance alone, in the extension.                   *)
(***************************************************************************)

LEMMA StaticParts ==
  ASSUME inst' = inst
  PROVE  /\ nOTs' = nOTs /\ MyNumOTs' = MyNumOTs
         /\ \A t : MyStartPos(t)' = MyStartPos(t) /\ OtLim(t)' = OtLim(t)
         /\ \A t, o : Blocks(t, o)' = Blocks(t, o)
         /\ \A t, o : ProcessedOTs(t, o)' = ProcessedOTs(t, o) /\ NextOtId(t, o)' = NextOtId(t, o)
<1>1. nOTs' = nOTs
  BY DEF nOTs
<1>2. MyNumOTs' = MyNumOTs
  BY <1>1 DEF MyNumOTs, PadToMultiple
<1>3. \A t : MyStartPos(t)' = MyStartPos(t)
  BY <1>2 DEF MyStartPos
<1>4. \A t : OtLim(t)' = OtLim(t)
  BY <1>1, <1>2, <1>3 DEF OtLim, CutNumOTs
<1>5. \A t, o : Blocks(t, o)' = Blocks(t, o)
  BY <1>4 DEF Blocks
<1>6. \A t, o : ProcessedOTs(t, o)' = ProcessedOTs(t, o)
  BY <1>5 DEF ProcessedOTs
<1>7. \A t, o : NextOtId(t, o)' = NextOtId(t, o)
  BY <1>4, <1>6 DEF NextOtId, OtLen
<1> QED
  BY <1>1, <1>2, <1>3, <1>4, <1>5, <1>6, <1>7

(* Where the masks of a bin are written depends on the inputs alone. *)
LEMMA StaticPlaces ==
  ASSUME inst' = inst
  PROVE  /\ \A p : StartingPos(p)' = StartingPos(p)
         /\ \A p : NMasks(p)' = NMasks(p)
<1>1. nOTs' = nOTs
  BY DEF nOTs
<1>2. \A p : StartingPos(p)' = StartingPos(p)
  BY <1>1, Zenon DEF StartingPos
<1>3. \A p : NMasks(p)' = NMasks(p)
  BY <1>1, <1>2 DEF NMasks
<1> QED
  BY <1>2, <1>3

(* So does what is said of a thread, given its state. *)
LEMMA StaticThread ==
  ASSUME inst' = inst, NEW p, NEW t
  PROVE  /\ \A o : Point(t, o)' = Point(t, o)
         /\ \A jobs, a, b : JobsOK(p, jobs, a, b)' = JobsOK(p, jobs, a, b)
         /\ \A s : ThreadOK(p, t, s)' = ThreadOK(p, t, s)
<1>1. RoundSize' = RoundSize
  BY DEF RoundSize
<1>2. \A o : Point(t, o)' = Point(t, o)
  BY <1>1, StaticParts DEF Point
<1>3. \A jobs, a, b : Covers(p, jobs, a, b)' = Covers(p, jobs, a, b)
  BY StaticPlaces DEF Covers
<1>4. \A jobs, a, b : JobsOK(p, jobs, a, b)' = JobsOK(p, jobs, a, b)
  BY <1>3, StaticPlaces DEF JobsOK
<1>5. \A s : Active(s)' = Active(s)
  BY DEF Active
<1>6. ASSUME NEW s PROVE ThreadOK(p, t, s)' = ThreadOK(p, t, s)
  <2>1. Point(t, s.ot_id)' = Point(t, s.ot_id)
    BY <1>2
  <2>2. JobsOK(p, s.jobs, s.ot_id, NextOtId(t, s.ot_id))' = JobsOK(p, s.jobs, s.ot_id, NextOtId(t, s.ot_id))
    BY <1>4, StaticParts
  <2>3. OtLim(t)' = OtLim(t) /\ ProcessedOTs(t, s.ot_id)' = ProcessedOTs(t, s.ot_id)
    BY StaticParts
  <2> QED
    BY <1>5, <2>1, <2>2, <2>3 DEF ThreadOK
<1> QED
  BY <1>2, <1>4, <1>6

(* All threads are well after a step if each of them is. *)
LEMMA ThreadsNext ==
  ASSUME inst' = inst, \A p \in Party, t \in Threads : ThreadOK(p, t, th'[p][t])
  PROVE  ThreadsOK'
<1>1. Threads' = Threads
  BY Static
<1> SUFFICES ASSUME NEW p \in Party, NEW t \in Threads
             PROVE  ThreadOK(p, t, th[p][t])'
  BY <1>1 DEF ThreadsOK
<1>2. \A s : ThreadOK(p, t, s)' = ThreadOK(p, t, s)
  BY StaticThread
<1> QED
  BY <1>2

(***************************************************************************)
(* The steps of the worker threads.                                        *)
(***************************************************************************)

(* What has been written stays written. *)
OutGrows ==
  /\ DOMAIN out' = Party
  /\ \A p \in Party :
       /\ DOMAIN out'[p] = DOMAIN out[p]
       /\ \A e \in DOMAIN out[p] : out[p][e] # <<>> => out'[p][e] # <<>>

(* What has been written stays written, *)
LEMMA StillWritten ==
  ASSUME inst' = inst, OutGrows, NEW p \in Party
  PROVE  \A a, b : Written(p, a, b) => Written(p, a, b)'
BY StaticPlaces DEF Written, OutGrows

(* and so do the jobs that are done. *)
LEMMA JobsStillWritten ==
  ASSUME inst' = inst, MasksOK, OutGrows, NEW p \in Party, NEW jobs, NEW a, NEW b, JobsOK(p, jobs, a, b),
         NEW pos \in 1 .. Len(jobs) + 1, JobsWritten(p, jobs, pos)
  PROVE  JobsWritten(p, jobs, pos)'
<1>1. Len(jobs) \in Nat
  BY SeqFacts DEF JobsOK
<1>2. ASSUME NEW n \in 1 .. pos - 1, jobs[n].cell # NoCell
      PROVE  out'[p][jobs[n].cell] # <<>>
  <2>1. n \in 1 .. Len(jobs)
    BY <1>1
  <2>2. jobs[n].cell \in DOMAIN out[p]
    BY <1>2, <2>1 DEF JobsOK, MasksOK
  <2>3. out[p][jobs[n].cell] # <<>>
    BY <1>2 DEF JobsWritten
  <2> QED
    BY <2>2, <2>3 DEF OutGrows
<1> QED
  BY <1>2 DEF JobsWritten, NoCell

(* A step of one thread keeps the account of the masks if it does so for that thread. *)
LEMMA WorkerMasks ==
  ASSUME inst' = inst, ThreadsOK, MasksOK, OutGrows, NEW p \in Party, NEW t \in Threads,
         \A q \in Party, u \in Threads : (q # p \/ u # t) => th'[q][u] = th[q][u],
         DOMAIN hashBuf' = Party, \A q \in Party : hashBuf[q] # <<>> => hashBuf'[q] # <<>>,
         NEW r, r = th'[p][t],
         r.st = "copy" => hashBuf'[p] # <<>>,
         r.st # "none" => Written(p, MyStartPos(t), r.ot_id)',
         Active(r) => JobsWritten(p, r.jobs, r.pos)'
  PROVE  MasksOK'
<1>1. Threads' = Threads /\ \A q : NMasks(q)' = NMasks(q)
  BY Static, StaticPlaces
<1>2. \A u : MyStartPos(u)' = MyStartPos(u)
  BY StaticParts
<1>3. \A q \in Party : DOMAIN out'[q] = 0 .. NMasks(q)' - 1
  BY <1>1 DEF MasksOK, OutGrows
<1>4. ASSUME NEW q \in Party, NEW u \in Threads
      PROVE  (LET s == th[q][u]
              IN /\ s.st = "copy" => hashBuf[q] # <<>>
                 /\ s.st # "none" => Written(q, MyStartPos(u), s.ot_id)
                 /\ Active(s) => JobsWritten(q, s.jobs, s.pos))'
  <2>1. CASE q = p /\ u = t
    <3>1. Active(th[q][u])' <=> Active(r)
      BY <2>1 DEF Active
    <3>2. r.st # "none" => Written(p, MyStartPos(t), th[p][t].ot_id)'
      BY <1>2
    <3>3. Active(r) => JobsWritten(p, th[p][t].jobs, th[p][t].pos)'
      OBVIOUS
    <3> QED
      BY <2>1, <3>1, <3>2, <3>3
  <2>2. CASE ~(q = p /\ u = t)
    <3>1. PICK s : s = th[q][u]
      OBVIOUS
    <3>2. th'[q][u] = s
      BY <2>2, <3>1
    <3>3. /\ s.st = "copy" => hashBuf[q] # <<>>
          /\ s.st # "none" => Written(q, MyStartPos(u), s.ot_id)
          /\ Active(s) => JobsWritten(q, s.jobs, s.pos)
      BY <3>1 DEF MasksOK
    <3>4. ThreadOK(q, u, s)
      BY <3>1 DEF ThreadsOK
    <3>5. s.st = "copy" => hashBuf'[q] # <<>>
      BY <3>3
    <3>6. s.st # "none" => Written(q, MyStartPos(u), s.ot_id)'
      <4>1. \A a, b : Written(q, a, b) => Written(q, a, b)'
        BY StillWritten
      <4> QED
        BY <1>2, <3>3, <4>1
    <3>7. Active(s) => JobsWritten(q, s.jobs, s.pos)'
      <4> SUFFICES ASSUME Active(s) PROVE JobsWritten(q, s.jobs, s.pos)'
        OBVIOUS
      <4>1. JobsOK(q, s.jobs, s.ot_id, NextOtId(u, s.ot_id)) /\ s.pos \in 1 .. Len(s.jobs) + 1
        BY <3>4 DEF ThreadOK
      <4> DEFINE jobs == s.jobs
                 pos == s.pos
                 a == s.ot_id
                 b == NextOtId(u, a)
      <4>2. JobsOK(q, jobs, a, b) /\ pos \in 1 .. Len(jobs) + 1 /\ JobsWritten(q, jobs, pos)
        BY <3>3, <4>1
      <4> HIDE DEF jobs, pos, a, b
      <4>3. JobsWritten(q, jobs, pos)'
        BY <4>2, JobsStillWritten
      <4> QED
        BY <4>3 DEF jobs, pos
    <3>8. Active(th[q][u])' <=> Active(s)
      BY <3>2 DEF Active
    <3>9. s.st # "none" => Written(q, MyStartPos(u), th[q][u].ot_id)'
      BY <1>2, <3>2, <3>6
    <3>10. Active(s) => JobsWritten(q, th[q][u].jobs, th[q][u].pos)'
      BY <3>2, <3>7
    <3> QED
      BY <3>2, <3>5, <3>8, <3>9, <3>10
  <2> QED
    BY <2>1, <2>2
<1>5. DOMAIN out' = Party
  BY DEF OutGrows
<1> QED
  BY <1>1, <1>3, <1>4, <1>5 DEF MasksOK

(* What a thread's step leaves alone, and what it may change. *)
WorkerMoves(p, t) ==
  /\ UNCHANGED <<inst, main, prfKey, keySeeds, keySeedMtx, idx>>
  /\ IsTable(th)'
  /\ \A q \in Party, u \in Threads : DOMAIN th'[q][u] = Fields
  /\ \A q \in Party, u \in Threads : (q # p \/ u # t) => th'[q][u] = th[q][u]
  /\ th[p][t].st \notin {"none", "ended"}
  /\ th'[p][t].st # "none"

(* A step of one thread keeps the invariant if it does so for that thread. *)
LEMMA WorkerStep ==
  ASSUME IInv, NEW p \in Party, NEW t \in Threads, WorkerMoves(p, t),
         Channels', chan'[CLIENT] = chan[CLIENT],
         chan'[SERVER] = chan[SERVER] \/ main[SERVER] \notin ServerBase,
         running' \in [Party -> [Threads -> BOOLEAN]],
         \A q \in Party, u \in Threads : running'[q][u] = running[q][u] \/ th'[q][u].st = "ended",
         ThreadOK(p, t, th'[p][t]), MasksOK'
  PROVE  IInv'
<1>1. /\ KeyInv /\ BaseInv /\ InRange /\ Asleep /\ MainOK /\ ThreadsOK /\ inst \in Instances
      /\ main \in [Party -> States]
  BY DEF IInv, KeyInv, BaseInv, Together
<1>2. inst' = inst /\ main' = main /\ UNCHANGED <<prfKey, keySeeds, keySeedMtx, idx>>
  BY DEF WorkerMoves
<1>3. Threads' = Threads /\ nOTs' = nOTs
  BY <1>2, Static, StaticParts
<1>4. \A q \in Party, u \in Threads :
        /\ th'[q][u].st # "none" <=> th[q][u].st # "none"
        /\ th[q][u].st = "ended" => th'[q][u].st = "ended"
  BY DEF WorkerMoves
<1>5. Asleep'
  <2>1. \A q \in Party, u \in Threads : th'[q][u].st # "none" => Begun(q)'
    BY <1>1, <1>2, <1>4 DEF Asleep, Begun
  <2> QED
    BY <1>3, <2>1 DEF Asleep, WorkerMoves, Fields
<1>6. InRange'
  BY <1>1, <1>2 DEF InRange, Begun
<1>7. BaseInv'
  <2>1. \A q \in Party : main'[q] = main[q] \/ (Begun(q) /\ Begun(q)')
    BY <1>2
  <2>2. main' \in [Party -> States]
    BY <1>1, <1>2
  <2> QED
    BY <1>1, <1>2, <1>5, <2>1, <2>2, LateFrame
<1>8. ThreadsOK'
  <2>1. \A q \in Party, u \in Threads : ThreadOK(q, u, th'[q][u])
    BY <1>1 DEF ThreadsOK, WorkerMoves
  <2> QED
    BY <1>2, <2>1, ThreadsNext
<1>9. MainOK'
  <2>1. \A q \in Party : \A u :
          /\ Created(q, u)' = Created(q, u) /\ Marked(q, u)' = Marked(q, u)
          /\ HasJoined(q, u)' = HasJoined(q, u)
    BY <1>2, <1>3 DEF Created, Marked, HasJoined
  <2>2. ASSUME NEW q \in Party, NEW u \in Threads
        PROVE  /\ th'[q][u].st # "none" <=> Created(q, u)
               /\ Marked(q, u) /\ ~ running'[q][u] => th'[q][u].st = "ended"
               /\ HasJoined(q, u) => th'[q][u].st = "ended"
    <3>1. /\ th[q][u].st # "none" <=> Created(q, u)
          /\ Marked(q, u) /\ ~ running[q][u] => th[q][u].st = "ended"
          /\ HasJoined(q, u) => th[q][u].st = "ended"
      BY <1>1 DEF MainOK
    <3> QED
      BY <1>4, <3>1
  <2>3. \A q \in Party :
          main'[q] \in {"mark", "wait"} \/ (main'[q] = "create" /\ idx'[q] > 0) => nOTs > 0
    BY <1>1, <1>2 DEF MainOK
  <2> QED
    BY <1>3, <2>1, <2>2, <2>3 DEF MainOK
<1> QED
  BY <1>6, <1>7, <1>8, <1>9 DEF IInv, KeyInv

(* A step that writes no mask loses none. *)
LEMMA Unraced ==
  ASSUME MasksOK, out' = out
  PROVE  OutGrows
BY DEF MasksOK, OutGrows

(* A step that leaves the flags alone clears none of them. *)
LEMMA RunningStays ==
  ASSUME MainOK, running' = running
  PROVE  /\ running' \in [Party -> [Threads -> BOOLEAN]]
         /\ \A q \in Party, u \in Threads : running'[q][u] = running[q][u] \/ th'[q][u].st = "ended"
BY DEF MainOK

(* A round of either party keeps the invariant: *)
LEMMA RoundStep ==
  ASSUME IInv, NEW p \in Party, NEW t \in Threads,
         UNCHANGED <<inst, main, prfKey, keySeeds, keySeedMtx, idx, running, hashBuf, out>>,
         th[p][t].st = "ready", th[p][t].ot_id < OtLim(t),
         NEW jobs, NEW snd,
         Changed(p, t, "hash", th[p][t].ot_id, jobs, 1, snd),
         JobsOK(p, jobs, th[p][t].ot_id, NextOtId(t, th[p][t].ot_id)),
         p = CLIENT => DOMAIN snd = 0 .. CodeWordBits * ProcessedOTs(t, th[p][t].ot_id) - 1,
         Channels', chan'[CLIENT] = chan[CLIENT],
         chan'[SERVER] = chan[SERVER] \/ main[SERVER] \notin ServerBase
  PROVE  IInv'
<1>1. MainOK /\ ThreadsOK /\ MasksOK /\ ThreadOK(p, t, th[p][t])
  BY DEF IInv, ThreadsOK
<1>2. PICK r : r = th'[p][t]
  OBVIOUS
<1>3. r.st = "hash" /\ r.ot_id = th[p][t].ot_id /\ r.jobs = jobs /\ r.pos = 1 /\ r.snd = snd
  BY <1>2 DEF Changed
<1>4. ThreadOK(p, t, r)
  <2>1. Len(jobs) \in Nat
    BY SeqFacts DEF JobsOK
  <2>2. r.pos \in 1 .. Len(r.jobs) + 1
    BY <1>3, <2>1
  <2> QED
    BY <1>1, <1>3, <2>2 DEF ThreadOK, Active
<1>5. WorkerMoves(p, t)
  BY <1>2, <1>3 DEF WorkerMoves, Changed
<1>6. MasksOK'
  <2>1. OutGrows
    BY <1>1, Unraced
  <2>2. Written(p, MyStartPos(t), r.ot_id)'
    <3>1. Written(p, MyStartPos(t), r.ot_id)
      BY <1>1, <1>3 DEF MasksOK
    <3>2. MyStartPos(t)' = MyStartPos(t)
      BY StaticParts
    <3>3. \A a, b : Written(p, a, b) => Written(p, a, b)'
      BY <2>1, StillWritten
    <3> QED
      BY <3>1, <3>2, <3>3
  <2>3. JobsWritten(p, r.jobs, r.pos)'
    BY <1>3 DEF JobsWritten
  <2>4. \A q \in Party, u \in Threads : (q # p \/ u # t) => th'[q][u] = th[q][u]
    BY DEF Changed
  <2>5. DOMAIN hashBuf' = Party /\ \A q \in Party : hashBuf[q] # <<>> => hashBuf'[q] # <<>>
    BY <1>1 DEF MasksOK
  <2>6. r.st # "copy"
    BY <1>3
  <2> QED
    BY <1>1, <1>2, <2>1, <2>2, <2>3, <2>4, <2>5, <2>6, WorkerMasks
<1>7. /\ running' \in [Party -> [Threads -> BOOLEAN]]
      /\ \A q \in Party, u \in Threads : running'[q][u] = running[q][u] \/ th'[q][u].st = "ended"
  BY <1>1, RunningStays
<1>8. ThreadOK(p, t, th'[p][t])
  BY <1>2, <1>4
<1> QED
  BY <1>5, <1>6, <1>7, <1>8, WorkerStep

(* A thread that is not idle belongs to a party that has begun. *)
LEMMA Awake ==
  ASSUME IInv, NEW p \in Party, NEW t \in Threads, th[p][t].st # "none"
  PROVE  Begun(p) /\ main[SERVER] \notin ServerBase
<1>1. Begun(p) /\ Together
  BY DEF IInv, KeyInv, BaseInv, Asleep
<1>2. p = SERVER \/ p = CLIENT
  BY Parties
<1> QED
  BY <1>1, <1>2 DEF Begun, Together, ServerBase, ClientBase

(* a round of the client, *)
LEMMA ClientRoundStep ==
  ASSUME IInv, NEW t \in Threads, ClientRound(t)
  PROVE  IInv'
<1> DEFINE o == th[CLIENT][t].ot_id
           columns == ProcessedOTs(t, o)
           n == OtLen(t, o)
<1>1. /\ th[CLIENT][t].st = "ready" /\ o < OtLim(t)
      /\ UNCHANGED <<inst, main, prfKey, keySeeds, keySeedMtx, idx, running, hashBuf, out, chan>>
  BY DEF ClientRound, UnchangedMain
<1>2. /\ inst \in Instances /\ Asleep /\ Channels /\ ThreadOK(CLIENT, t, th[CLIENT][t]) /\ CLIENT \in Party
  BY Parties DEF IInv, KeyInv, BaseInv, Together, ThreadsOK
<1>3. o \in Nat
  BY <1>1, <1>2 DEF ThreadOK, Point
<1>4. Changed(CLIENT, t, "hash", o, ClientJobs(o, columns, n), 1, MatrixSnd(o, columns, n))
  BY <1>1, <1>2, ClientRoundIs, BecomesChanged
<1>5. /\ columns \in Nat /\ n \in Nat /\ n <= OtLim(t) - o /\ OtLim(t) <= nOTs /\ OtLim(t) \in Nat
      /\ NextOtId(t, o) = o + n /\ nOTs \in Nat
  BY <1>1, <1>2, <1>3, Round, Part, Shares DEF NextOtId
<1> DEFINE jobs == ClientJobs(o, columns, n)
           snd == MatrixSnd(o, columns, n)
<1>6. JobsOK(CLIENT, jobs, o, NextOtId(t, o))
  <2>1. o + n <= nOTs
    <3> HIDE DEF o, n
    <3> QED
      BY <1>3, <1>5
  <2> HIDE DEF o, n, columns
  <2>2. JobsOK(CLIENT, ClientJobs(o, columns, n), o, o + n)
    BY <1>2, <1>3, <1>5, <2>1, ClientJobsOK
  <2> QED
    BY <1>5, <2>2
<1>7. DOMAIN snd = 0 .. CodeWordBits * columns - 1
  BY DEF MatrixSnd
<1>8. Channels'
  BY <1>1, <1>2, ChannelsStay
<1> HIDE DEF jobs, snd, n
<1>9. Changed(CLIENT, t, "hash", o, jobs, 1, snd)
  BY <1>4 DEF jobs, snd, n
<1> QED
  BY <1>1, <1>2, <1>6, <1>7, <1>8, <1>9, RoundStep

(* and a round of the server. *)
LEMMA ServerRoundStep ==
  ASSUME IInv, NEW t \in Threads, ServerRound(t)
  PROVE  IInv'
<1> DEFINE o == th[SERVER][t].ot_id
           columns == ProcessedOTs(t, o)
           n == OtLen(t, o)
           need == Awaited(t, o)
           s == chan[SERVER][t]
           jobs == ServerJobs(SubSeq(s, 1, need), o, columns, n)
           snd == th[SERVER][t].snd
<1>1. /\ th[SERVER][t].st = "ready" /\ o < OtLim(t) /\ Len(s) >= need
      /\ UNCHANGED <<inst, main, prfKey, keySeeds, keySeedMtx, idx, running, hashBuf, out>>
      /\ chan' = Put(chan, SERVER, t, SubSeq(s, need + 1, Len(s)))
  BY Zenon DEF ServerRound, UnchangedMain, Put
<1>2. /\ inst \in Instances /\ Asleep /\ Channels /\ ThreadOK(SERVER, t, th[SERVER][t])
      /\ SERVER \in Party /\ CLIENT \in Party /\ SERVER # CLIENT
  BY Parties DEF IInv, KeyInv, BaseInv, Together, ThreadsOK
<1>3. o \in Nat
  BY <1>1, <1>2 DEF ThreadOK, Point
<1>4. Changed(SERVER, t, "hash", o, jobs, 1, snd)
  BY <1>1, <1>2, ServerRoundIs, BecomesChanged
<1>5. /\ columns \in Nat /\ n \in Nat /\ n <= OtLim(t) - o /\ OtLim(t) <= nOTs /\ OtLim(t) \in Nat
      /\ NextOtId(t, o) = o + n /\ nOTs \in Nat
  BY <1>1, <1>2, <1>3, Round, Part, Shares DEF NextOtId
<1>6. JobsOK(SERVER, jobs, o, NextOtId(t, o))
  <2>1. o + n <= nOTs
    <3> HIDE DEF o, n
    <3> QED
      BY <1>3, <1>5
  <2> DEFINE rcv == SubSeq(s, 1, need)
  <2> HIDE DEF o, n, columns, rcv
  <2>2. JobsOK(SERVER, ServerJobs(rcv, o, columns, n), o, o + n)
    BY <1>2, <1>3, <1>5, <2>1, ServerJobsOK
  <2> QED
    BY <1>5, <2>2 DEF rcv
<1>7. need \in Nat
  <2>1. need = CodeWordBits * columns
    BY DEF Awaited
  <2> HIDE DEF need, columns
  <2> QED
    BY <1>5, <2>1, GroupOK
<1>8. IsSeq(SubSeq(s, need + 1, Len(s)))
  <2>1. IsSeq(s)
    BY <1>2 DEF Channels
  <2>2. need <= Len(s)
    <3>1. Len(s) \in Nat
      BY <2>1, SeqFacts
    <3> QED
      BY <1>1, <1>7, <3>1
  <2> HIDE DEF s, need
  <2> QED
    BY <1>7, <2>1, <2>2, TakenOff
<1>9. Channels' /\ chan'[CLIENT] = chan[CLIENT]
  <2>1. inst' = inst
    BY <1>1
  <2> DEFINE rest == SubSeq(s, need + 1, Len(s))
  <2>2. chan' = Put(chan, SERVER, t, rest) /\ IsSeq(rest)
    BY <1>1, <1>8
  <2> HIDE DEF rest
  <2> QED
    BY <1>2, <2>1, <2>2, ChannelPlaced
<1>10. main[SERVER] \notin ServerBase
  BY <1>1, <1>2, Awake
<1> HIDE DEF jobs, snd
<1> QED
  BY <1>1, <1>2, <1>4, <1>6, <1>9, <1>10, RoundStep

(* Hashing into the shared buffer keeps the invariant. *)
LEMMA HashIntoStep ==
  ASSUME IInv, NEW p \in Party, NEW t \in Threads, HashInto(p, t)
  PROVE  IInv'
<1> DEFINE s == th[p][t]
           job == s.jobs[s.pos]
<1>1. /\ s.st = "hash" /\ s.pos <= Len(s.jobs) /\ hashBuf' = [hashBuf EXCEPT ![p] = Hashed(job)]
      /\ UNCHANGED <<inst, main, prfKey, keySeeds, keySeedMtx, idx, chan, running, out>>
  BY DEF HashInto, UnchangedMain
<1>2. /\ Asleep /\ Channels /\ MainOK /\ ThreadsOK /\ MasksOK /\ ThreadOK(p, t, s)
  BY DEF IInv, KeyInv, BaseInv, ThreadsOK
<1>3. Changed(p, t, "copy", s.ot_id, s.jobs, s.pos, s.snd)
  BY <1>1, <1>2, HashIntoIs, BecomesChanged
<1> HIDE DEF s
<1>4. PICK r : r = th'[p][t]
  OBVIOUS
<1>5. r.st = "copy" /\ r.ot_id = s.ot_id /\ r.jobs = s.jobs /\ r.pos = s.pos /\ r.snd = s.snd
  BY <1>3, <1>4 DEF Changed
<1>6. ThreadOK(p, t, r)
  BY <1>1, <1>2, <1>5 DEF ThreadOK, Active
<1>7. WorkerMoves(p, t)
  BY <1>1, <1>3, <1>4, <1>5 DEF WorkerMoves, Changed, s
<1>8. DOMAIN hashBuf' = Party /\ hashBuf'[p] # <<>>
      /\ \A q \in Party : hashBuf[q] # <<>> => hashBuf'[q] # <<>>
  <2>1. Hashed(job) # <<>>
    BY DEF Hashed
  <2>2. DOMAIN hashBuf = Party
    BY <1>2 DEF MasksOK
  <2> HIDE DEF job
  <2> QED
    BY <1>1, <2>1, <2>2
<1>9. MasksOK'
  <2>1. OutGrows
    BY <1>1, <1>2, Unraced
  <2>2. Written(p, MyStartPos(t), r.ot_id)'
    <3>1. Written(p, MyStartPos(t), r.ot_id)
      BY <1>1, <1>2, <1>5 DEF MasksOK, s
    <3>2. MyStartPos(t)' = MyStartPos(t)
      BY <1>1, StaticParts
    <3>3. \A a, b : Written(p, a, b) => Written(p, a, b)'
      BY <1>1, <2>1, StillWritten
    <3> QED
      BY <3>1, <3>2, <3>3
  <2>3. JobsWritten(p, r.jobs, r.pos)'
    <3>1. JobsWritten(p, r.jobs, r.pos)
      BY <1>1, <1>2, <1>5 DEF MasksOK, Active, s
    <3> QED
      BY <1>1, <3>1 DEF JobsWritten
  <2>4. \A q \in Party, u \in Threads : (q # p \/ u # t) => th'[q][u] = th[q][u]
    BY <1>3 DEF Changed
  <2>5. inst' = inst
    BY <1>1
  <2> QED
    BY <1>2, <1>4, <1>8, <2>1, <2>2, <2>3, <2>4, <2>5, WorkerMasks
<1>10. Channels'
  BY <1>1, <1>2, ChannelsStay
<1>11. /\ running' \in [Party -> [Threads -> BOOLEAN]]
       /\ \A q \in Party, u \in Threads : running'[q][u] = running[q][u] \/ th'[q][u].st = "ended"
  BY <1>1, <1>2, RunningStays
<1>12. ThreadOK(p, t, th'[p][t])
  BY <1>4, <1>6
<1> QED
  BY <1>1, <1>7, <1>9, <1>10, <1>11, <1>12, WorkerStep

(* Copying a mask out of it keeps the invariant: the mask is written, raced or not. *)
LEMMA CopyOutStep ==
  ASSUME IInv, NEW p \in Party, NEW t \in Threads, CopyOut(p, t)
  PROVE  IInv'
<1> DEFINE s == th[p][t]
           cell == s.jobs[s.pos].cell
<1>1. /\ s.st = "copy"
      /\ out' = [out EXCEPT ![p] = IF cell = NoCell THEN out[p]
                                   ELSE [out[p] EXCEPT ![cell] = hashBuf[p]]]
      /\ UNCHANGED <<inst, main, prfKey, keySeeds, keySeedMtx, idx, chan, running, hashBuf>>
  BY DEF CopyOut, UnchangedMain
<1>2. /\ Asleep /\ Channels /\ MainOK /\ ThreadsOK /\ MasksOK /\ ThreadOK(p, t, s)
  BY DEF IInv, KeyInv, BaseInv, ThreadsOK
<1>3. Changed(p, t, "hash", s.ot_id, s.jobs, s.pos + 1, s.snd)
  BY <1>1, <1>2, CopyOutIs, BecomesChanged
<1>4. /\ JobsOK(p, s.jobs, s.ot_id, NextOtId(t, s.ot_id)) /\ s.pos \in 1 .. Len(s.jobs)
      /\ Len(s.jobs) \in Nat
  <2>1. /\ JobsOK(p, s.jobs, s.ot_id, NextOtId(t, s.ot_id))
        /\ s.pos \in 1 .. Len(s.jobs) + 1 /\ s.pos <= Len(s.jobs)
    BY <1>1, <1>2 DEF ThreadOK, Active
  <2>2. Len(s.jobs) \in Nat
    BY <2>1, SeqFacts DEF JobsOK
  <2> QED
    BY <2>1, <2>2
<1>5. /\ hashBuf[p] # <<>> /\ DOMAIN out = Party /\ DOMAIN out[p] = 0 .. NMasks(p) - 1
      /\ Written(p, MyStartPos(t), s.ot_id) /\ JobsWritten(p, s.jobs, s.pos)
  BY <1>1, <1>2 DEF MasksOK, Active
<1>6. cell \in DOMAIN out[p] \cup {NoCell}
  BY <1>4, <1>5 DEF JobsOK
<1>7. OutGrows /\ (cell # NoCell => out'[p][cell] # <<>>)
  <2> HIDE DEF cell
  <2>1. \A q \in Party : q # p => out'[q] = out[q]
    BY <1>1, <1>5
  <2>2. out'[p] = IF cell = NoCell THEN out[p] ELSE [out[p] EXCEPT ![cell] = hashBuf[p]]
    BY <1>1, <1>5
  <2>3. DOMAIN out' = Party
    BY <1>1, <1>5
  <2>4. DOMAIN out'[p] = DOMAIN out[p]
    BY <2>2
  <2>5. \A e \in DOMAIN out[p] : out[p][e] # <<>> => out'[p][e] # <<>>
    BY <1>5, <2>2
  <2>6. cell # NoCell => out'[p][cell] # <<>>
    BY <1>5, <1>6, <2>2
  <2> QED
    BY <2>1, <2>3, <2>4, <2>5, <2>6 DEF OutGrows
<1> HIDE DEF s
<1>8. PICK r : r = th'[p][t]
  OBVIOUS
<1>9. r.st = "hash" /\ r.ot_id = s.ot_id /\ r.jobs = s.jobs /\ r.pos = s.pos + 1 /\ r.snd = s.snd
  BY <1>3, <1>8 DEF Changed
<1>10. ThreadOK(p, t, r)
  <2>1. r.pos \in 1 .. Len(r.jobs) + 1
    BY <1>4, <1>9
  <2> QED
    BY <1>1, <1>2, <1>9, <2>1 DEF ThreadOK, Active
<1>11. WorkerMoves(p, t)
  BY <1>1, <1>3, <1>8, <1>9 DEF WorkerMoves, Changed, s
<1>12. MasksOK'
  <2>1. inst' = inst
    BY <1>1
  <2>2. Written(p, MyStartPos(t), r.ot_id)'
    <3>1. Written(p, MyStartPos(t), r.ot_id)
      BY <1>5, <1>9
    <3>2. MyStartPos(t)' = MyStartPos(t)
      BY <2>1, StaticParts
    <3>3. \A a, b : Written(p, a, b) => Written(p, a, b)'
      BY <1>7, <2>1, StillWritten
    <3> QED
      BY <3>1, <3>2, <3>3
  <2>3. JobsWritten(p, r.jobs, r.pos)'
    <3>1. \A n \in 1 .. s.pos - 1 : s.jobs[n].cell # NoCell => out'[p][s.jobs[n].cell] # <<>>
      <4> DEFINE jobs == s.jobs
                 pos == s.pos
                 a == s.ot_id
                 b == NextOtId(t, a)
      <4>1. PICK j, k, u, v : j = jobs /\ k = pos /\ u = a /\ v = b
        OBVIOUS
      <4>2. JobsOK(p, j, u, v) /\ k \in 1 .. Len(j) + 1 /\ JobsWritten(p, j, k)
        BY <1>4, <1>5, <4>1
      <4>3. JobsWritten(p, j, k)'
        BY <1>2, <1>7, <2>1, <4>2, JobsStillWritten
      <4>4. \A n \in 1 .. k - 1 : j[n].cell # NoCell => out'[p][j[n].cell] # <<>>
        BY <4>3 DEF JobsWritten, NoCell
      <4> QED
        BY <4>1, <4>4
    <3>2. cell = s.jobs[s.pos].cell
      BY DEF s
    <3> HIDE DEF cell
    <3>3. \A n \in 1 .. r.pos - 1 : r.jobs[n].cell # NoCell => out'[p][r.jobs[n].cell] # <<>>
      BY <1>4, <1>7, <1>9, <3>1, <3>2
    <3> QED
      BY <3>3 DEF JobsWritten, NoCell
  <2>4. \A q \in Party, u \in Threads : (q # p \/ u # t) => th'[q][u] = th[q][u]
    BY <1>3 DEF Changed
  <2>5. DOMAIN hashBuf' = Party /\ \A q \in Party : hashBuf[q] # <<>> => hashBuf'[q] # <<>>
    BY <1>1, <1>2 DEF MasksOK
  <2>6. r.st # "copy"
    BY <1>9
  <2> QED
    BY <1>2, <1>7, <1>8, <2>1, <2>2, <2>3, <2>4, <2>5, <2>6, WorkerMasks
<1>13. Channels'
  BY <1>1, <1>2, ChannelsStay
<1>14. /\ running' \in [Party -> [Threads -> BOOLEAN]]
       /\ \A q \in Party, u \in Threads : running'[q][u] = running[q][u] \/ th'[q][u].st = "ended"
  BY <1>1, <1>2, RunningStays
<1>15. ThreadOK(p, t, th'[p][t])
  BY <1>8, <1>10
<1> QED
  BY <1>1, <1>11, <1>12, <1>13, <1>14, <1>15, WorkerStep

(* A matrix as the list that is sent. *)
LEMMA Enumerated ==
  ASSUME NEW m \in Nat, NEW s, DOMAIN s = 0 .. m - 1
  PROVE  LET r == [n \in 1 .. Cardinality(DOMAIN s) |-> s[n - 1]] IN IsSeq(r) /\ Len(r) = m
<1> DEFINE a == 0
           b == m - 1
           r == [n \in 1 .. Cardinality(DOMAIN s) |-> s[n - 1]]
<1>1. a \in Int /\ b \in Int
  OBVIOUS
<1>2. IF a > b THEN m = 0 ELSE m = b - a + 1
  OBVIOUS
<1>3. Cardinality(a .. b) = m
  <2> HIDE DEF a, b
  <2> QED
    BY <1>1, <1>2, FS_Interval
<1>4. Cardinality(DOMAIN s) = m
  BY <1>3
<1>5. DOMAIN r = 1 .. m
  BY <1>4
<1>6. r = [i \in 1 .. m |-> r[i]]
  <2>1. r = [i \in DOMAIN r |-> r[i]]
    OBVIOUS
  <2> HIDE DEF r
  <2> QED
    BY <1>5, <2>1
<1>7. IsSeq(r) /\ Len(r) = m
  <2> HIDE DEF r
  <2> QED
    BY <1>5, <1>6, ListIsSeq
<1> QED
  BY <1>7

(* All masks of a round are written when its jobs are over. *)
LEMMA RoundWritten ==
  ASSUME inst \in Instances, NEW p \in Party, NEW t \in Threads, NEW jobs, NEW o \in Nat, o < OtLim(t),
         DOMAIN out[p] = 0 .. NMasks(p) - 1,
         JobsOK(p, jobs, o, NextOtId(t, o)),
         Written(p, MyStartPos(t), o), MyStartPos(t) <= o,
         JobsWritten(p, jobs, Len(jobs) + 1)
  PROVE  Written(p, MyStartPos(t), NextOtId(t, o))
<1>1. NextOtId(t, o) \in Nat /\ o < NextOtId(t, o) /\ MyStartPos(t) \in Nat
  BY Round, Part
<1>2. SUFFICES ASSUME NEW i \in MyStartPos(t) .. NextOtId(t, o) - 1, NEW e \in DOMAIN out[p],
                      StartingPos(p)[i] <= e, e < StartingPos(p)[i + 1]
               PROVE  out[p][e] # <<>>
  BY DEF Written
<1> DEFINE a == MyStartPos(t)
           b == NextOtId(t, o)
<1>3. CASE i < o
  <2>1. i \in a .. o - 1
    <3> HIDE DEF a, b
    <3> QED
      BY <1>1, <1>2, <1>3 DEF a, b
  <2> QED
    BY <1>2, <2>1 DEF Written
<1>4. CASE ~ (i < o)
  <2>1. i \in o .. b - 1
    BY <1>1, <1>2, <1>4
  <2>2. PICK n \in 1 .. Len(jobs) : jobs[n].cell = e
    BY <1>2, <2>1 DEF JobsOK, Covers
  <2>3. Len(jobs) \in Nat
    BY SeqFacts DEF JobsOK
  <2>4. n \in 1 .. Len(jobs) + 1 - 1
    BY <2>2, <2>3
  <2>5. e # NoCell
    <3>1. NMasks(p) \in Nat
      BY Places
    <3> QED
      BY <1>2, <3>1 DEF NoCell
  <2> QED
    BY <2>2, <2>4, <2>5 DEF JobsWritten
<1> QED
  BY <1>3, <1>4

(* The end of a round keeps the invariant: all its masks are written. *)
LEMMA EndRoundStep ==
  ASSUME IInv, NEW p \in Party, NEW t \in Threads, EndRound(p, t)
  PROVE  IInv'
<1> DEFINE s == th[p][t]
           o == s.ot_id
           jobs == s.jobs
           snd == s.snd
           list == [n \in 1 .. Cardinality(DOMAIN snd) |-> snd[n - 1]]
<1>1. /\ s.st = "hash" /\ s.pos > Len(jobs)
      /\ UNCHANGED <<inst, main, prfKey, keySeeds, keySeedMtx, idx, running, hashBuf, out>>
      /\ chan' = IF p = CLIENT THEN Put(chan, SERVER, t, chan[SERVER][t] \o list) ELSE chan
  BY Zenon DEF EndRound, UnchangedMain, Put
<1>2. /\ inst \in Instances /\ Asleep /\ Channels /\ ThreadOK(p, t, s)
      /\ MainOK /\ ThreadsOK /\ MasksOK
      /\ SERVER \in Party /\ CLIENT \in Party /\ SERVER # CLIENT
  BY Parties DEF IInv, KeyInv, BaseInv, Together, ThreadsOK
<1>3. /\ Point(t, o) /\ o \in Nat /\ MyStartPos(t) <= o /\ o < OtLim(t)
      /\ JobsOK(p, jobs, o, NextOtId(t, o)) /\ s.pos \in 1 .. Len(jobs) + 1
      /\ (p = CLIENT => DOMAIN snd = 0 .. CodeWordBits * ProcessedOTs(t, o) - 1)
  BY <1>1, <1>2 DEF ThreadOK, Active, Point
<1>4. s.pos = Len(jobs) + 1
  <2>1. Len(jobs) \in Nat
    BY <1>3, SeqFacts DEF JobsOK
  <2> QED
    BY <1>1, <1>3, <2>1
<1>5. /\ DOMAIN out[p] = 0 .. NMasks(p) - 1
      /\ Written(p, MyStartPos(t), o) /\ JobsWritten(p, jobs, s.pos)
  BY <1>1, <1>2 DEF MasksOK, Active
<1>6. Written(p, MyStartPos(t), NextOtId(t, o))
  <2> HIDE DEF o, jobs
  <2> QED
    BY <1>2, <1>3, <1>4, <1>5, RoundWritten
<1>7. Changed(p, t, "ready", NextOtId(t, o), Idle.jobs, Idle.pos, Idle.snd)
  BY <1>1, <1>2, EndRoundIs, BecomesChanged
<1>8. Channels' /\ chan'[CLIENT] = chan[CLIENT]
  <2>1. CASE p # CLIENT
    <3>1. chan' = chan
      BY <1>1, <2>1
    <3> QED
      BY <1>1, <1>2, <3>1, ChannelsStay
  <2>2. CASE p = CLIENT
    <3> DEFINE r == chan[SERVER][t] \o list
               m == CodeWordBits * ProcessedOTs(t, o)
    <3>1. m \in Nat
      <4>1. ProcessedOTs(t, o) \in Nat /\ CodeWordBits \in Nat
        <5> HIDE DEF o
        <5> QED
          BY <1>2, <1>3, Round, Sizes
      <4> HIDE DEF o
      <4> QED
        BY <4>1
    <3>2. DOMAIN snd = 0 .. m - 1
      BY <1>3, <2>2
    <3>3. IsSeq(list)
      <4> HIDE DEF snd, m
      <4> QED
        BY <3>1, <3>2, Enumerated
    <3>4. IsSeq(chan[SERVER][t])
      BY <1>2 DEF Channels
    <3> HIDE DEF list
    <3>5. IsSeq(r)
      BY <3>3, <3>4, Joined
    <3>6. chan' = Put(chan, SERVER, t, r) /\ inst' = inst
      BY <1>1, <2>2 DEF list
    <3> HIDE DEF r
    <3> QED
      BY <1>2, <3>5, <3>6, ChannelPlaced
  <2> QED
    BY <2>1, <2>2
<1>9. main[SERVER] \notin ServerBase
  BY <1>1, <1>2, Awake
<1>10. PICK r, v : r = th'[p][t] /\ v = NextOtId(t, o)
  OBVIOUS
<1>11. r.st = "ready" /\ r.ot_id = v /\ r.jobs = Idle.jobs
  BY <1>7, <1>10 DEF Changed
<1>12. ThreadOK(p, t, r)
  <2>1. Point(t, v)
    <3> HIDE DEF o
    <3> QED
      BY <1>2, <1>3, <1>10, PointNext
  <2>2. DOMAIN r.jobs = {}
    BY <1>11 DEF Idle
  <2> QED
    BY <1>11, <2>1, <2>2 DEF ThreadOK, Active
<1>13. WorkerMoves(p, t)
  BY <1>1, <1>7, <1>10, <1>11 DEF WorkerMoves, Changed
<1>14. MasksOK'
  <2>1. OutGrows
    BY <1>1, <1>2, Unraced
  <2>2. Written(p, MyStartPos(t), r.ot_id)'
    <3>1. Written(p, MyStartPos(t), r.ot_id)
      BY <1>6, <1>10, <1>11
    <3>2. MyStartPos(t)' = MyStartPos(t) /\ inst' = inst
      BY <1>1, StaticParts
    <3>3. \A a, b : Written(p, a, b) => Written(p, a, b)'
      BY <2>1, <3>2, StillWritten
    <3> QED
      BY <3>1, <3>2, <3>3
  <2>3. ~ Active(r) /\ r.st # "copy"
    BY <1>11 DEF Active
  <2>4. \A q \in Party, u \in Threads : (q # p \/ u # t) => th'[q][u] = th[q][u]
    BY <1>7 DEF Changed
  <2>5. DOMAIN hashBuf' = Party /\ \A q \in Party : hashBuf[q] # <<>> => hashBuf'[q] # <<>>
    BY <1>1, <1>2 DEF MasksOK
  <2>6. inst' = inst
    BY <1>1
  <2> QED
    BY <1>2, <1>10, <2>1, <2>2, <2>3, <2>4, <2>5, <2>6, WorkerMasks
<1>15. /\ running' \in [Party -> [Threads -> BOOLEAN]]
       /\ \A q \in Party, u \in Threads : running'[q][u] = running[q][u] \/ th'[q][u].st = "ended"
  BY <1>1, <1>2, RunningStays
<1>16. ThreadOK(p, t, th'[p][t])
  BY <1>10, <1>12
<1> QED
  BY <1>8, <1>9, <1>13, <1>14, <1>15, <1>16, WorkerStep

(* The end of a thread keeps the invariant: it has reached its limit. *)
LEMMA EndThreadStep ==
  ASSUME IInv, NEW p \in Party, NEW t \in Threads, EndThread(p, t)
  PROVE  IInv'
<1> DEFINE s == th[p][t]
<1>1. /\ s.st = "ready" /\ s.ot_id >= OtLim(t)
      /\ UNCHANGED <<inst, main, prfKey, keySeeds, keySeedMtx, idx, hashBuf, out, chan>>
      /\ running' = [running EXCEPT ![p][t] = FALSE]
  BY DEF EndThread, UnchangedMain
<1>2. /\ inst \in Instances /\ Asleep /\ Channels /\ ThreadOK(p, t, s)
      /\ MainOK /\ ThreadsOK /\ MasksOK
  BY DEF IInv, KeyInv, BaseInv, Together, ThreadsOK
<1>3. Changed(p, t, "ended", s.ot_id, s.jobs, s.pos, s.snd)
  BY <1>1, <1>2, EndThreadIs, BecomesChanged
<1>4. Written(p, MyStartPos(t), s.ot_id)
  BY <1>1, <1>2 DEF MasksOK
<1>5. PICK r : r = th'[p][t]
  OBVIOUS
<1>6. r.st = "ended" /\ r.ot_id = s.ot_id /\ r.jobs = s.jobs
  BY <1>3, <1>5 DEF Changed
<1>7. ThreadOK(p, t, r)
  BY <1>1, <1>2, <1>6 DEF ThreadOK, Active
<1>8. WorkerMoves(p, t)
  BY <1>1, <1>3, <1>5, <1>6 DEF WorkerMoves, Changed
<1>9. MasksOK'
  <2>1. OutGrows
    BY <1>1, <1>2, Unraced
  <2>2. Written(p, MyStartPos(t), r.ot_id)'
    <3>1. Written(p, MyStartPos(t), r.ot_id)
      BY <1>4, <1>6
    <3>2. MyStartPos(t)' = MyStartPos(t) /\ inst' = inst
      BY <1>1, StaticParts
    <3>3. \A a, b : Written(p, a, b) => Written(p, a, b)'
      BY <2>1, <3>2, StillWritten
    <3> QED
      BY <3>1, <3>2, <3>3
  <2>3. ~ Active(r) /\ r.st # "copy"
    BY <1>6 DEF Active
  <2>4. \A q \in Party, u \in Threads : (q # p \/ u # t) => th'[q][u] = th[q][u]
    BY <1>3 DEF Changed
  <2>5. DOMAIN hashBuf' = Party /\ \A q \in Party : hashBuf[q] # <<>> => hashBuf'[q] # <<>>
    BY <1>1, <1>2 DEF MasksOK
  <2>6. inst' = inst
    BY <1>1
  <2> QED
    BY <1>2, <1>5, <2>1, <2>2, <2>3, <2>4, <2>5, <2>6, WorkerMasks
<1>10. /\ running' \in [Party -> [Threads -> BOOLEAN]]
       /\ \A q \in Party, u \in Threads : running'[q][u] = running[q][u] \/ th'[q][u].st = "ended"
  <2>1. running \in [Party -> [Threads -> BOOLEAN]]
    BY <1>2 DEF MainOK
  <2>2. running' \in [Party -> [Threads -> BOOLEAN]]
    BY <1>1, <2>1
  <2>3. \A q \in Party, u \in Threads : (q # p \/ u # t) => running'[q][u] = running[q][u]
    BY <1>1, <2>1
  <2>4. th'[p][t].st = "ended"
    BY <1>5, <1>6
  <2> QED
    BY <2>2, <2>3, <2>4
<1>11. Channels'
  BY <1>1, <1>2, ChannelsStay
<1>12. ThreadOK(p, t, th'[p][t])
  BY <1>5, <1>7
<1> QED
  BY <1>1, <1>8, <1>9, <1>10, <1>11, <1>12, WorkerStep

(* What the main thread of a party that has not moved knows of its threads still holds. *)
MainPartOK(p) ==
  /\ main[p] \in {"mark", "wait"} \/ (main[p] = "create" /\ idx[p] > 0) => nOTs > 0
  /\ \A t \in Threads :
       /\ th[p][t].st # "none" <=> Created(p, t)
       /\ Marked(p, t) /\ ~ running[p][t] => th[p][t].st = "ended"
       /\ HasJoined(p, t) => th[p][t].st = "ended"

(* What is known of the main threads, for each of them. *)
LEMMA MainParts ==
  MainOK <=> running \in [Party -> [Threads -> BOOLEAN]] /\ \A p \in Party : MainPartOK(p)
BY DEF MainOK, MainPartOK

(* It stays for a main thread whose state and threads stay. *)
LEMMA MainPartStays ==
  ASSUME inst' = inst, NEW q \in Party, MainPartOK(q), main'[q] = main[q], idx'[q] = idx[q],
         \A u \in Threads : th'[q][u] = th[q][u] /\ running'[q][u] = running[q][u]
  PROVE  MainPartOK(q)'
<1>1. Threads' = Threads /\ nOTs' = nOTs
  BY Static, StaticParts
<1>2. \A u : /\ Created(q, u)' = Created(q, u) /\ Marked(q, u)' = Marked(q, u)
             /\ HasJoined(q, u)' = HasJoined(q, u)
  BY <1>1 DEF Created, Marked, HasJoined
<1> QED
  BY <1>1, <1>2 DEF MainPartOK

(* The masks and threads when a main thread has moved. *)
LEMMA StillMasks ==
  ASSUME inst' = inst, ThreadsOK, MasksOK, UNCHANGED <<th, out, hashBuf>>
  PROVE  ThreadsOK' /\ MasksOK'
<1>1. ThreadsOK'
  <2>1. \A p \in Party, t \in Threads : ThreadOK(p, t, th'[p][t])
    BY DEF ThreadsOK
  <2> QED
    BY <2>1, ThreadsNext
<1>2. Threads' = Threads
  BY Static
<1>3. \A p : NMasks(p)' = NMasks(p)
  BY StaticPlaces
<1>4. OutGrows
  BY Unraced
<1>5. ASSUME NEW p \in Party, NEW t \in Threads, NEW s, s = th'[p][t]
      PROVE  /\ s.st = "copy" => hashBuf'[p] # <<>>
             /\ s.st # "none" => Written(p, MyStartPos(t), s.ot_id)'
             /\ Active(s) => JobsWritten(p, s.jobs, s.pos)'
  <2>1. /\ s.st = "copy" => hashBuf[p] # <<>>
        /\ s.st # "none" => Written(p, MyStartPos(t), s.ot_id)
        /\ Active(s) => JobsWritten(p, s.jobs, s.pos)
    BY <1>5 DEF MasksOK
  <2>2. MyStartPos(t)' = MyStartPos(t) /\ \A a, b : Written(p, a, b) => Written(p, a, b)'
    BY <1>4, StaticParts, StillWritten
  <2>3. JobsWritten(p, s.jobs, s.pos) => JobsWritten(p, s.jobs, s.pos)'
    BY DEF JobsWritten
  <2> QED
    BY <2>1, <2>2, <2>3
<1> QED
  BY <1>1, <1>2, <1>3, <1>5, Zenon DEF MasksOK

(* Creating a thread keeps the invariant. *)
LEMMA CreateThreadStep ==
  ASSUME IInv, NEW p \in Party, CreateThread(p)
  PROVE  IInv'
<1> DEFINE t == idx[p]
           s == th[p][t]
<1>1. /\ main[p] = "create" /\ nOTs > 0
      /\ UNCHANGED <<inst, idx, running, hashBuf, out>>
      /\ main' = [main EXCEPT ![p] = "mark"]
  BY DEF CreateThread
<1>2. /\ inst \in Instances /\ Asleep /\ MainOK /\ ThreadsOK /\ MasksOK /\ InRange /\ KeyInv
      /\ main \in [Party -> States]
  BY DEF IInv, KeyInv, BaseInv, Together
<1>3. t \in Threads /\ idx[p] \in Nat
  <2>1. idx[p] \in Nat /\ idx[p] < inst.threads /\ inst.threads \in Nat
    BY <1>1, <1>2, Sizes DEF InRange
  <2> QED
    BY <2>1 DEF Threads
<1>4. Changed(p, t, "ready", MyStartPos(t), s.jobs, s.pos, s.snd)
  BY <1>1, <1>2, <1>3, CreateThreadIs, BecomesChanged
<1>5. PICK r, u : r = th'[p][u] /\ u = t
  OBVIOUS
<1>6. s.st = "none"
  <2>1. ~ Created(p, t)
    BY <1>1, <1>3 DEF Created
  <2> QED
    BY <1>2, <1>3, <2>1 DEF MainOK
<1>7. r.st = "ready" /\ r.ot_id = MyStartPos(u) /\ r.jobs = s.jobs /\ u \in Threads
  BY <1>3, <1>4, <1>5 DEF Changed
<1>8. ThreadOK(p, u, r)
  <2>1. DOMAIN r.jobs = {}
    BY <1>2, <1>3, <1>6, <1>7 DEF ThreadsOK, ThreadOK, Active
  <2>2. Point(u, r.ot_id)
    BY <1>2, <1>7, PointFirst
  <2> QED
    BY <1>7, <2>1, <2>2 DEF ThreadOK, Active
<1>9. \A q \in Party, v \in Threads : (q # p \/ v # u) => th'[q][v] = th[q][v]
  BY <1>4, <1>5 DEF Changed
<1>10. ThreadsOK'
  <2>1. \A q \in Party, v \in Threads : ThreadOK(q, v, th'[q][v])
    BY <1>2, <1>5, <1>8, <1>9 DEF ThreadsOK
  <2> QED
    BY <1>1, <2>1, ThreadsNext
<1>11. MasksOK'
  <2>1. OutGrows
    BY <1>1, <1>2, Unraced
  <2>2. Written(p, MyStartPos(u), r.ot_id)'
    <3>1. MyStartPos(u)' = MyStartPos(u) /\ MyStartPos(u) \in Nat
      BY <1>1, <1>2, <1>7, StaticParts, Part
    <3>2. MyStartPos(u)' .. r.ot_id - 1 = {}
      BY <1>7, <3>1
    <3> QED
      BY <3>2 DEF Written
  <2>3. ~ Active(r) /\ r.st # "copy"
    BY <1>7 DEF Active
  <2>4. DOMAIN hashBuf' = Party /\ \A q \in Party : hashBuf[q] # <<>> => hashBuf'[q] # <<>>
    BY <1>1, <1>2 DEF MasksOK
  <2>5. inst' = inst
    BY <1>1
  <2> QED
    BY <1>2, <1>5, <1>7, <1>9, <2>1, <2>2, <2>3, <2>4, <2>5, WorkerMasks
<1>12. MainOK'
  <2>1. Threads' = Threads /\ nOTs' = nOTs
    BY <1>1, Static, StaticParts
  <2>2. running' \in [Party -> [Threads -> BOOLEAN]]
    BY <1>1, <1>2 DEF MainOK
  <2>3. \A q \in Party : main'[q] = IF q = p THEN "mark" ELSE main[q]
    BY <1>1, <1>2
  <2>4. \A q \in Party : q # p => MainPartOK(q)'
    <3> SUFFICES ASSUME NEW q \in Party, q # p PROVE MainPartOK(q)'
      OBVIOUS
    <3>1. MainPartOK(q)
      BY <1>2, MainParts
    <3>2. \A v \in Threads : th'[q][v] = th[q][v] /\ running'[q][v] = running[q][v]
      BY <1>1, <1>9
    <3>3. main'[q] = main[q] /\ idx'[q] = idx[q] /\ inst' = inst
      BY <1>1, <2>3
    <3> QED
      BY <3>1, <3>2, <3>3, MainPartStays
  <2>5. MainPartOK(p)'
    <3>1. main'[p] = "mark" /\ idx'[p] = idx[p] /\ idx[p] = u
      BY <1>1, <1>5, <2>3
    <3>2. ASSUME NEW v \in Threads
          PROVE  /\ th'[p][v].st # "none" <=> v <= u
                 /\ v < u /\ ~ running[p][v] => th'[p][v].st = "ended"
      <4>1. v \in Nat /\ u \in Nat
        BY <1>2, <1>3, <1>5, Sizes DEF Threads
      <4>2. th[p][v].st # "none" <=> v < u
        BY <1>1, <1>2, <1>5 DEF MainOK, Created
      <4>3. v < u /\ ~ running[p][v] => th[p][v].st = "ended"
        BY <1>1, <1>2, <1>5 DEF MainOK, Marked
      <4>4. CASE v = u
        BY <1>5, <1>7, <4>1, <4>4
      <4>5. CASE v # u
        <5>1. th'[p][v] = th[p][v]
          BY <1>9, <4>5
        <5> QED
          BY <4>1, <4>2, <4>3, <4>5, <5>1
      <4> QED
        BY <4>4, <4>5
    <3>3. \A v : /\ Created(p, v)' <=> v <= u
                 /\ Marked(p, v)' <=> v < u
                 /\ ~ HasJoined(p, v)'
      BY <3>1 DEF Created, Marked, HasJoined
    <3> QED
      BY <1>1, <2>1, <3>2, <3>3 DEF MainPartOK
  <2> QED
    BY <2>1, <2>2, <2>4, <2>5 DEF MainOK, MainPartOK
<1>13. KeyInv'
  BY <1>2, MainStepBase DEF MainStep
<1> QED
  BY <1>10, <1>11, <1>12, <1>13 DEF IInv

(* Setting the flag after a thread was created keeps it: if the thread is over, no later step undoes that. *)
LEMMA MarkRunningStep ==
  ASSUME IInv, NEW p \in Party, MarkRunning(p)
  PROVE  IInv'
<1> DEFINE t == idx[p]
<1>1. /\ main[p] = "mark"
      /\ UNCHANGED <<inst, th, hashBuf, out>>
      /\ running' = [running EXCEPT ![p][t] = TRUE]
      /\ IF t + 1 < inst.threads
         THEN idx' = [idx EXCEPT ![p] = t + 1] /\ main' = [main EXCEPT ![p] = "create"]
         ELSE idx' = [idx EXCEPT ![p] = 0] /\ main' = [main EXCEPT ![p] = "wait"]
  BY DEF MarkRunning
<1>2. /\ inst \in Instances /\ MainOK /\ ThreadsOK /\ MasksOK /\ InRange /\ KeyInv
      /\ main \in [Party -> States] /\ idx \in [Party -> Nat]
      /\ running \in [Party -> [Threads -> BOOLEAN]]
  BY DEF IInv, KeyInv, BaseInv, Together, InRange, MainOK
<1>3. t \in Nat /\ t < inst.threads /\ inst.threads \in Nat /\ t \in Threads
  BY <1>1, <1>2, Sizes DEF InRange, Threads
<1>4. ThreadsOK' /\ MasksOK'
  BY <1>1, <1>2, StillMasks
<1>5. nOTs > 0 /\ MainPartOK(p)
  BY <1>1, <1>2, MainParts DEF MainPartOK
<1>6. Threads' = Threads /\ nOTs' = nOTs
  BY <1>1, Static, StaticParts
<1>7. running' \in [Party -> [Threads -> BOOLEAN]]
  BY <1>1, <1>2, <1>6
<1>8. \A q \in Party : q # p => MainPartOK(q)'
  <2> SUFFICES ASSUME NEW q \in Party, q # p PROVE MainPartOK(q)'
    OBVIOUS
  <2>1. MainPartOK(q)
    BY <1>2, MainParts
  <2>2. main'[q] = main[q] /\ idx'[q] = idx[q]
    BY <1>1, <1>2
  <2>3. \A u \in Threads : th'[q][u] = th[q][u] /\ running'[q][u] = running[q][u]
    BY <1>1, <1>2
  <2> QED
    BY <1>1, <2>1, <2>2, <2>3, MainPartStays
<1>9. ASSUME NEW u \in Threads
      PROVE  /\ u \in Nat /\ u < inst.threads
             /\ th'[p][u].st # "none" <=> u <= t
             /\ u <= t /\ ~ running'[p][u] => th'[p][u].st = "ended"
  <2>1. u \in Nat /\ u < inst.threads
    BY <1>3 DEF Threads
  <2>2. th'[p][u].st # "none" <=> u <= t
    BY <1>1, <1>5 DEF MainPartOK, Created
  <2>3. u < t /\ ~ running[p][u] => th'[p][u].st = "ended"
    BY <1>1, <1>5 DEF MainPartOK, Marked
  <2>4. running'[p][u] = IF u = t THEN TRUE ELSE running[p][u]
    BY <1>1, <1>2, <1>3
  <2> QED
    BY <1>3, <2>1, <2>2, <2>3, <2>4
<1>10. MainPartOK(p)'
  <2>1. CASE t + 1 < inst.threads
    <3>1. main'[p] = "create" /\ idx'[p] = t + 1
      BY <1>1, <1>2, <2>1
    <3>2. \A u : /\ Created(p, u)' <=> u < t + 1
                 /\ Marked(p, u)' <=> u < t + 1
                 /\ ~ HasJoined(p, u)'
      BY <3>1 DEF Created, Marked, HasJoined
    <3>3. \A u \in Threads : u < t + 1 <=> u <= t
      BY <1>3, <1>9
    <3> HIDE DEF t
    <3> QED
      BY <1>5, <1>6, <1>9, <3>2, <3>3 DEF MainPartOK
  <2>2. CASE ~ (t + 1 < inst.threads)
    <3>1. main'[p] = "wait" /\ idx'[p] = 0
      BY <1>1, <1>2, <2>2
    <3>2. \A u : /\ Created(p, u)' /\ Marked(p, u)' /\ (HasJoined(p, u)' <=> u < 0)
      BY <3>1 DEF Created, Marked, HasJoined
    <3>3. \A u \in Threads : u <= t /\ ~ (u < 0)
      BY <1>3, <1>9, <2>2
    <3> HIDE DEF t
    <3> QED
      BY <1>5, <1>6, <1>9, <3>2, <3>3 DEF MainPartOK
  <2> QED
    BY <2>1, <2>2
<1>11. MainOK'
  BY <1>6, <1>7, <1>8, <1>10 DEF MainOK, MainPartOK
<1>12. KeyInv'
  BY <1>2, MainStepBase DEF MainStep
<1> QED
  BY <1>4, <1>11, <1>12 DEF IInv

(* Joining a thread keeps it: Wait returns when the flag is clear, and then the thread is over. *)
LEMMA WaitThreadStep ==
  ASSUME IInv, NEW p \in Party, WaitThread(p)
  PROVE  IInv'
<1> DEFINE t == idx[p]
           x == IF t + 1 < inst.threads THEN "wait" ELSE "done"
<1>1. /\ main[p] = "wait" /\ (~ running[p][t] \/ th[p][t].st = "ended")
      /\ UNCHANGED <<inst, th, running, hashBuf, out>>
      /\ idx' = [idx EXCEPT ![p] = t + 1]
      /\ main' = [main EXCEPT ![p] = x]
  BY DEF WaitThread, MayReturn
<1>2. /\ inst \in Instances /\ MainOK /\ ThreadsOK /\ MasksOK /\ InRange /\ KeyInv
      /\ main \in [Party -> States] /\ idx \in [Party -> Nat]
      /\ running \in [Party -> [Threads -> BOOLEAN]]
  BY DEF IInv, KeyInv, BaseInv, Together, InRange, MainOK
<1>3. t \in Nat /\ t < inst.threads /\ inst.threads \in Nat /\ t \in Threads
  BY <1>1, <1>2, Sizes DEF InRange, Threads
<1>4. ThreadsOK' /\ MasksOK'
  BY <1>1, <1>2, StillMasks
<1>5. nOTs > 0 /\ MainPartOK(p)
  BY <1>1, <1>2, MainParts DEF MainPartOK
<1>6. Threads' = Threads /\ nOTs' = nOTs
  BY <1>1, Static, StaticParts
<1>7. running' \in [Party -> [Threads -> BOOLEAN]]
  BY <1>1, <1>2, <1>6
<1>8. \A q \in Party : q # p => MainPartOK(q)'
  <2> SUFFICES ASSUME NEW q \in Party, q # p PROVE MainPartOK(q)'
    OBVIOUS
  <2>1. MainPartOK(q)
    BY <1>2, MainParts
  <2>2. main'[q] = main[q] /\ idx'[q] = idx[q]
    BY <1>1, <1>2
  <2>3. \A u \in Threads : th'[q][u] = th[q][u] /\ running'[q][u] = running[q][u]
    BY <1>1
  <2> QED
    BY <1>1, <2>1, <2>2, <2>3, MainPartStays
<1>9. main'[p] = x /\ idx'[p] = t + 1
  BY <1>1, <1>2
<1>10. ASSUME NEW u \in Threads
       PROVE  /\ u \in Nat /\ u < inst.threads
              /\ th'[p][u].st # "none"
              /\ ~ running'[p][u] => th'[p][u].st = "ended"
              /\ u <= t => th'[p][u].st = "ended"
  <2>1. u \in Nat /\ u < inst.threads
    BY <1>3 DEF Threads
  <2>2. Created(p, u) /\ Marked(p, u) /\ (HasJoined(p, u) <=> u < t)
    BY <1>1 DEF Created, Marked, HasJoined
  <2>3. th[p][u].st # "none" /\ (~ running[p][u] => th[p][u].st = "ended")
        /\ (u < t => th[p][u].st = "ended")
    BY <1>5, <2>2 DEF MainPartOK
  <2>4. u = t => th[p][u].st = "ended"
    BY <1>1, <2>3
  <2> QED
    BY <1>1, <1>3, <2>1, <2>3, <2>4
<1>11. MainPartOK(p)'
  <2>1. \A u : /\ Created(p, u)' /\ Marked(p, u)'
               /\ (HasJoined(p, u)' => u < t + 1 \/ ~ (t + 1 < inst.threads))
    BY <1>5, <1>6, <1>9 DEF Created, Marked, HasJoined
  <2>2. \A u \in Threads : HasJoined(p, u)' => u <= t
    BY <1>3, <1>10, <2>1
  <2>3. main'[p] # "create"
    BY <1>9
  <2> HIDE DEF t, x
  <2> QED
    BY <1>5, <1>6, <1>10, <2>1, <2>2, <2>3 DEF MainPartOK
<1>12. MainOK'
  BY <1>6, <1>7, <1>8, <1>11 DEF MainOK, MainPartOK
<1>13. KeyInv'
  BY <1>2, MainStepBase DEF MainStep
<1> QED
  BY <1>4, <1>12, <1>13 DEF IInv

(* A run without OTs keeps it. *)
LEMMA NoOTsStep ==
  ASSUME IInv, NEW p \in Party, NoOTs(p)
  PROVE  IInv'
<1>1. /\ main[p] = "create" /\ nOTs = 0
      /\ UNCHANGED <<inst, th, running, hashBuf, out, idx>>
      /\ main' = [main EXCEPT ![p] = "done"]
  BY DEF NoOTs
<1>2. /\ inst \in Instances /\ MainOK /\ ThreadsOK /\ MasksOK /\ InRange /\ KeyInv
      /\ main \in [Party -> States] /\ idx[p] \in Nat
      /\ running \in [Party -> [Threads -> BOOLEAN]]
  BY DEF IInv, KeyInv, BaseInv, Together, InRange, MainOK
<1>3. ThreadsOK' /\ MasksOK'
  BY <1>1, <1>2, StillMasks
<1>4. MainPartOK(p) /\ idx[p] = 0
  BY <1>1, <1>2, MainParts DEF MainPartOK
<1>5. Threads' = Threads /\ nOTs' = nOTs
  BY <1>1, Static, StaticParts
<1>6. \A q \in Party : q # p => MainPartOK(q)'
  <2> SUFFICES ASSUME NEW q \in Party, q # p PROVE MainPartOK(q)'
    OBVIOUS
  <2>1. MainPartOK(q)
    BY <1>2, MainParts
  <2>2. main'[q] = main[q] /\ idx'[q] = idx[q]
    BY <1>1, <1>2
  <2>3. \A u \in Threads : th'[q][u] = th[q][u] /\ running'[q][u] = running[q][u]
    BY <1>1
  <2> QED
    BY <1>1, <2>1, <2>2, <2>3, MainPartStays
<1>7. MainPartOK(p)'
  <2>1. main'[p] = "done"
    BY <1>1, <1>2
  <2>2. \A u : ~ Created(p, u)' /\ ~ Marked(p, u)' /\ ~ HasJoined(p, u)'
    BY <1>1, <1>5, <2>1 DEF Created, Marked, HasJoined
  <2>3. \A u \in Threads : u \in Nat /\ ~ (u < 0)
    BY <1>2, Sizes DEF Threads
  <2>4. \A u \in Threads : th'[p][u].st = "none"
    BY <1>1, <1>4, <2>3 DEF MainPartOK, Created
  <2> QED
    BY <1>5, <2>1, <2>2, <2>4 DEF MainPartOK
<1>8. MainOK'
  BY <1>1, <1>2, <1>5, <1>6, <1>7 DEF MainOK, MainPartOK
<1>9. KeyInv'
  BY <1>2, MainStepBase DEF MainStep
<1> QED
  BY <1>3, <1>8, <1>9 DEF IInv

(* The steps before the extension. *)
LEMMA BaseFrame ==
  ASSUME IInv, BaseInv', inst' = inst, UNCHANGED <<idx, th, running, hashBuf, out>>,
         \A p \in Party : main'[p] = main[p]
                            \/ (~ Begun(p) /\ main'[p] \notin {"mark", "wait", "done"})
  PROVE  IInv'
<1>1. /\ inst \in Instances /\ MainOK /\ ThreadsOK /\ MasksOK /\ InRange
      /\ running \in [Party -> [Threads -> BOOLEAN]] /\ inst.threads \in Nat \ {0}
  BY Sizes DEF IInv, KeyInv, BaseInv, Together, MainOK
<1>2. ThreadsOK' /\ MasksOK'
  BY <1>1, StillMasks
<1>3. Threads' = Threads /\ nOTs' = nOTs
  BY Static, StaticParts
<1>4. ASSUME NEW p \in Party, main'[p] # main[p]
      PROVE  idx'[p] = 0 /\ MainPartOK(p)'
  <2>1. ~ Begun(p) /\ main'[p] \notin {"mark", "wait", "done"}
    BY <1>4
  <2>2. idx[p] = 0
    BY <1>1, <2>1 DEF InRange
  <2>3. \A u \in Threads : u \in Nat /\ ~ (u < 0)
    BY <1>1 DEF Threads
  <2>4. \A u \in Threads : th'[p][u].st = "none"
    BY <1>1, <2>1 DEF MainOK, Created, Begun
  <2>5. \A u \in Threads : ~ Created(p, u)' /\ ~ Marked(p, u)' /\ ~ HasJoined(p, u)'
    BY <2>1, <2>2, <2>3 DEF Created, Marked, HasJoined
  <2> QED
    BY <1>3, <2>1, <2>2, <2>4, <2>5 DEF MainPartOK
<1>5. ASSUME NEW p \in Party, main'[p] = main[p]
      PROVE  MainPartOK(p)'
  <2>1. MainPartOK(p)
    BY <1>1, MainParts
  <2> QED
    BY <1>5, <2>1, MainPartStays
<1>6. MainOK'
  BY <1>1, <1>3, <1>4, <1>5 DEF MainOK, MainPartOK
<1>7. InRange'
  <2>1. ASSUME NEW p \in Party
        PROVE  /\ ~ (main'[p] \in {"create", "mark", "wait", "done"}) => idx'[p] = 0
               /\ main'[p] \in {"create", "mark", "wait"} => idx'[p] < inst'.threads
               /\ main'[p] = "done" => idx'[p] <= inst'.threads
    <3>1. CASE main'[p] = main[p]
      BY <1>1, <3>1 DEF InRange, Begun
    <3>2. CASE main'[p] # main[p]
      BY <1>1, <1>4, <3>2
    <3> QED
      BY <3>1, <3>2
  <2> QED
    BY <1>1, <2>1 DEF InRange, Begun
<1> QED
  BY <1>2, <1>6, <1>7 DEF IInv, KeyInv

(* Every step before the extension keeps it. *)
LEMMA BaseStepStep ==
  ASSUME IInv, BaseStep
  PROVE  IInv'
<1>1. /\ BaseInv /\ main \in [Party -> States]
      /\ UNCHANGED <<idx, th, running, hashBuf, out>>
  BY DEF IInv, KeyInv, BaseInv, Together, BaseStep
<1>2. SERVER \in Party /\ CLIENT \in Party
  BY Parties
<1>3. ASSUME NEW p \in Party, SendSeed(p), UNCHANGED <<keySeeds, keySeedMtx>>
      PROVE  IInv'
  <2>1. BaseInv'
    BY <1>1, <1>3, SendSeedStep
  <2>2. inst' = inst /\ main[p] = "start" /\ main' = [main EXCEPT ![p] = "seed"]
    BY <1>3 DEF SendSeed
  <2>3. \A q \in Party : main'[q] = main[q]
                            \/ (~ Begun(q) /\ main'[q] \notin {"mark", "wait", "done"})
    BY <1>1, <2>2 DEF Begun
  <2> QED
    BY <1>1, <2>1, <2>2, <2>3, BaseFrame
<1>4. ASSUME NEW p \in Party, ReceiveSeed(p), UNCHANGED <<keySeeds, keySeedMtx>>
      PROVE  IInv'
  <2>1. BaseInv'
    BY <1>1, <1>4, ReceiveSeedStep
  <2>2. inst' = inst /\ main[p] = "seed" /\ main' = [main EXCEPT ![p] = "base"]
    BY <1>4 DEF ReceiveSeed
  <2>3. \A q \in Party : main'[q] = main[q]
                            \/ (~ Begun(q) /\ main'[q] \notin {"mark", "wait", "done"})
    BY <1>1, <2>2 DEF Begun
  <2> QED
    BY <1>1, <2>1, <2>2, <2>3, BaseFrame
<1>5. ASSUME SendPoints PROVE IInv'
  <2>1. BaseInv'
    BY <1>1, <1>5, SendPointsStep
  <2>2. inst' = inst /\ main[CLIENT] = "base" /\ main' = [main EXCEPT ![CLIENT] = "keys"]
    BY <1>5 DEF SendPoints
  <2>3. \A q \in Party : main'[q] = main[q]
                            \/ (~ Begun(q) /\ main'[q] \notin {"mark", "wait", "done"})
    BY <1>1, <1>2, <2>2 DEF Begun
  <2> QED
    BY <1>1, <2>1, <2>2, <2>3, BaseFrame
<1>6. ASSUME AnswerPoints PROVE IInv'
  <2>1. BaseInv'
    BY <1>1, <1>6, AnswerPointsStep
  <2>2. inst' = inst /\ main[SERVER] = "base" /\ main' = [main EXCEPT ![SERVER] = "create"]
    BY <1>6 DEF AnswerPoints
  <2>3. \A q \in Party : main'[q] = main[q]
                            \/ (~ Begun(q) /\ main'[q] \notin {"mark", "wait", "done"})
    BY <1>1, <1>2, <2>2 DEF Begun
  <2> QED
    BY <1>1, <2>1, <2>2, <2>3, BaseFrame
<1>7. ASSUME ReceiveKeys PROVE IInv'
  <2>1. BaseInv'
    BY <1>1, <1>7, ReceiveKeysStep
  <2>2. inst' = inst /\ main[CLIENT] = "keys" /\ main' = [main EXCEPT ![CLIENT] = "create"]
    BY <1>7 DEF ReceiveKeys
  <2>3. \A q \in Party : main'[q] = main[q]
                            \/ (~ Begun(q) /\ main'[q] \notin {"mark", "wait", "done"})
    BY <1>1, <1>2, <2>2 DEF Begun
  <2> QED
    BY <1>1, <2>1, <2>2, <2>3, BaseFrame
<1> QED
  BY <1>3, <1>4, <1>5, <1>6, <1>7 DEF BaseStep, BaseNext, SeedNext

(* A stuttering step keeps it. *)
LEMMA Stutter ==
  ASSUME IInv, UNCHANGED vars
  PROVE  IInv'
<1>1. /\ UNCHANGED <<inst, main, chan, prfKey, keySeeds, keySeedMtx>>
      /\ UNCHANGED <<idx, th, running, hashBuf, out>>
  BY DEF vars, baseVars
<1>2. BaseInv /\ Channels /\ Asleep /\ main \in [Party -> States]
  BY DEF IInv, KeyInv, BaseInv, Together
<1>3. Channels'
  BY <1>1, <1>2, ChannelsStay
<1>4. Asleep'
  <2>1. \A p \in Party : Begun(p) => Begun(p)'
    BY <1>1 DEF Begun
  <2> QED
    BY <1>1, <1>2, <2>1, StillAsleep
<1>5. BaseInv'
  BY <1>1, <1>2, <1>3, <1>4, LateFrame
<1> QED
  BY <1>1, <1>5, BaseFrame

(* The invariant holds at the start, *)
LEMMA InitIInv == Init => IInv
<1> SUFFICES ASSUME Init PROVE IInv
  OBVIOUS
<1>1. /\ inst \in Instances /\ main = [p \in Party |-> "start"]
      /\ idx = [p \in Party |-> 0]
      /\ th = [p \in Party |-> [t \in Threads |-> Idle]]
      /\ running = [p \in Party |-> [t \in Threads |-> FALSE]]
      /\ hashBuf = [p \in Party |-> <<>>]
      /\ out = [p \in Party |-> [e \in 0 .. NMasks(p) - 1 |-> <<>>]]
  BY Zenon DEF Init, BaseInit, SeedInit
<1>2. BaseInv
  BY InitBase
<1>3. \A p \in Party : main[p] = "start" /\ idx[p] = 0
  BY <1>1
<1>4. \A p \in Party, t \in Threads : th[p][t] = Idle
  BY <1>1
<1>5. Idle.st = "none" /\ DOMAIN Idle.jobs = {}
  BY DEF Idle
<1>6. InRange
  BY <1>1, <1>3 DEF InRange, Begun
<1>7. MainOK
  <2>1. \A p \in Party, t \in Threads : ~ Created(p, t) /\ ~ Marked(p, t) /\ ~ HasJoined(p, t)
    BY <1>3 DEF Created, Marked, HasJoined
  <2>2. running \in [Party -> [Threads -> BOOLEAN]]
    BY <1>1
  <2> QED
    BY <1>3, <1>4, <1>5, <2>1, <2>2 DEF MainOK
<1>8. ThreadsOK
  BY <1>4, <1>5 DEF ThreadsOK, ThreadOK, Active
<1>9. MasksOK
  BY <1>1, <1>4, <1>5 DEF MasksOK, Active
<1> QED
  BY <1>2, <1>6, <1>7, <1>8, <1>9 DEF IInv, KeyInv

(* every step keeps it, *)
LEMMA StepIInv == IInv /\ [Next]_vars => IInv'
<1> SUFFICES ASSUME IInv, [Next]_vars PROVE IInv'
  OBVIOUS
<1>1. CASE BaseStep
  BY <1>1, BaseStepStep
<1>2. ASSUME NEW p \in Party, MainStep(p) PROVE IInv'
  BY <1>2, NoOTsStep, CreateThreadStep, MarkRunningStep, WaitThreadStep DEF MainStep
<1>3. ASSUME NEW p \in Party, NEW t \in Threads, ThreadStep(p, t) PROVE IInv'
  <2>1. CASE p = CLIENT /\ ClientRound(t)
    BY <2>1, ClientRoundStep
  <2>2. CASE p = SERVER /\ ServerRound(t)
    BY <2>2, ServerRoundStep
  <2>3. CASE HashInto(p, t)
    BY <2>3, HashIntoStep
  <2>4. CASE CopyOut(p, t)
    BY <2>4, CopyOutStep
  <2>5. CASE EndRound(p, t)
    BY <2>5, EndRoundStep
  <2>6. CASE EndThread(p, t)
    BY <2>6, EndThreadStep
  <2> QED
    BY <1>3, <2>1, <2>2, <2>3, <2>4, <2>5, <2>6 DEF ThreadStep
<1>4. CASE UNCHANGED vars
  BY <1>4, Stutter
<1> QED
  BY <1>1, <1>2, <1>3, <1>4 DEF Next

(* and so it always holds. *)
LEMMA Invariant == Spec => []IInv
<1> QED
  BY InitIInv, StepIInv, PTL DEF Spec

(* In every reachable state the loop variables are in range, each party's array of masks
   keeps its size, and every hash call of a round writes to a place inside it or to the
   dummy buffer, for any sizes, tables and number of threads. *)
THEOREM TypeCorrect == Spec => []TypeOK
<1>1. IInv => TypeOK
  <2> SUFFICES ASSUME IInv PROVE TypeOK
    OBVIOUS
  <2>1. /\ inst \in Instances /\ main \in [Party -> States] /\ InRange /\ ThreadsOK /\ MasksOK
        /\ inst.threads \in Nat \ {0}
    BY Sizes DEF IInv, KeyInv, BaseInv, Together
  <2>2. \A p \in Party : idx[p] \in 0 .. inst.threads
    <3> SUFFICES ASSUME NEW p \in Party PROVE idx[p] \in 0 .. inst.threads
      OBVIOUS
    <3>1. idx[p] \in Nat /\ idx[p] <= inst.threads
      BY <2>1 DEF InRange, Begun
    <3> QED
      BY <2>1, <3>1
  <2>3. ASSUME NEW p \in Party, NEW t \in Threads, NEW n \in DOMAIN th[p][t].jobs
        PROVE  th[p][t].jobs[n].cell \in (0 .. NMasks(p) - 1) \cup {NoCell}
    <3>1. JobsOK(p, th[p][t].jobs, th[p][t].ot_id, NextOtId(t, th[p][t].ot_id))
      BY <2>1, <2>3 DEF ThreadsOK, ThreadOK
    <3>2. DOMAIN th[p][t].jobs = 1 .. Len(th[p][t].jobs)
      BY <3>1, SeqFacts DEF JobsOK
    <3> QED
      BY <2>3, <3>1, <3>2 DEF JobsOK
  <2>4. \A p \in Party : DOMAIN out[p] = 0 .. NMasks(p) - 1
    BY <2>1 DEF MasksOK
  <2>5. \A p \in Party, t \in Threads : th[p][t].st \in {"none", "ready", "hash", "copy", "ended"}
    BY <2>1 DEF ThreadsOK, ThreadOK
  <2> QED
    BY <2>1, <2>2, <2>3, <2>4, <2>5 DEF TypeOK, States
<1> QED
  BY <1>1, Invariant, PTL

(* When send or receive has returned, each of its threads has ended and every mask of
   the party has been written, though CThread::Wait joins only a thread whose m_bRunning
   it sees set and both threads write that without a lock. *)
THEOREM ReturnsJoined == Spec => []AllJoined
<1>1. IInv => AllJoined
  <2> SUFFICES ASSUME IInv, NEW p \in Party, main[p] = "done"
               PROVE  /\ \A t \in Threads : nOTs > 0 => th[p][t].st = "ended"
                      /\ \A e \in DOMAIN out[p] : out[p][e] # <<>>
    BY DEF AllJoined
  <2>1. inst \in Instances /\ MainOK /\ ThreadsOK /\ MasksOK
    BY DEF IInv, KeyInv, BaseInv, Together
  <2>2. \A t \in Threads : nOTs > 0 => th[p][t].st = "ended"
    BY <2>1 DEF MainOK, HasJoined
  <2>3. ASSUME NEW e \in DOMAIN out[p] PROVE out[p][e] # <<>>
    <3>1. e \in 0 .. NMasks(p) - 1
      BY <2>1 DEF MasksOK
    <3>2. PICK o \in 0 .. nOTs - 1 : StartingPos(p)[o] <= e /\ e < StartingPos(p)[o + 1]
      BY <2>1, <3>1, Places
    <3>3. PICK t \in Threads : MyStartPos(t) <= o /\ o < OtLim(t)
      BY <2>1, PartsCover
    <3>4. nOTs > 0
      BY <2>1, Shares
    <3>5. PICK s : s = th[p][t]
      OBVIOUS
    <3>6. s.st = "ended" /\ Point(t, s.ot_id) /\ s.ot_id >= OtLim(t)
          /\ Written(p, MyStartPos(t), s.ot_id)
      <4>1. s.st = "ended"
        BY <2>2, <3>4, <3>5
      <4> QED
        BY <2>1, <3>5, <4>1 DEF ThreadsOK, ThreadOK, MasksOK
    <3>7. o \in MyStartPos(t) .. s.ot_id - 1
      <4>1. MyStartPos(t) \in Nat /\ OtLim(t) \in Nat /\ s.ot_id \in Nat
        BY <2>1, <3>6, Part DEF Point
      <4> QED
        BY <3>3, <3>6, <4>1
    <3> QED
      BY <3>2, <3>6, <3>7 DEF Written
  <2> QED
    BY <2>2, <2>3
<1> QED
  BY <1>1, Invariant, PTL

(* The exponents of the two parties are the same: arithmetic modulo the order. *)
LEMMA Congruent ==
  ASSUME NEW w \in Nat \ {0}, NEW y \in Int, NEW m \in Int, NEW x, x = y + w * m
  PROVE  x % w = y % w
<1>1. PICK q, r : q = y \div w /\ r = y % w
  OBVIOUS
<1>2. q \in Int /\ r \in 0 .. w - 1 /\ y = w * q + r
  BY <1>1, Remainder
<1>3. q + m \in Int
  BY <1>2
<1>4. w * (q + m) = w * q + w * m
  BY <1>2
<1>5. w * q \in Int /\ w * m \in Int /\ r \in Int
  BY <1>2
<1>6. x = w * (q + m) + r
  BY <1>2, <1>4, <1>5
<1>7. (w * (q + m) + r) % w = r
  BY <1>2, <1>3, OneRemainder
<1> QED
  BY <1>1, <1>6, <1>7

(* A factor can be replaced by its remainder, *)
LEMMA ProductRemainder ==
  ASSUME NEW w \in Nat \ {0}, NEW x \in Int, NEW a \in Int
  PROVE  ((x % w) * a) % w = (x * a) % w
<1>1. PICK q, r : q = x \div w /\ r = x % w
  OBVIOUS
<1>2. q \in Int /\ r \in 0 .. w - 1 /\ x = w * q + r
  BY <1>1, Remainder
<1>3. r \in Int /\ r * a \in Int /\ q * a \in Int /\ w * q \in Int
  BY <1>2
<1>4. x * a = (w * q) * a + r * a
  BY <1>2, <1>3
<1>5. (w * q) * a = w * (q * a)
  BY <1>2
<1>6. x * a = r * a + w * (q * a)
  BY <1>3, <1>4, <1>5
<1>7. (x * a) % w = (r * a) % w
  <2>1. PICK u, v, m : u = x * a /\ v = r * a /\ m = q * a
    BY Zenon
  <2>2. v \in Int /\ m \in Int /\ u = v + w * m
    BY Zenon, <1>3, <1>6, <2>1
  <2>3. u % w = v % w
    BY <2>2, Congruent
  <2> QED
    BY Zenon, <2>1, <2>3
<1>8. ((x % w) * a) % w = (r * a) % w
  BY Zenon, <1>1
<1> QED
  BY Zenon, <1>7, <1>8

(* and so can the sides of a difference. *)
LEMMA DifferenceRemainder ==
  ASSUME NEW w \in Nat \ {0}, NEW x \in Int, NEW y \in Int
  PROVE  ((x % w) - (y % w)) % w = (x - y) % w
<1>1. PICK q, r : q = x \div w /\ r = x % w
  OBVIOUS
<1>2. q \in Int /\ r \in 0 .. w - 1 /\ x = w * q + r
  BY <1>1, Remainder
<1>3. PICK p, s : p = y \div w /\ s = y % w
  OBVIOUS
<1>4. p \in Int /\ s \in 0 .. w - 1 /\ y = w * p + s
  BY <1>3, Remainder
<1>5. r - s \in Int /\ q - p \in Int
  BY <1>2, <1>4
<1>6. w * (q - p) = w * q - w * p
  BY <1>2, <1>4
<1>7. w * q \in Int /\ w * p \in Int /\ r \in Int /\ s \in Int
  BY <1>2, <1>4
<1>8. x - y = (r - s) + w * (q - p)
  BY <1>2, <1>4, <1>6, <1>7
<1>9. (x - y) % w = (r - s) % w
  <2>1. PICK u, v, m : u = x - y /\ v = r - s /\ m = q - p
    BY Zenon
  <2>2. v \in Int /\ m \in Int /\ u = v + w * m
    BY Zenon, <1>5, <1>8, <2>1
  <2>3. u % w = v % w
    BY <2>2, Congruent
  <2> QED
    BY Zenon, <2>1, <2>3
<1>10. ((x % w) - (y % w)) % w = (r - s) % w
  BY Zenon, <1>1, <1>3
<1> QED
  BY Zenon, <1>9, <1>10

(* The exponent that the server computes for its choice is the one of the client. *)
LEMMA ChosenExponent ==
  ASSUME NEW w \in Nat \ {0}, NEW alpha \in Int, NEW tmp \in Int, NEW e \in Int
  PROVE  /\ (e * alpha) % w = (alpha * e) % w
         /\ (((tmp * alpha) % w) - ((((tmp - e) % w) * alpha) % w)) % w = (alpha * e) % w
<1>1. e * alpha = alpha * e
  OBVIOUS
<1>2. tmp - e \in Int /\ tmp * alpha \in Int /\ (tmp - e) * alpha \in Int
  OBVIOUS
<1>3. (((tmp - e) % w) * alpha) % w = ((tmp - e) * alpha) % w
  BY <1>2, ProductRemainder
<1>4. (((tmp * alpha) % w) - (((tmp - e) * alpha) % w)) % w = (tmp * alpha - (tmp - e) * alpha) % w
  BY <1>2, DifferenceRemainder
<1>5. tmp * alpha - (tmp - e) * alpha = alpha * e
  <2>1. (tmp - e) * alpha = tmp * alpha - alpha * e
    OBVIOUS
  <2>2. tmp * alpha \in Int /\ alpha * e \in Int
    OBVIOUS
  <2> QED
    BY <2>1, <2>2
<1> QED
  BY <1>1, <1>3, <1>4, <1>5

(* The words of the keys, for the levels at which a key has two. *)
LEMMA WordOfKey ==
  ASSUME NEW k \in Nat, NEW w \in 1 .. 2
  PROVE  /\ k * 2 + w - 1 \in Nat /\ (k * 2 + w - 1) \div 2 = k /\ (k * 2 + w - 1) % 2 = w - 1
OBVIOUS

(* A key of at most 128 bits is two hash words of one OT. *)
LEMMA KeyOfStream ==
  ASSUME inst \in Instances, Level <= 128, NEW n \in Nat, NEW dlog, NEW chunkOT, NEW k \in 0 .. n - 1
  PROVE  AESKey(KeyStream(dlog, chunkOT, n), k) = [w \in 1 .. 2 |-> HashWord(dlog[k], chunkOT[k], w - 1)]
<1>1. KeyWords = 2 /\ AesWords = 2
  BY LevelsOK DEF KeyWords, AesWords, Level, SecurityLevels
<1> DEFINE stream == KeyStream(dlog, chunkOT, n)
<1>2. ASSUME NEW w \in 1 .. 2
      PROVE  stream[k * 2 + w - 1] = HashWord(dlog[k], chunkOT[k], w - 1)
  <2>1. PICK i : i = k * 2 + w - 1
    OBVIOUS
  <2>2. i \in 0 .. n * 2 - 1
    BY <2>1
  <2>3. i \div 2 = k /\ i % 2 = w - 1
    BY <2>1, WordOfKey
  <2>4. stream[i] = HashWord(dlog[i \div 2], chunkOT[i \div 2], i % 2)
    BY <1>1, <2>2 DEF KeyStream
  <2> QED
    BY <2>1, <2>3, <2>4
<1> HIDE DEF stream
<1>3. AESKey(stream, k) = [w \in 1 .. 2 |-> stream[k * 2 + w - 1]]
  BY <1>1 DEF AESKey
<1> QED
  BY <1>2, <1>3 DEF stream

(* The server's key of each base OT is the one of the client's keys that its choice
   names. *)
LEMMA KeysChosen ==
  ASSUME inst \in Instances, Level <= 128, NEW k \in BaseOTs
  PROVE  ServerKeys[k] = ClientKeys[2 * k + (IF k \in inst.U THEN 1 ELSE 0)]
<1> DEFINE u == IF k \in inst.U THEN 1 ELSE 0
           dec == [j \in BaseOTs |-> Pow(inst.alpha, inst.pK[j])]
           ids == [j \in BaseOTs |-> j]
           PK0r(j) == Pow(PublicKeys[j + 1], inst.alpha)
           dlog == [c \in 0 .. 2 * CodeWordBits - 1 |->
                      IF c % 2 = 0 THEN PK0r(c \div 2)
                      ELSE Div(Pow(inst.tmp, inst.alpha), PK0r(c \div 2))]
           chunks == [c \in 0 .. 2 * CodeWordBits - 1 |-> c \div 2]
           e == Pow(inst.alpha, inst.pK[k])
<1>1. /\ k \in Nat /\ k \in 0 .. CodeWordBits - 1 /\ CodeWordBits \in Nat \ {0} /\ Order \in Nat \ {0}
      /\ inst.alpha \in Int /\ inst.tmp \in Int /\ inst.pK[k] \in Int
  BY GroupOK, RandomsOK DEF BaseOTs
<1>2. /\ 2 * k + u \in 0 .. 2 * CodeWordBits - 1
      /\ (2 * k + u) \div 2 = k /\ (2 * k + u) % 2 = u
  <2>1. u \in {0, 1}
    OBVIOUS
  <2> HIDE DEF u
  <2>2. 2 * k + u \in 0 .. 2 * CodeWordBits - 1
    BY <1>1, <2>1
  <2>3. (2 * k + u) \div 2 = k
    BY <1>1, <2>1
  <2>4. (2 * k + u) % 2 = u
    BY <1>1, <2>1
  <2> QED
    BY <2>2, <2>3, <2>4
<1>3. ServerKeys[k] = [w \in 1 .. 2 |-> HashWord(e, k, w - 1)]
  <2>1. ServerKeys[k] = AESKey(KeyStream(dec, ids, CodeWordBits), k)
    BY DEF ServerKeys
  <2>2. dec[k] = e /\ ids[k] = k
    BY <1>1
  <2> HIDE DEF dec, ids, e
  <2>3. AESKey(KeyStream(dec, ids, CodeWordBits), k) = [w \in 1 .. 2 |-> HashWord(dec[k], ids[k], w - 1)]
    BY <1>1, KeyOfStream
  <2> QED
    BY <2>1, <2>2, <2>3
<1>4. dlog[2 * k + u] = e
  <2>1. PublicKeys[k + 1] = IF k \in inst.U THEN Div(inst.tmp, inst.pK[k]) ELSE inst.pK[k]
    BY <1>1 DEF PublicKeys, PK0, Points
  <2> DEFINE P == PK0r(k)
  <2>2. dlog[2 * k + u] = IF u = 0 THEN P ELSE Div(Pow(inst.tmp, inst.alpha), P)
    BY <1>2
  <2>3. CASE k \in inst.U
    <3>1. P = (((inst.tmp - inst.pK[k]) % Order) * inst.alpha) % Order
      BY <2>1, <2>3 DEF Pow, Div
    <3>2. dlog[2 * k + u] = (((inst.tmp * inst.alpha) % Order) - P) % Order
      BY <2>2, <2>3 DEF Pow, Div
    <3> HIDE DEF dlog, P, u
    <3>3. (((inst.tmp * inst.alpha) % Order) - P) % Order = (inst.alpha * inst.pK[k]) % Order
      BY <1>1, <3>1, ChosenExponent
    <3> QED
      BY <3>2, <3>3 DEF Pow
  <2>4. CASE k \notin inst.U
    <3>1. dlog[2 * k + u] = (inst.pK[k] * inst.alpha) % Order
      BY <2>1, <2>2, <2>4 DEF Pow
    <3> HIDE DEF dlog, u
    <3>2. (inst.pK[k] * inst.alpha) % Order = (inst.alpha * inst.pK[k]) % Order
      BY <1>1, ChosenExponent
    <3> QED
      BY <3>1, <3>2 DEF Pow
  <2> QED
    BY <2>3, <2>4
<1>5. ClientKeys[2 * k + u] = [w \in 1 .. 2 |-> HashWord(e, k, w - 1)]
  <2> DEFINE c == 2 * k + u
             n == 2 * CodeWordBits
  <2>1. ClientKeys[c] = AESKey(KeyStream(dlog, chunks, n), c)
    BY <1>2 DEF ClientKeys
  <2>2. chunks[c] = k
    BY <1>2
  <2>3. c \in 0 .. n - 1 /\ n \in Nat
    BY <1>1, <1>2
  <2>4. dlog[c] = e
    BY <1>4
  <2> HIDE DEF dlog, chunks, c, n, e
  <2>5. AESKey(KeyStream(dlog, chunks, n), c) = [w \in 1 .. 2 |-> HashWord(dlog[c], chunks[c], w - 1)]
    BY <2>3, KeyOfStream
  <2>6. ClientKeys[c] = [w \in 1 .. 2 |-> HashWord(e, k, w - 1)]
    BY <2>1, <2>2, <2>4, <2>5
  <2> QED
    BY <2>6 DEF c
<1> QED
  BY <1>3, <1>5

(* A word of a longer key. *)
LEMMA WordOfLongKey ==
  ASSUME inst \in Instances, ~(Level <= 128), NEW n \in Nat, NEW dlog, NEW chunkOT,
         NEW i \in Nat, NEW w \in 1 .. 4, NEW j \in 0 .. n * KeyWords - 1, j = i * 2 + w - 1
  PROVE  AESKey(KeyStream(dlog, chunkOT, n), i)[w]
           = HashWord(dlog[j \div KeyWords], chunkOT[j \div KeyWords], j % KeyWords)
<1>1. AesWords = 4
  BY DEF AesWords
<1> DEFINE stream == KeyStream(dlog, chunkOT, n)
<1>2. stream[j] = HashWord(dlog[j \div KeyWords], chunkOT[j \div KeyWords], j % KeyWords)
  BY DEF KeyStream
<1> HIDE DEF stream
<1>3. AESKey(stream, i)[w] = stream[i * 2 + w - 1]
  BY <1>1 DEF AESKey
<1> QED
  BY <1>2, <1>3 DEF stream

(* Words of the first two base OTs' hashes are the same only if all is the same. *)
LEMMA HashWordsDiffer ==
  ASSUME NEW e \in 0 .. Order - 1, NEW f \in 0 .. Order - 1, NEW k \in {0, 1},
         NEW v \in 0 .. 3, NEW w \in 0 .. 3, HashWord(e, k, v) = HashWord(f, 0, w)
  PROVE  v = w /\ e = f /\ k = 0
<1>1. Order \in Nat \ {0}
  BY GroupOK
<1>2. CASE k = 0
  BY <1>1, <1>2 DEF HashWord
<1>3. CASE k = 1
  BY <1>1, <1>3 DEF HashWord
<1> QED
  BY <1>2, <1>3

(* At the higher levels the first two base OTs have not both the same key on both sides:
   if the first has, its choice is 0, and the second key begins in the middle of the
   server's first hash, but with a hash of the client, and not the server's. *)
LEMMA LongKeysDiffer ==
  ASSUME inst \in Instances, ~(Level <= 128), CodeWordBits >= 2, Candidates(0)[1] # Candidates(0)[2]
  PROVE  \E k \in {0, 1} : ServerKeys[k] # ClientKeys[2 * k + (IF k \in inst.U THEN 1 ELSE 0)]
<1> DEFINE dec == [j \in BaseOTs |-> Pow(inst.alpha, inst.pK[j])]
           ids == [j \in BaseOTs |-> j]
           PK0r(j) == Pow(PublicKeys[j + 1], inst.alpha)
           dlog == [c \in 0 .. 2 * CodeWordBits - 1 |->
                      IF c % 2 = 0 THEN PK0r(c \div 2)
                      ELSE Div(Pow(inst.tmp, inst.alpha), PK0r(c \div 2))]
           chunks == [c \in 0 .. 2 * CodeWordBits - 1 |-> c \div 2]
           n == 2 * CodeWordBits
           KW == KeyWords
           other == IF 0 \in inst.U THEN 1 ELSE 0
           next == IF 1 \in inst.U THEN 3 ELSE 2
<1>1. /\ CodeWordBits \in Nat /\ Order \in Nat \ {0} /\ KW = (IF Level = 192 THEN 3 ELSE 4)
      /\ inst.alpha \in Int /\ inst.tmp \in Int /\ \A k \in BaseOTs : inst.pK[k] \in Int
      /\ 0 \in BaseOTs /\ 1 \in BaseOTs
  <2>1. CodeWordBits \in Nat /\ Order \in Nat \ {0} /\ 0 \in BaseOTs /\ 1 \in BaseOTs
    BY GroupOK DEF BaseOTs
  <2>2. inst.alpha \in Int /\ inst.tmp \in Int /\ \A k \in BaseOTs : inst.pK[k] \in Int
    BY <2>1, RandomsOK DEF BaseOTs
  <2>3. KW = (IF Level = 192 THEN 3 ELSE 4)
    BY LevelsOK DEF KeyWords, Level, SecurityLevels
  <2> QED
    BY <2>1, <2>2, <2>3
<1>2. ASSUME NEW x \in Int PROVE x % Order \in 0 .. Order - 1
  BY <1>1
<1>3. \A k \in BaseOTs : dec[k] \in 0 .. Order - 1
  <2> SUFFICES ASSUME NEW k \in BaseOTs PROVE dec[k] \in 0 .. Order - 1
    OBVIOUS
  <2>1. inst.alpha * inst.pK[k] \in Int
    BY <1>1
  <2> QED
    BY <1>2, <2>1 DEF Pow
<1>4. dlog[0] = Candidates(0)[1] /\ dlog[1] = Candidates(0)[2]
  <2>1. 0 \in 0 .. n - 1 /\ 1 \in 0 .. n - 1 /\ 0 \div 2 = 0 /\ 1 \div 2 = 0 /\ 0 % 2 = 0 /\ 1 % 2 = 1
    BY <1>1
  <2>2. PK0r(0) = Candidates(0)[1]
    BY <1>1 DEF PublicKeys, Points, Candidates
  <2> QED
    BY <2>1, <2>2 DEF Candidates
<1>5. dlog[0] \in 0 .. Order - 1 /\ dlog[1] \in 0 .. Order - 1
  <2>1. PK0(Points, 0) \in Int
    <3>1. PK0(Points, 0) = IF 0 \in inst.U THEN (inst.tmp - inst.pK[0]) % Order ELSE inst.pK[0]
      BY DEF PK0, Points, Div
    <3>2. inst.tmp - inst.pK[0] \in Int
      BY <1>1
    <3> QED
      BY <1>1, <1>2, <3>1, <3>2
  <2>2. PK0(Points, 0) * inst.alpha \in Int /\ inst.tmp * inst.alpha \in Int
    BY <1>1, <2>1
  <2>3. Candidates(0)[1] = (PK0(Points, 0) * inst.alpha) % Order
    BY DEF Candidates, Pow, Points
  <2>4. Candidates(0)[2] = (((inst.tmp * inst.alpha) % Order) - Candidates(0)[1]) % Order
    BY <2>3 DEF Candidates, Pow, Div, Points
  <2>5. (inst.tmp * inst.alpha) % Order \in Int /\ Candidates(0)[1] \in 0 .. Order - 1
    BY <1>2, <2>2, <2>3
  <2>6. ((inst.tmp * inst.alpha) % Order) - Candidates(0)[1] \in Int
    BY <1>1, <2>5
  <2> QED
    BY <1>2, <1>4, <2>4, <2>5, <2>6
<1>6. 0 \notin inst.U => dec[0] = dlog[0]
  <2> SUFFICES ASSUME 0 \notin inst.U PROVE dec[0] = Candidates(0)[1]
    BY <1>4
  <2>1. Candidates(0)[1] = (inst.pK[0] * inst.alpha) % Order
    BY DEF Candidates, Pow, PK0
  <2>2. inst.pK[0] * inst.alpha = inst.alpha * inst.pK[0]
    BY <1>1
  <2> QED
    BY <1>1, <2>1, <2>2 DEF Pow
<1>7. ASSUME NEW k \in {0, 1}, NEW w \in 1 .. 4, NEW x \in 0 .. 4, x = k * 2 + w - 1
      PROVE  ServerKeys[k][w] = HashWord(dec[x \div KW], ids[x \div KW], x % KW)
  <2>1. ServerKeys[k] = AESKey(KeyStream(dec, ids, CodeWordBits), k)
    BY <1>1 DEF ServerKeys
  <2>2. x \in 0 .. CodeWordBits * KW - 1
    BY <1>1
  <2>3. CodeWordBits \in Nat /\ k \in Nat
    BY <1>1
  <2> HIDE DEF dec, ids
  <2>4. AESKey(KeyStream(dec, ids, CodeWordBits), k)[w] = HashWord(dec[x \div KW], ids[x \div KW], x % KW)
    BY <1>7, <2>2, <2>3, WordOfLongKey
  <2> QED
    BY <2>1, <2>4
<1>8. ASSUME NEW c \in {0, 1, 2, 3}, NEW w \in 1 .. 4, NEW x \in 0 .. 6, x = c * 2 + w - 1
      PROVE  ClientKeys[c][w] = HashWord(dlog[x \div KW], chunks[x \div KW], x % KW)
  <2>1. ClientKeys[c] = AESKey(KeyStream(dlog, chunks, n), c)
    BY <1>1 DEF ClientKeys
  <2>2. x \in 0 .. n * KW - 1 /\ n \in Nat /\ c \in Nat
    BY <1>1
  <2> HIDE DEF dlog, chunks, n
  <2>3. AESKey(KeyStream(dlog, chunks, n), c)[w] = HashWord(dlog[x \div KW], chunks[x \div KW], x % KW)
    BY <1>8, <2>2, WordOfLongKey
  <2> QED
    BY <2>1, <2>3
<1>9. ids[0] = 0 /\ ids[1] = 1 /\ chunks[0] = 0 /\ chunks[1] = 0
  <2>1. 0 \in 0 .. n - 1 /\ 1 \in 0 .. n - 1 /\ 0 \div 2 = 0 /\ 1 \div 2 = 0
    BY <1>1
  <2> QED
    BY <1>1, <2>1
<1> SUFFICES ASSUME ServerKeys[0] = ClientKeys[other], ServerKeys[1] = ClientKeys[next]
             PROVE  FALSE
  <2>1. 2 * 0 + (IF 0 \in inst.U THEN 1 ELSE 0) = other /\ 2 * 1 + (IF 1 \in inst.U THEN 1 ELSE 0) = next
    OBVIOUS
  <2> HIDE DEF other, next
  <2> QED
    BY <2>1
<1> HIDE DEF dec, ids, dlog, chunks, n, KW
<1>10. CASE 0 \in inst.U
  <2>1. 0 \div KW = 0 /\ 0 % KW = 0 /\ 2 \div KW = 0 /\ 2 % KW = 2
    BY <1>1
  <2>2. ServerKeys[0][1] = HashWord(dec[0], 0, 0)
    BY <1>7, <1>9, <2>1
  <2>3. ClientKeys[1][1] = HashWord(dlog[0], 0, 2)
    BY <1>8, <1>9, <2>1
  <2>4. HashWord(dec[0], 0, 0) = HashWord(dlog[0], 0, 2)
    BY <1>10, <2>2, <2>3
  <2> QED
    BY <1>1, <1>3, <1>5, <2>4, HashWordsDiffer
<1>11. CASE 0 \notin inst.U /\ KW = 3
  <2>1. 3 \div KW = 1 /\ 3 % KW = 0
    BY <1>11
  <2>2. ServerKeys[0][4] = HashWord(dec[1], 1, 0)
    BY <1>7, <1>9, <2>1
  <2>3. ClientKeys[0][4] = HashWord(dlog[1], 0, 0)
    BY <1>8, <1>9, <2>1
  <2>4. HashWord(dec[1], 1, 0) = HashWord(dlog[1], 0, 0)
    BY <1>11, <2>2, <2>3
  <2> QED
    BY <1>1, <1>3, <1>5, <2>4, HashWordsDiffer
<1>12. CASE 0 \notin inst.U /\ KW = 4
  <2>1. 2 \div KW = 0 /\ 2 % KW = 2 /\ 4 \div KW = 1 /\ 4 % KW = 0 /\ 6 \div KW = 1 /\ 6 % KW = 2
    BY <1>12
  <2>2. ServerKeys[1][1] = HashWord(dec[0], 0, 2)
    BY <1>7, <1>9, <2>1
  <2>3. CASE 1 \in inst.U
    <3>1. ClientKeys[3][1] = HashWord(dlog[1], 0, 2)
      BY <1>8, <1>9, <2>1
    <3>2. HashWord(dec[0], 0, 2) = HashWord(dlog[1], 0, 2)
      BY <2>2, <2>3, <3>1
    <3>3. dec[0] = dlog[1]
      BY <1>1, <1>3, <1>5, <3>2, HashWordsDiffer
    <3> QED
      BY <1>4, <1>6, <1>12, <3>3
  <2>4. CASE 1 \notin inst.U
    <3>1. ClientKeys[2][1] = HashWord(dlog[1], 0, 0)
      BY <1>8, <1>9, <2>1
    <3>2. HashWord(dec[0], 0, 2) = HashWord(dlog[1], 0, 0)
      BY <2>2, <2>4, <3>1
    <3> QED
      BY <1>1, <1>3, <1>5, <3>2, HashWordsDiffer
  <2> QED
    BY <2>3, <2>4
<1> QED
  BY <1>1, <1>10, <1>11, <1>12

(* The keys of the common function: the mix of the two seeds is the same for both, and the
   words that are read behind it belong to neither. *)
LEMMA SeedsMixed ==
  ASSUME inst \in Instances, ~ (Level = 192 /\ inst.stray)
  PROVE  PrfKey(SERVER, Mixed(SERVER, Drawn(CLIENT))) = PrfKey(CLIENT, Mixed(CLIENT, Drawn(SERVER)))
<1>1. ASSUME NEW w \in 0 .. KeyWords - 1
      PROVE  Mixed(SERVER, Drawn(CLIENT))[w] = Mixed(CLIENT, Drawn(SERVER))[w]
  <2>1. Mixed(SERVER, Drawn(CLIENT))[w] = Xor({<<SERVER, w>>}, {<<CLIENT, w>>})
    BY DEF Mixed, Drawn
  <2>2. Mixed(CLIENT, Drawn(SERVER))[w] = Xor({<<CLIENT, w>>}, {<<SERVER, w>>})
    BY DEF Mixed, Drawn
  <2>3. \A x, y : Xor(x, y) = Xor(y, x)
    BY DEF Xor
  <2> QED
    BY <2>1, <2>2, <2>3
<1>2. ASSUME NEW w \in 0 .. AesWords - 1, ~ (w < KeyWords)
      PROVE  Behind(SERVER, w) = Behind(CLIENT, w)
  <2>1. Level = 192
    <3>1. Level \in SecurityLevels
      BY LevelsOK DEF Level
    <3>2. CASE Level = 256
      BY <1>2, <3>2 DEF KeyWords, AesWords
    <3>3. CASE Level \in {80, 112, 128}
      BY <1>2, <3>3 DEF KeyWords, AesWords
    <3> QED
      BY <3>1, <3>2, <3>3 DEF SecurityLevels
  <2> QED
    BY <2>1 DEF Behind
<1>3. ASSUME NEW w \in 0 .. AesWords - 1
      PROVE  (IF w < KeyWords THEN Mixed(SERVER, Drawn(CLIENT))[w] ELSE Behind(SERVER, w))
               = (IF w < KeyWords THEN Mixed(CLIENT, Drawn(SERVER))[w] ELSE Behind(CLIENT, w))
  <2>1. CASE w < KeyWords
    <3>1. w \in 0 .. KeyWords - 1
      BY <2>1, Sizes
    <3> QED
      BY <1>1, <2>1, <3>1
  <2>2. CASE ~ (w < KeyWords)
    BY <1>2, <2>2
  <2> QED
    BY <2>1, <2>2
<1> QED
  BY <1>3, Zenon DEF PrfKey

(* The parties share what the extension needs: they read the same key of the common
   pseudo-random function, unless the level is 192 and the heap behind the seeds differs,
   and the server's key of each base OT is the client's for its choice bit, unless the
   level is above 128, where this fails for one of them. *)
THEOREM KeysAreShared == Spec => []SharedKeysAgree
<1>1. IInv => SharedKeysAgree
  <2> SUFFICES ASSUME IInv PROVE SharedKeysAgree
    OBVIOUS
  <2>1. inst \in Instances /\ KeysOK
    BY DEF IInv, KeyInv, BaseInv, Together
  <2>2. SeedsAgree
    <3> SUFFICES ASSUME \A p \in Party : main[p] \notin {"start", "seed"}, ~ (Level = 192 /\ inst.stray)
                 PROVE  prfKey[SERVER] = prfKey[CLIENT]
      BY DEF SeedsAgree
    <3>1. /\ prfKey[SERVER] = PrfKey(SERVER, Mixed(SERVER, Drawn(CLIENT)))
          /\ prfKey[CLIENT] = PrfKey(CLIENT, Mixed(CLIENT, Drawn(SERVER)))
      BY <2>1, Parties DEF KeysOK
    <3> QED
      BY <2>1, <3>1, SeedsMixed
  <2>3. ChosenKeys
    <3> SUFFICES ASSUME keySeeds # <<>>, keySeedMtx # <<>> PROVE ChosenKeys
      BY DEF ChosenKeys
    <3>1. keySeeds = ServerKeys /\ keySeedMtx = ClientKeys
      BY <2>1 DEF KeysOK
    <3>2. ASSUME Level <= 128, NEW k \in BaseOTs PROVE SameKey(k)
      BY <2>1, <3>1, <3>2, KeysChosen DEF SameKey
    <3>3. ASSUME ~(Level <= 128), CodeWordBits >= 2, Candidates(0)[1] # Candidates(0)[2]
          PROVE  \E k \in BaseOTs : ~SameKey(k)
      <4>1. PICK k \in {0, 1} : ServerKeys[k] # ClientKeys[2 * k + (IF k \in inst.U THEN 1 ELSE 0)]
        BY <2>1, <3>3, LongKeysDiffer
      <4>2. k \in BaseOTs
        BY <3>3, GroupOK DEF BaseOTs
      <4> QED
        BY <3>1, <4>1, <4>2 DEF SameKey
    <3> QED
      BY <3>2, <3>3 DEF ChosenKeys
  <2> QED
    BY <2>2, <2>3 DEF SharedKeysAgree
<1> QED
  BY <1>1, Invariant, PTL

(***************************************************************************)
(* What the rounds of a thread send, added up.                             *)
(***************************************************************************)

(* A sum along a chain in which every number below m is followed by a larger one exists:
   were there a length with no such sum from there on, the ones for the shorter ends of
   the chain than the least such length could be continued. *)
IsChain(f, w, nx, m, a, n) ==
  /\ f = [o \in a .. n |-> f[o]]
  /\ \A o \in a .. n : f[o] = IF o >= m THEN 0 ELSE w[o] + f[nx[o]]

(* A function that adds up the weights along a chain of points exists. *)
LEMMA ChainExists ==
  ASSUME NEW n \in Nat, NEW m \in 0 .. n, NEW w, NEW nx,
         \A o \in 0 .. m - 1 : nx[o] \in o + 1 .. n
  PROVE  \E f : IsChain(f, w, nx, m, 0, n)
<1> DEFINE Has(i) == \E f : IsChain(f, w, nx, m, n - i, n)
           T == {i \in 0 .. n : ~ Has(i)}
<1>0. SUFFICES ASSUME ~ Has(n) PROVE FALSE
  <2>1. n - n = 0
    OBVIOUS
  <2> QED
    BY <2>1
<1>1. T \subseteq Nat /\ T # {}
  <2> HIDE DEF Has
  <2>1. n \in 0 .. n
    OBVIOUS
  <2> QED
    BY <1>0, <2>1
<1>2. PICK x \in T : \A y \in T : x <= y
  BY <1>1, Least
<1>3. x \in 0 .. n /\ ~ \E f : IsChain(f, w, nx, m, n - x, n)
  OBVIOUS
<1>4. PICK a : a = n - x
  OBVIOUS
<1>5. a \in 0 .. n /\ ~ \E f : IsChain(f, w, nx, m, a, n)
  BY <1>3, <1>4
<1>6. CASE x = 0
  <2> DEFINE f == [o \in n .. n |-> 0]
  <2>1. IsChain(f, w, nx, m, n, n)
    <3>1. (\A o \in n .. n : o >= m /\ f[o] = 0) /\ f = [o \in n .. n |-> f[o]]
      OBVIOUS
    <3> HIDE DEF f
    <3> QED
      BY <3>1 DEF IsChain
  <2>2. a = n
    BY <1>4, <1>6
  <2> QED
    BY <1>5, <2>1, <2>2
<1>7. CASE x > 0
  <2>1. x - 1 \in 0 .. n /\ x - 1 \notin T
    BY <1>2, <1>3, <1>7
  <2>2. PICK old : IsChain(old, w, nx, m, n - (x - 1), n)
    BY <2>1
  <2>3. n - (x - 1) = a + 1 /\ a + 1 \in 1 .. n
    BY <1>3, <1>4, <1>7
  <2>4. /\ DOMAIN old = a + 1 .. n
        /\ \A o \in a + 1 .. n : old[o] = IF o >= m THEN 0 ELSE w[o] + old[nx[o]]
    BY <2>2, <2>3 DEF IsChain
  <2> DEFINE v == IF a >= m THEN 0 ELSE w[a] + old[nx[a]]
             f == [o \in a .. n |-> IF o = a THEN v ELSE old[o]]
  <2>5. \A o \in a + 1 .. n : o \in a .. n /\ o # a /\ f[o] = old[o]
    BY <1>5
  <2>6. \A o \in a .. n : ~ (o >= m) => nx[o] \in a + 1 .. n
    BY <1>5
  <2>7. ASSUME NEW o \in a .. n
        PROVE  f[o] = IF o >= m THEN 0 ELSE w[o] + f[nx[o]]
    <3>1. CASE o = a
      <4>1. f[o] = v
        BY <3>1
      <4> HIDE DEF f
      <4>2. ~ (a >= m) => f[nx[a]] = old[nx[a]]
        BY <2>5, <2>6, <1>5
      <4> QED
        BY <3>1, <4>1, <4>2
    <3>2. CASE o # a
      <4>1. o \in a + 1 .. n
        BY <1>5, <3>2
      <4> HIDE DEF f
      <4>2. f[o] = old[o] /\ (~ (o >= m) => f[nx[o]] = old[nx[o]])
        BY <2>5, <2>6, <4>1
      <4> QED
        BY <2>4, <4>1, <4>2
    <3> QED
      BY <3>1, <3>2
  <2>8. f = [o \in a .. n |-> f[o]]
    OBVIOUS
  <2> HIDE DEF f
  <2> QED
    BY <1>5, <2>7, <2>8 DEF IsChain
<1> QED
  BY <1>3, <1>6, <1>7

(* A round's bits are those between its points. *)
LEMMA BitsNext ==
  ASSUME inst \in Instances, NEW t \in Threads, NEW o, Point(t, o), o < OtLim(t)
  PROVE  /\ Bits(t, o) \in Nat /\ Bits(t, NextOtId(t, o)) \in Nat
         /\ CodeWordBits * ProcessedOTs(t, o) \in Nat \ {0}
         /\ Bits(t, NextOtId(t, o)) = Bits(t, o) + CodeWordBits * ProcessedOTs(t, o)
<1>1. o \in Nat /\ MyStartPos(t) \in Nat /\ OtLim(t) \in Nat /\ MyStartPos(t) <= o
  BY Part DEF Point
<1>2. PICK j \in Nat : o = MyStartPos(t) + j * RoundSize
  BY <1>1 DEF Point
<1>3. CodeWordBits \in Nat \ {0} /\ inst.numOTBlocks \in Nat \ {0}
  BY GroupOK, TablesOK
<1> DEFINE c == CodeWordBits
           k == j * inst.numOTBlocks
           x == OtLen(t, o)
           s == MyStartPos(t)
           b == Blocks(t, o)
<1>4. k \in Nat /\ j * RoundSize = c * k
  <2>1. \A u, v, w \in Nat : u * v \in Nat /\ u * (v * w) = w * (u * v)
    OBVIOUS
  <2>2. inst.numOTBlocks \in Nat /\ c \in Nat /\ RoundSize = inst.numOTBlocks * c
    BY <1>3 DEF RoundSize
  <2> HIDE DEF c
  <2> QED
    BY <2>1, <2>2
<1>5. x \in Nat \ {0} /\ b \in Nat \ {0} /\ b = CeilDivide(x, c) /\ ProcessedOTs(t, o) = c * b
  BY <1>1, Round
<1>6. NextOtId(t, o) = o + x
  BY DEF NextOtId
<1>7. o - s = c * k + 0 /\ (o + x) - s = c * k + x
  <2>1. o = s + c * k /\ c * k \in Nat /\ s \in Nat /\ x \in Nat
    BY <1>1, <1>2, <1>3, <1>4, <1>5
  <2> DEFINE z == c * k
  <2>2. o = s + z /\ z \in Nat
    BY <2>1
  <2> HIDE DEF s, x, z
  <2>3. o - s = z + 0 /\ (o + x) - s = z + x
    BY <2>1, <2>2
  <2> QED
    BY <2>3 DEF z
<1>8. CeilDivide(o - s, c) = k
  <2>1. CeilDivide(0, c) = 0
    BY DEF CeilDivide
  <2> HIDE DEF s, k, c
  <2>2. CeilDivide(c * k + 0, c) = k + CeilDivide(0, c)
    BY <1>3, <1>4, CeilDivideSum DEF c
  <2> QED
    BY <1>4, <1>7, <2>1, <2>2
<1>9. CeilDivide((o + x) - s, c) = k + b
  <2> HIDE DEF s, k, c, x, b
  <2>1. CeilDivide(c * k + x, c) = k + CeilDivide(x, c)
    BY <1>3, <1>4, <1>5, CeilDivideSum DEF c
  <2> QED
    BY <1>5, <1>7, <2>1
<1>10. Bits(t, o) = c * (c * k) /\ Bits(t, NextOtId(t, o)) = c * (c * (k + b))
  <2>1. Bits(t, o) = c * (c * CeilDivide(o - s, c))
    BY DEF Bits
  <2>2. Bits(t, NextOtId(t, o)) = c * (c * CeilDivide((o + x) - s, c))
    <3>1. PICK v : v = NextOtId(t, o)
      OBVIOUS
    <3>2. Bits(t, v) = c * (c * CeilDivide(v - s, c))
      BY DEF Bits
    <3>3. v = o + x
      BY <1>6, <3>1
    <3> HIDE DEF c, s, x
    <3> QED
      BY <3>1, <3>2, <3>3
  <2> HIDE DEF c, s, x, k, b
  <2> QED
    BY <1>8, <1>9, <2>1, <2>2
<1>11. c \in Nat \ {0}
  BY <1>3
<1>12. ProcessedOTs(t, o) = c * b
  BY <1>5
<1> HIDE DEF c, k, b
<1>13. /\ c * (c * k) \in Nat /\ c * (c * (k + b)) \in Nat /\ c * (c * b) \in Nat \ {0}
  <2>1. c * k \in Nat /\ c * b \in Nat \ {0} /\ c * (k + b) \in Nat
    BY <1>4, <1>5, <1>11
  <2> QED
    BY <1>11, <2>1
<1>14. c * (c * (k + b)) = c * (c * k) + c * (c * b)
  <2>1. c * (k + b) = c * k + c * b
    BY <1>4, <1>5, <1>11
  <2> QED
    BY <1>4, <1>5, <1>11, <2>1
<1> QED
  BY <1>10, <1>12, <1>13, <1>14 DEF c

(* A round does not go beyond the next point. *)
LEMMA PointAbove ==
  ASSUME inst \in Instances, NEW t \in Threads, NEW a, NEW b, Point(t, a), Point(t, b), a < b
  PROVE  /\ a < OtLim(t) /\ NextOtId(t, a) <= b
         /\ a \in Nat /\ b \in Nat /\ a < NextOtId(t, a) /\ NextOtId(t, a) \in Nat
<1>1. /\ a \in Nat /\ b \in Nat /\ MyStartPos(t) \in Nat /\ OtLim(t) \in Nat
      /\ MyStartPos(t) <= a /\ b <= OtLim(t)
  BY Part DEF Point
<1>2. a < OtLim(t)
  BY <1>1
<1>3. /\ NextOtId(t, a) \in Nat /\ a < NextOtId(t, a) /\ NextOtId(t, a) <= OtLim(t)
      /\ NextOtId(t, a) <= a + RoundSize
  <2>1. /\ NextOtId(t, a) \in Nat /\ a < NextOtId(t, a) /\ NextOtId(t, a) <= OtLim(t)
    BY <1>1, <1>2, Round
  <2>2. NextOtId(t, a) <= a + RoundSize
    <3> DEFINE x == OtLen(t, a)
               m == ProcessedOTs(t, a)
    <3>1. m = CodeWordBits * Blocks(t, a) /\ m \in Nat /\ Blocks(t, a) \in Nat
          /\ Blocks(t, a) <= inst.numOTBlocks
      BY <1>1, <1>2, Round
    <3>2. CodeWordBits \in Nat /\ inst.numOTBlocks \in Nat
      BY GroupOK, TablesOK
    <3>3. CodeWordBits * Blocks(t, a) <= CodeWordBits * inst.numOTBlocks
      BY <3>1, <3>2
    <3>4. RoundSize = CodeWordBits * inst.numOTBlocks /\ RoundSize \in Nat
      BY <3>2 DEF RoundSize
    <3>5. x <= m /\ x \in Nat
      <4>1. x = Lesser(OtLim(t) - a, m)
        BY DEF OtLen
      <4>2. x \in Nat
        BY <1>1, <1>2, Round
      <4> HIDE DEF x, m
      <4> QED
        BY <1>1, <3>1, <4>1, <4>2 DEF Lesser
    <3>6. NextOtId(t, a) = a + x
      BY DEF NextOtId
    <3> HIDE DEF x, m
    <3> QED
      BY <1>1, <3>1, <3>3, <3>4, <3>5, <3>6
  <2> QED
    BY <2>1, <2>2
<1>4. CASE b = OtLim(t)
  BY <1>1, <1>2, <1>3, <1>4
<1>5. CASE b # OtLim(t)
  <2>1. PICK i \in Nat : a = MyStartPos(t) + i * RoundSize
    BY <1>1, <1>2 DEF Point
  <2>2. PICK j \in Nat : b = MyStartPos(t) + j * RoundSize
    BY <1>5 DEF Point
  <2>3. RoundSize \in Nat
    BY GroupOK, TablesOK DEF RoundSize
  <2>4. i * RoundSize < j * RoundSize
    BY <1>1, <2>1, <2>2, <2>3
  <2>5. i < j
    <3> SUFFICES ASSUME j <= i PROVE FALSE
      BY <2>1, <2>2
    <3>1. j * RoundSize <= i * RoundSize
      BY <2>1, <2>2, <2>3
    <3>2. j * RoundSize \in Nat /\ i * RoundSize \in Nat
      BY <2>1, <2>2, <2>3
    <3> QED
      BY <2>4, <3>1, <3>2
  <2>6. i * RoundSize + RoundSize <= j * RoundSize
    <3>1. i + 1 <= j
      BY <2>1, <2>2, <2>5
    <3>2. (i + 1) * RoundSize <= j * RoundSize
      BY <2>1, <2>2, <2>3, <3>1
    <3>3. (i + 1) * RoundSize = i * RoundSize + RoundSize
      BY <2>1, <2>3
    <3> QED
      BY <3>2, <3>3
  <2>7. i * RoundSize \in Nat /\ j * RoundSize \in Nat
    BY <2>1, <2>2, <2>3
  <2>8. a + RoundSize <= b
    BY <1>1, <2>1, <2>2, <2>3, <2>6, <2>7
  <2> QED
    BY <1>1, <1>2, <1>3, <2>3, <2>8
<1> QED
  BY <1>4, <1>5

(* Behind the end of its part a thread has no rounds. *)
LEMMA NoRound ==
  ASSUME inst \in Instances, NEW t \in Threads, NEW o \in Nat, o >= OtLim(t)
  PROVE  CodeWordBits * ProcessedOTs(t, o) = 0 /\ o + OtLen(t, o) = OtLim(t)
<1>1. OtLim(t) \in Nat /\ CodeWordBits \in Nat /\ inst.numOTBlocks \in Nat \ {0}
  BY Part, GroupOK, TablesOK
<1> DEFINE x == OtLim(t) - o
<1>2. x \in Int /\ ~ (x > 0) /\ o + x = OtLim(t)
  BY <1>1
<1>3. CeilDivide(x, CodeWordBits) = 0
  BY <1>2 DEF CeilDivide
<1>4. Blocks(t, o) = 0
  BY <1>1, <1>3 DEF Blocks, Lesser
<1>5. ProcessedOTs(t, o) = 0
  BY <1>1, <1>4 DEF ProcessedOTs
<1>6. OtLen(t, o) = x
  <2>1. OtLen(t, o) = Lesser(x, 0)
    BY <1>5 DEF OtLen
  <2> HIDE DEF x
  <2> QED
    BY <1>2, <2>1 DEF Lesser
<1> QED
  BY <1>1, <1>2, <1>5, <1>6

(* The function that Sent evaluates. *)
SentFrom(t, b) ==
  LET f[o \in 0 .. Wrap] ==
        IF o >= b THEN 0
        ELSE CodeWordBits * ProcessedOTs(t, o) + f[o + OtLen(t, o)]
  IN f

(* The recursive function SentFrom is such a function, so its equation can be used. *)
LEMMA SentFromIs ==
  ASSUME inst \in Instances, NEW t \in Threads, NEW b \in 0 .. Wrap, NEW o \in 0 .. Wrap
  PROVE  SentFrom(t, b)[o] = IF o >= b THEN 0
                             ELSE CodeWordBits * ProcessedOTs(t, o) + SentFrom(t, b)[o + OtLen(t, o)]
<1> DEFINE Rec(f) == f = [i \in 0 .. Wrap |->
                            IF i >= b THEN 0
                            ELSE CodeWordBits * ProcessedOTs(t, i) + f[i + OtLen(t, i)]]
           sent == CHOOSE f : Rec(f)
           lim == OtLim(t)
           m == Lesser(b, lim)
           nx == [i \in 0 .. m - 1 |-> i + OtLen(t, i)]
           w == [i \in 0 .. m - 1 |-> CodeWordBits * ProcessedOTs(t, i)]
<1>1. Wrap \in Nat /\ lim \in 0 .. Wrap
  <2>1. Wrap \in Nat /\ lim \in Nat /\ lim <= nOTs /\ nOTs < Wrap /\ nOTs \in Nat
    BY Shares, Part
  <2> HIDE DEF lim
  <2> QED
    BY <2>1
<1>2. m \in 0 .. Wrap /\ m <= b /\ m <= lim /\ (m = b \/ m = lim)
  <2> HIDE DEF lim
  <2> QED
    BY <1>1 DEF Lesser
<1>3. \A i \in 0 .. m - 1 : nx[i] \in i + 1 .. Wrap
  <2> SUFFICES ASSUME NEW i \in 0 .. m - 1 PROVE nx[i] \in i + 1 .. Wrap
    OBVIOUS
  <2> HIDE DEF m, lim
  <2>1. i \in Nat /\ i < lim
    BY <1>1, <1>2
  <2>2. NextOtId(t, i) \in Nat /\ i < NextOtId(t, i) /\ NextOtId(t, i) <= lim
    BY <2>1, Round DEF lim
  <2>3. nx[i] = NextOtId(t, i)
    BY DEF NextOtId
  <2> HIDE DEF nx
  <2> QED
    BY <1>1, <2>1, <2>2, <2>3
<1>4. PICK g : IsChain(g, w, nx, m, 0, Wrap)
  <2> HIDE DEF m, nx, w
  <2> QED
    BY <1>1, <1>2, <1>3, ChainExists
<1>5. g = [i \in 0 .. Wrap |-> g[i]]
  BY <1>4 DEF IsChain
<1>6. ASSUME NEW i \in 0 .. Wrap
      PROVE  g[i] = IF i >= b THEN 0 ELSE CodeWordBits * ProcessedOTs(t, i) + g[i + OtLen(t, i)]
  <2>1. g[i] = IF i >= m THEN 0 ELSE w[i] + g[nx[i]]
    BY <1>4, <1>6 DEF IsChain
  <2>2. CASE i >= b
    <3> HIDE DEF m
    <3> QED
      BY <1>1, <1>2, <2>1, <2>2
  <2>3. CASE ~ (i >= b) /\ i < m
    <3>1. i \in 0 .. m - 1
      <4> HIDE DEF m
      <4> QED
        BY <1>2, <1>6, <2>3
    <3>2. w[i] = CodeWordBits * ProcessedOTs(t, i) /\ nx[i] = i + OtLen(t, i)
      BY <3>1
    <3>3. ~ (i >= m)
      <4> HIDE DEF m
      <4> QED
        BY <1>2, <2>3
    <3> HIDE DEF w, nx
    <3> QED
      BY <2>1, <2>3, <3>2, <3>3
  <2>4. CASE ~ (i >= b) /\ ~ (i < m)
    <3> HIDE DEF m, lim, nx, w
    <3>1. m = lim /\ i >= lim /\ i >= m /\ i \in Nat
      BY <1>1, <1>2, <1>6, <2>4
    <3>2. g[lim] = 0
      BY <1>1, <1>4, <3>1 DEF IsChain
    <3>3. CodeWordBits * ProcessedOTs(t, i) = 0 /\ i + OtLen(t, i) = lim
      BY <3>1, NoRound DEF lim
    <3>4. g[i] = 0
      BY <2>1, <3>1
    <3>5. CodeWordBits * ProcessedOTs(t, i) + g[i + OtLen(t, i)] = 0
      BY <3>2, <3>3
    <3> QED
      BY <2>4, <3>4, <3>5
  <2> QED
    BY <2>2, <2>3, <2>4
<1>7. \E f : Rec(f)
  <2>1. Rec(g)
    BY <1>5, <1>6
  <2> HIDE DEF Rec
  <2> QED
    BY <2>1
<1>8. Rec(sent)
  <2> HIDE DEF Rec
  <2> QED
    BY <1>7, Zenon
<1>9. SentFrom(t, b) = sent
  BY Zenon DEF SentFrom
<1> HIDE DEF sent
<1>10. sent[o] = IF o >= b THEN 0 ELSE CodeWordBits * ProcessedOTs(t, o) + sent[o + OtLen(t, o)]
  BY <1>8
<1> QED
  BY <1>9, <1>10

(* What Sent adds up is the bits between the two points: were there points for which it is
   not, two of them as near to each other as any would be followed by nearer ones. *)
LEMMA SentIsBits ==
  ASSUME inst \in Instances, NEW t \in Threads, NEW a, NEW b, Point(t, a), Point(t, b), a <= b
  PROVE  Sent(t, a, b) = Bits(t, b) - Bits(t, a)
<1> DEFINE Wrong(o) == Point(t, o) /\ o <= b /\ SentFrom(t, b)[o] # Bits(t, b) - Bits(t, o)
           T == {d \in 0 .. b : Wrong(b - d)}
<1>1. a \in Nat /\ b \in Nat
  BY DEF Point
<1>2. b \in 0 .. Wrap /\ Wrap \in Nat /\ MyStartPos(t) \in Nat /\ OtLim(t) \in Nat
  <2>1. /\ Wrap \in Nat /\ OtLim(t) \in Nat /\ OtLim(t) <= nOTs /\ nOTs < Wrap /\ nOTs \in Nat
        /\ MyStartPos(t) \in Nat /\ MyStartPos(t) + MyNumOTs < Wrap /\ MyNumOTs \in Nat
    BY Shares, Part
  <2>2. b = MyStartPos(t) \/ b <= OtLim(t)
    BY DEF Point
  <2> QED
    BY <1>1, <2>1, <2>2
<1>3. Sent(t, a, b) = SentFrom(t, b)[a]
  BY Zenon DEF Sent, SentFrom
<1>4. Bits(t, b) \in Int
  <2>1. CeilDivide(b - MyStartPos(t), CodeWordBits) \in Int
    BY <1>1, <1>2, GroupOK DEF CeilDivide
  <2> QED
    BY <2>1, GroupOK DEF Bits
<1> SUFFICES ASSUME Wrong(a) PROVE FALSE
  BY <1>3
<1>5. T \subseteq Nat /\ T # {}
  <2>1. b - a \in 0 .. b /\ b - (b - a) = a
    BY <1>1
  <2> HIDE DEF Wrong
  <2> QED
    BY <2>1
<1>6. PICK x \in T : \A y \in T : x <= y
  BY <1>5, Least
<1>7. PICK o : o = b - x
  OBVIOUS
<1>8. x \in 0 .. b /\ Wrong(o)
  BY <1>6, <1>7
<1>9. o \in Nat /\ Point(t, o) /\ o <= b /\ SentFrom(t, b)[o] # Bits(t, b) - Bits(t, o)
  BY <1>1, <1>7, <1>8
<1> HIDE DEF Wrong
<1>10. o \in 0 .. Wrap
  BY <1>1, <1>2, <1>9
<1>11. SentFrom(t, b)[o] = IF o >= b THEN 0
                           ELSE CodeWordBits * ProcessedOTs(t, o) + SentFrom(t, b)[o + OtLen(t, o)]
  BY <1>2, <1>10, SentFromIs
<1>12. CASE o = b
  <2>1. SentFrom(t, b)[o] = 0
    BY <1>1, <1>9, <1>11, <1>12
  <2> QED
    BY <1>4, <1>9, <1>12, <2>1
<1>13. CASE o # b
  <2>1. PICK v, n : v = NextOtId(t, o) /\ n = CodeWordBits * ProcessedOTs(t, o)
    OBVIOUS
  <2>2. o < b
    BY <1>1, <1>9, <1>13
  <2>3. o < OtLim(t) /\ v <= b /\ o < v /\ v \in Nat
    BY <1>9, <2>1, <2>2, PointAbove
  <2>4. Point(t, v)
    BY <1>9, <2>1, <2>3, PointNext
  <2>5. b - v \in 0 .. b /\ b - (b - v) = v /\ b - v < x /\ b - v \in Nat /\ x \in Nat
    BY <1>1, <1>7, <1>8, <1>9, <2>3
  <2>6. b - v \notin T
    BY <1>6, <2>5
  <2>7. ~ Wrong(v)
    BY <2>5, <2>6
  <2>8. SentFrom(t, b)[v] = Bits(t, b) - Bits(t, v)
    BY <2>3, <2>4, <2>7 DEF Wrong
  <2>9. SentFrom(t, b)[o] = n + SentFrom(t, b)[v]
    BY <1>1, <1>9, <1>11, <2>1, <2>2 DEF NextOtId
  <2>10. Bits(t, o) \in Nat /\ Bits(t, v) \in Nat /\ n \in Nat /\ Bits(t, v) = Bits(t, o) + n
    BY <1>9, <2>1, <2>3, BitsNext
  <2> QED
    BY <1>4, <1>9, <2>8, <2>9, <2>10
<1> QED
  BY <1>12, <1>13

(***************************************************************************)
(* What is on its way to the threads of the server.                        *)
(***************************************************************************)

LEMMA StaticAt ==
  ASSUME inst' = inst
  PROVE  /\ Threads' = Threads
         /\ \A t, s : SentAt(t, s)' = SentAt(t, s) /\ TakenAt(t, s)' = TakenAt(t, s)
         /\ \A t, o : Bits(t, o)' = Bits(t, o)
<1>1. Threads' = Threads
  BY Static
<1>2. \A t : MyStartPos(t)' = MyStartPos(t)
  BY StaticParts
<1>3. \A t, o : NextOtId(t, o)' = NextOtId(t, o)
  BY StaticParts
<1>4. \A t, s : SentAt(t, s)' = SentAt(t, s)
  BY <1>2 DEF SentAt
<1>5. \A t, s : TakenAt(t, s)' = TakenAt(t, s)
  BY <1>2, <1>3 DEF TakenAt, Active
<1>6. \A t, o : Bits(t, o)' = Bits(t, o)
  BY <1>2 DEF Bits
<1> QED
  BY <1>1, <1>4, <1>5, <1>6

(* The counts at one thread of the server. *)
ThreadUnderway(t, s, c, len) ==
  LET a == TakenAt(t, s)
      b == SentAt(t, c)
  IN a <= b /\ len = Bits(t, b) - Bits(t, a)

(* What is under way, for each thread. *)
LEMMA UnderwayParts ==
  Underway <=>
    /\ main[SERVER] \in ServerBase => \A t \in Threads : t # 0 => chan[SERVER][t] = <<>>
    /\ main[SERVER] \notin ServerBase =>
         \A t \in Threads : ThreadUnderway(t, th[SERVER][t], th[CLIENT][t], Len(chan[SERVER][t]))
BY DEF Underway, ThreadUnderway

(* The same for the next state. *)
LEMMA UnderwayNext ==
  ASSUME inst' = inst,
         main'[SERVER] \in ServerBase => \A t \in Threads : t # 0 => chan'[SERVER][t] = <<>>,
         main'[SERVER] \notin ServerBase =>
           \A t \in Threads : ThreadUnderway(t, th'[SERVER][t], th'[CLIENT][t], Len(chan'[SERVER][t]))
  PROVE  Underway'
<1>1. Threads' = Threads /\ ServerBase' = ServerBase
  BY StaticAt DEF ServerBase
<1>2. \A t, s : SentAt(t, s)' = SentAt(t, s) /\ TakenAt(t, s)' = TakenAt(t, s)
  BY StaticAt
<1>3. \A t, o : Bits(t, o)' = Bits(t, o)
  BY StaticAt
<1>4. ASSUME main'[SERVER] \notin ServerBase, NEW t \in Threads
      PROVE  (LET a == TakenAt(t, th[SERVER][t])
                  b == SentAt(t, th[CLIENT][t])
              IN a <= b /\ Len(chan[SERVER][t]) = Bits(t, b) - Bits(t, a))'
  <2>1. PICK s, c, len : s = th'[SERVER][t] /\ c = th'[CLIENT][t] /\ len = Len(chan'[SERVER][t])
    OBVIOUS
  <2>2. PICK a, b : a = TakenAt(t, s) /\ b = SentAt(t, c)
    OBVIOUS
  <2>3. a <= b /\ len = Bits(t, b) - Bits(t, a)
    BY <1>4, <2>1, <2>2 DEF ThreadUnderway
  <2>4. TakenAt(t, th[SERVER][t])' = a /\ SentAt(t, th[CLIENT][t])' = b
    <3>1. TakenAt(t, th[SERVER][t])' = TakenAt(t, s)'
      BY <2>1 DEF TakenAt
    <3>2. SentAt(t, th[CLIENT][t])' = SentAt(t, c)'
      BY <2>1 DEF SentAt
    <3> QED
      BY <1>2, <2>2, <3>1, <3>2
  <2>5. Bits(t, TakenAt(t, th[SERVER][t]))' = Bits(t, a)
    <3>1. Bits(t, TakenAt(t, th[SERVER][t]))' = Bits(t, a)'
      BY <2>4 DEF Bits
    <3> QED
      BY <1>3, <3>1
  <2>6. Bits(t, SentAt(t, th[CLIENT][t]))' = Bits(t, b)
    <3>1. Bits(t, SentAt(t, th[CLIENT][t]))' = Bits(t, b)'
      BY <2>4 DEF Bits
    <3> QED
      BY <1>3, <3>1
  <2> QED
    BY <2>1, <2>3, <2>4, <2>5, <2>6
<1> QED
  BY <1>1, <1>4 DEF Underway

(* A thread that has come to where it was before, in one state or another. *)
LEMMA UnderwayStays ==
  ASSUME inst' = inst, Underway, main'[SERVER] \in ServerBase <=> main[SERVER] \in ServerBase,
         \A t \in Threads : t # 0 \/ main[SERVER] \notin ServerBase => chan'[SERVER][t] = chan[SERVER][t],
         \A t \in Threads : TakenAt(t, th'[SERVER][t]) = TakenAt(t, th[SERVER][t]),
         \A t \in Threads : SentAt(t, th'[CLIENT][t]) = SentAt(t, th[CLIENT][t])
  PROVE  Underway'
<1>1. ASSUME NEW t \in Threads, main'[SERVER] \notin ServerBase
      PROVE  ThreadUnderway(t, th'[SERVER][t], th'[CLIENT][t], Len(chan'[SERVER][t]))
  <2>1. ThreadUnderway(t, th[SERVER][t], th[CLIENT][t], Len(chan[SERVER][t]))
    BY <1>1, UnderwayParts
  <2>2. chan'[SERVER][t] = chan[SERVER][t]
    BY <1>1
  <2> QED
    BY <2>1, <2>2 DEF ThreadUnderway
<1>2. main'[SERVER] \in ServerBase => \A t \in Threads : t # 0 => chan'[SERVER][t] = <<>>
  BY UnderwayParts
<1> QED
  BY <1>1, <1>2, UnderwayNext

(* A step of a thread that neither sends nor takes leaves the tally alone. *)
LEMMA ThreadTally ==
  ASSUME inst' = inst, main' = main, chan' = chan, Underway, NEW p \in Party, NEW t \in Threads,
         \A q \in Party, u \in Threads : (q # p \/ u # t) => th'[q][u] = th[q][u],
         p = SERVER => TakenAt(t, th'[p][t]) = TakenAt(t, th[p][t]),
         p = CLIENT => SentAt(t, th'[p][t]) = SentAt(t, th[p][t])
  PROVE  Underway'
<1>1. ASSUME NEW u \in Threads
      PROVE  TakenAt(u, th'[SERVER][u]) = TakenAt(u, th[SERVER][u])
  <2>1. CASE p = SERVER /\ u = t
    BY <2>1
  <2>2. CASE ~ (p = SERVER /\ u = t)
    BY <2>2, Parties
  <2> QED
    BY <2>1, <2>2
<1>2. ASSUME NEW u \in Threads
      PROVE  SentAt(u, th'[CLIENT][u]) = SentAt(u, th[CLIENT][u])
  <2>1. CASE p = CLIENT /\ u = t
    BY <2>1
  <2>2. CASE ~ (p = CLIENT /\ u = t)
    BY <2>2, Parties
  <2> QED
    BY <2>1, <2>2
<1> QED
  BY <1>1, <1>2, UnderwayStays

(* The points at which the two threads are. *)
LEMMA AtPoints ==
  ASSUME IInv, NEW t \in Threads
  PROVE  /\ Point(t, SentAt(t, th[CLIENT][t]))
         /\ Point(t, TakenAt(t, th[SERVER][t]))
<1>1. inst \in Instances /\ ThreadOK(CLIENT, t, th[CLIENT][t]) /\ ThreadOK(SERVER, t, th[SERVER][t])
  BY Parties DEF IInv, KeyInv, BaseInv, Together, ThreadsOK
<1>2. Point(t, MyStartPos(t))
  BY <1>1, PointFirst
<1>3. ASSUME NEW s, s.st # "none", Point(t, s.ot_id), Active(s) => s.ot_id < OtLim(t)
      PROVE  Point(t, TakenAt(t, s))
  <2>1. Active(s) => Point(t, NextOtId(t, s.ot_id))
    BY <1>1, <1>3, PointNext
  <2> QED
    BY <1>3, <2>1 DEF TakenAt
<1>4. Point(t, SentAt(t, th[CLIENT][t]))
  BY <1>1, <1>2 DEF SentAt, ThreadOK
<1>5. Point(t, TakenAt(t, th[SERVER][t]))
  <2>1. CASE th[SERVER][t].st = "none"
    BY <1>2, <2>1 DEF TakenAt
  <2>2. CASE th[SERVER][t].st # "none"
    BY <1>1, <1>3, <2>2 DEF ThreadOK
  <2> QED
    BY <2>1, <2>2
<1> QED
  BY <1>4, <1>5

(* A step on socket 0 leaves the other sockets alone. *)
LEMMA ElsewhereStays ==
  ASSUME Channels, NEW q \in Party, NEW r, 0 \in Threads, chan' = Put(chan, q, 0, r)
  PROVE  /\ \A t \in Threads : t # 0 => chan'[SERVER][t] = chan[SERVER][t]
         /\ q # SERVER => chan'[SERVER] = chan[SERVER]
<1> DEFINE b == Put(chan, q, 0, r)
<1>1. TableOf(chan, Party, Threads) /\ SERVER \in Party
  BY Parties DEF Channels, IsTable
<1>2. /\ \A p \in Party, t \in Threads : b[p][t] = IF p = q /\ t = 0 THEN r ELSE chan[p][t]
      /\ \A p \in Party : p # q => b[p] = chan[p]
  BY <1>1, Placed
<1>3. chan' = b
  OBVIOUS
<1> HIDE DEF b
<1> QED
  BY <1>1, <1>2, <1>3

(* The steps before the extension keep the tally, *)
LEMMA BaseUnderway ==
  ASSUME IInv, Underway, BaseStep
  PROVE  Underway'
<1>1. /\ BaseInv /\ main \in [Party -> States] /\ Together /\ Channels /\ inst \in Instances /\ Asleep
      /\ UNCHANGED <<idx, th, running, hashBuf, out>>
      /\ 0 \in Threads /\ SERVER \in Party /\ CLIENT \in Party /\ SERVER # CLIENT
  BY Parties, Sizes DEF IInv, KeyInv, BaseInv, Together, BaseStep
<1>2. ASSUME NEW p \in Party, NEW q \in Party, NEW r, NEW x \in States, inst' = inst,
             chan' = Put(chan, q, 0, r), main' = [main EXCEPT ![p] = x],
             q = SERVER => main[SERVER] \in ServerBase,
             p = SERVER => main[SERVER] \in ServerBase /\ x \in ServerBase
      PROVE  Underway'
  <2>1. /\ \A t \in Threads : t # 0 => chan'[SERVER][t] = chan[SERVER][t]
        /\ q # SERVER => chan'[SERVER] = chan[SERVER]
    BY <1>1, <1>2, ElsewhereStays
  <2>2. main'[SERVER] = IF p = SERVER THEN x ELSE main[SERVER]
    BY <1>1, <1>2, MainMoves
  <2>3. \A t \in Threads : t # 0 \/ main[SERVER] \notin ServerBase => chan'[SERVER][t] = chan[SERVER][t]
    BY <1>2, <2>1
  <2> QED
    BY <1>1, <1>2, <2>2, <2>3, UnderwayStays
<1>3. ASSUME NEW p \in Party, SendSeed(p) PROVE Underway'
  <2>1. /\ inst' = inst /\ main[p] = "start" /\ main' = [main EXCEPT ![p] = "seed"]
        /\ chan' = Put(chan, Other(p), 0, chan[Other(p)][0] \o [w \in 1 .. KeyWords |-> Drawn(p)[w - 1]])
    BY <1>3, Zenon DEF SendSeed, Put
  <2>2. Other(p) = SERVER => main[SERVER] \in ServerBase
    BY <1>1, <2>1, Parties DEF Together
  <2>3. "seed" \in States /\ "seed" \in ServerBase /\ "start" \in ServerBase
    BY DEF States, ServerBase
  <2> QED
    <3>1. PICK q, r : q = Other(p) /\ r = chan[q][0] \o [w \in 1 .. KeyWords |-> Drawn(p)[w - 1]]
      OBVIOUS
    <3>2. q \in Party /\ chan' = Put(chan, q, 0, r)
      BY <2>1, <3>1, Parties
    <3>3. p = SERVER => main[SERVER] \in ServerBase
      BY <2>1, <2>3
    <3> QED
      BY <1>2, <2>1, <2>2, <2>3, <3>1, <3>2, <3>3
<1>4. ASSUME NEW p \in Party, ReceiveSeed(p) PROVE Underway'
  <2>1. /\ inst' = inst /\ main[p] = "seed" /\ main' = [main EXCEPT ![p] = "base"]
        /\ chan' = Put(chan, p, 0, SubSeq(chan[p][0], KeyWords + 1, Len(chan[p][0])))
    BY <1>4, Zenon DEF ReceiveSeed, Put
  <2>2. "base" \in States /\ "base" \in ServerBase /\ "seed" \in ServerBase
    BY DEF States, ServerBase
  <2> QED
    BY <1>2, <2>1, <2>2
<1>5. ASSUME SendPoints PROVE Underway'
  <2>1. /\ inst' = inst /\ main[CLIENT] = "base" /\ main' = [main EXCEPT ![CLIENT] = "keys"]
        /\ chan' = Put(chan, SERVER, 0, chan[SERVER][0] \o <<inst.alpha, inst.tmp>>)
    BY <1>5, Zenon DEF SendPoints, Put
  <2>2. main[SERVER] \in ServerBase
    BY <1>1, <2>1 DEF Together
  <2>3. "keys" \in States
    BY DEF States
  <2> QED
    BY <1>1, <1>2, <2>1, <2>2, <2>3
<1>6. ASSUME ReceiveKeys PROVE Underway'
  <2>1. /\ inst' = inst /\ main' = [main EXCEPT ![CLIENT] = "create"]
        /\ chan' = Put(chan, CLIENT, 0, SubSeq(chan[CLIENT][0], CodeWordBits + 1, Len(chan[CLIENT][0])))
    BY <1>6, Zenon DEF ReceiveKeys, Put
  <2>2. "create" \in States
    BY DEF States
  <2> QED
    BY <1>1, <1>2, <2>1, <2>2
<1>7. ASSUME AnswerPoints PROVE Underway'
  <2>1. /\ inst' = inst /\ main[SERVER] = "base" /\ main' = [main EXCEPT ![SERVER] = "create"]
        /\ Len(chan[SERVER][0]) >= 2
    BY <1>7 DEF AnswerPoints
  <2>2. \A t \in Threads : chan'[SERVER][t] = IF t = 0 THEN <<>> ELSE chan[SERVER][t]
    BY <1>1, <1>7, AnswerPointsStep
  <2>3. main[CLIENT] = "keys"
    BY <1>1, <2>1, PointsArrived
  <2>4. ASSUME NEW t \in Threads
        PROVE  ThreadUnderway(t, th'[SERVER][t], th'[CLIENT][t], Len(chan'[SERVER][t]))
    <3>1. chan'[SERVER][t] = <<>>
      BY <2>1, <2>2, UnderwayParts DEF ServerBase
    <3>2. th'[SERVER][t].st = "none" /\ th'[CLIENT][t].st = "none"
      BY <1>1, <2>1, <2>3 DEF Asleep, Begun
    <3>3. MyStartPos(t) \in Nat
      BY <1>1, Part
    <3>4. Bits(t, MyStartPos(t)) = 0
      <4>1. MyStartPos(t) - MyStartPos(t) = 0
        BY <3>3
      <4>2. CeilDivide(MyStartPos(t) - MyStartPos(t), CodeWordBits) = 0
        BY <4>1 DEF CeilDivide
      <4>3. CodeWordBits \in Nat
        BY GroupOK
      <4> QED
        BY <4>2, <4>3 DEF Bits
    <3>5. Len(<<>>) = 0
      OBVIOUS
    <3> QED
      BY <3>1, <3>2, <3>3, <3>4, <3>5 DEF ThreadUnderway, SentAt, TakenAt
  <2>5. main'[SERVER] \notin ServerBase
    BY <1>1, <2>1 DEF ServerBase
  <2> QED
    BY <2>1, <2>4, <2>5, UnderwayNext
<1> QED
  BY <1>3, <1>4, <1>5, <1>6, <1>7 DEF BaseStep, BaseNext, SeedNext

(* so do those of the loops over the threads, *)
LEMMA MainUnderway ==
  ASSUME IInv, Underway, NEW p \in Party, MainStep(p)
  PROVE  Underway'
<1>1. /\ inst \in Instances /\ main \in [Party -> States] /\ Asleep /\ MainOK /\ InRange
  BY DEF IInv, KeyInv, BaseInv, Together
<1>2. /\ inst' = inst /\ chan' = chan
      /\ main[p] \in {"create", "mark", "wait"} /\ main'[p] \in {"create", "mark", "wait", "done"}
      /\ \A q \in Party : q # p => main'[q] = main[q]
  BY <1>1 DEF MainStep, NoOTs, CreateThread, MarkRunning, WaitThread
<1>3. main'[SERVER] \in ServerBase <=> main[SERVER] \in ServerBase
  BY <1>2, Parties DEF ServerBase
<1>4. CASE CreateThread(p)
  <2> DEFINE t == idx[p]
             s == th[p][t]
  <2>1. t \in Threads
    <3>1. idx[p] \in Nat /\ idx[p] < inst.threads /\ inst.threads \in Nat
      BY <1>1, <1>2, Sizes DEF InRange
    <3> QED
      BY <3>1 DEF Threads
  <2>2. Changed(p, t, "ready", MyStartPos(t), s.jobs, s.pos, s.snd)
    BY <1>1, <1>2, <1>4, <2>1, CreateThreadIs, BecomesChanged
  <2>3. s.st = "none"
    <3>1. ~ Created(p, t)
      <4>1. t \in Nat /\ main[p] = "create"
        BY <1>1, <1>4 DEF InRange, CreateThread
      <4> QED
        BY <4>1 DEF Created
    <3> QED
      BY <1>1, <2>1, <3>1 DEF MainOK
  <2>4. th'[p][t].st = "ready" /\ th'[p][t].ot_id = MyStartPos(t)
    BY <2>2 DEF Changed
  <2>5. /\ TakenAt(t, th'[p][t]) = TakenAt(t, th[p][t])
        /\ SentAt(t, th'[p][t]) = SentAt(t, th[p][t])
    BY <2>3, <2>4 DEF TakenAt, SentAt, Active
  <2>6. \A q \in Party, u \in Threads : (q # p \/ u # t) => th'[q][u] = th[q][u]
    BY <2>2 DEF Changed
  <2> HIDE DEF s
  <2>7. \A u \in Threads : /\ TakenAt(u, th'[SERVER][u]) = TakenAt(u, th[SERVER][u])
                           /\ SentAt(u, th'[CLIENT][u]) = SentAt(u, th[CLIENT][u])
    <3> SUFFICES ASSUME NEW u \in Threads
                 PROVE  /\ TakenAt(u, th'[SERVER][u]) = TakenAt(u, th[SERVER][u])
                        /\ SentAt(u, th'[CLIENT][u]) = SentAt(u, th[CLIENT][u])
      OBVIOUS
    <3>1. TakenAt(u, th'[SERVER][u]) = TakenAt(u, th[SERVER][u])
      <4>1. CASE p = SERVER /\ u = t
        BY <2>5, <4>1
      <4>2. CASE ~ (p = SERVER /\ u = t)
        BY <2>6, <4>2, Parties
      <4> QED
        BY <4>1, <4>2
    <3>2. SentAt(u, th'[CLIENT][u]) = SentAt(u, th[CLIENT][u])
      <4>1. CASE p = CLIENT /\ u = t
        BY <2>5, <4>1
      <4>2. CASE ~ (p = CLIENT /\ u = t)
        BY <2>6, <4>2, Parties
      <4> QED
        BY <4>1, <4>2
    <3> QED
      BY <3>1, <3>2
  <2> QED
    BY <1>2, <1>3, <2>7, UnderwayStays
<1>5. CASE ~ CreateThread(p)
  <2>1. th' = th
    BY <1>5 DEF MainStep, NoOTs, MarkRunning, WaitThread
  <2> QED
    BY <1>2, <1>3, <2>1, UnderwayStays
<1> QED
  BY <1>4, <1>5

(* a round of the client, which sends what it has counted, *)
LEMMA ClientRoundUnderway ==
  ASSUME IInv, Underway, NEW t \in Threads, ClientRound(t)
  PROVE  Underway'
<1> DEFINE s == th[CLIENT][t]
           columns == ProcessedOTs(t, s.ot_id)
           n == OtLen(t, s.ot_id)
<1>1. /\ inst' = inst /\ main' = main /\ chan' = chan /\ s.st = "ready"
      /\ Asleep /\ CLIENT \in Party /\ CLIENT # SERVER
  BY Parties DEF ClientRound, UnchangedMain, IInv, KeyInv, BaseInv
<1>2. Changed(CLIENT, t, "hash", s.ot_id, ClientJobs(s.ot_id, columns, n), 1,
              MatrixSnd(s.ot_id, columns, n))
  BY <1>1, ClientRoundIs, BecomesChanged
<1>3. /\ th'[CLIENT][t].st = "hash" /\ th'[CLIENT][t].ot_id = s.ot_id
      /\ \A q \in Party, u \in Threads : (q # CLIENT \/ u # t) => th'[q][u] = th[q][u]
  BY <1>2 DEF Changed
<1>4. SentAt(t, th'[CLIENT][t]) = SentAt(t, th[CLIENT][t])
  BY <1>1, <1>3 DEF SentAt
<1> QED
  BY <1>1, <1>3, <1>4, ThreadTally

(* hashing, *)
LEMMA HashIntoUnderway ==
  ASSUME IInv, Underway, NEW p \in Party, NEW t \in Threads, HashInto(p, t)
  PROVE  Underway'
<1> DEFINE s == th[p][t]
<1>1. inst' = inst /\ main' = main /\ chan' = chan /\ s.st = "hash" /\ Asleep
  BY DEF HashInto, UnchangedMain, IInv, KeyInv, BaseInv
<1>2. Changed(p, t, "copy", s.ot_id, s.jobs, s.pos, s.snd)
  BY <1>1, HashIntoIs, BecomesChanged
<1>3. /\ th'[p][t].st = "copy" /\ th'[p][t].ot_id = s.ot_id
      /\ \A q \in Party, u \in Threads : (q # p \/ u # t) => th'[q][u] = th[q][u]
  BY <1>2 DEF Changed
<1>4. /\ SentAt(t, th'[p][t]) = SentAt(t, th[p][t])
      /\ TakenAt(t, th'[p][t]) = TakenAt(t, th[p][t])
  BY <1>1, <1>3 DEF SentAt, TakenAt, Active
<1> QED
  BY <1>1, <1>3, <1>4, ThreadTally

(* copying out, *)
LEMMA CopyOutUnderway ==
  ASSUME IInv, Underway, NEW p \in Party, NEW t \in Threads, CopyOut(p, t)
  PROVE  Underway'
<1> DEFINE s == th[p][t]
<1>1. inst' = inst /\ main' = main /\ chan' = chan /\ s.st = "copy" /\ Asleep
  BY DEF CopyOut, UnchangedMain, IInv, KeyInv, BaseInv
<1>2. Changed(p, t, "hash", s.ot_id, s.jobs, s.pos + 1, s.snd)
  BY <1>1, CopyOutIs, BecomesChanged
<1>3. /\ th'[p][t].st = "hash" /\ th'[p][t].ot_id = s.ot_id
      /\ \A q \in Party, u \in Threads : (q # p \/ u # t) => th'[q][u] = th[q][u]
  BY <1>2 DEF Changed
<1>4. /\ SentAt(t, th'[p][t]) = SentAt(t, th[p][t])
      /\ TakenAt(t, th'[p][t]) = TakenAt(t, th[p][t])
  BY <1>1, <1>3 DEF SentAt, TakenAt, Active
<1> QED
  BY <1>1, <1>3, <1>4, ThreadTally

(* and the end of a thread. *)
LEMMA EndThreadUnderway ==
  ASSUME IInv, Underway, NEW p \in Party, NEW t \in Threads, EndThread(p, t)
  PROVE  Underway'
<1> DEFINE s == th[p][t]
<1>1. inst' = inst /\ main' = main /\ chan' = chan /\ s.st = "ready" /\ Asleep
  BY DEF EndThread, UnchangedMain, IInv, KeyInv, BaseInv
<1>2. Changed(p, t, "ended", s.ot_id, s.jobs, s.pos, s.snd)
  BY <1>1, EndThreadIs, BecomesChanged
<1>3. /\ th'[p][t].st = "ended" /\ th'[p][t].ot_id = s.ot_id
      /\ \A q \in Party, u \in Threads : (q # p \/ u # t) => th'[q][u] = th[q][u]
  BY <1>2 DEF Changed
<1>4. /\ SentAt(t, th'[p][t]) = SentAt(t, th[p][t])
      /\ TakenAt(t, th'[p][t]) = TakenAt(t, th[p][t])
  BY <1>1, <1>3 DEF SentAt, TakenAt, Active
<1> QED
  BY <1>1, <1>3, <1>4, ThreadTally

(* The client sends the matrix of its round at the end of the round. *)
LEMMA EndRoundUnderway ==
  ASSUME IInv, Underway, NEW p \in Party, NEW t \in Threads, EndRound(p, t)
  PROVE  Underway'
<1> DEFINE s == th[p][t]
           o == s.ot_id
           snd == s.snd
           list == [n \in 1 .. Cardinality(DOMAIN snd) |-> snd[n - 1]]
<1>1. /\ inst' = inst /\ main' = main /\ s.st = "hash"
      /\ chan' = IF p = CLIENT THEN Put(chan, SERVER, t, chan[SERVER][t] \o list) ELSE chan
  BY Zenon DEF EndRound, UnchangedMain, Put
<1>2. /\ inst \in Instances /\ Asleep /\ Channels /\ ThreadOK(p, t, s)
      /\ SERVER \in Party /\ CLIENT \in Party /\ SERVER # CLIENT
  BY Parties DEF IInv, KeyInv, BaseInv, Together, ThreadsOK
<1>3. Changed(p, t, "ready", NextOtId(t, o), Idle.jobs, Idle.pos, Idle.snd)
  BY <1>1, <1>2, EndRoundIs, BecomesChanged
<1>4. /\ th'[p][t].st = "ready" /\ th'[p][t].ot_id = NextOtId(t, o)
      /\ \A q \in Party, u \in Threads : (q # p \/ u # t) => th'[q][u] = th[q][u]
  BY <1>3 DEF Changed
<1>5. CASE p # CLIENT
  <2>1. TakenAt(t, th'[p][t]) = TakenAt(t, th[p][t])
    BY <1>1, <1>4 DEF TakenAt, Active
  <2> QED
    BY <1>1, <1>4, <1>5, <2>1, ThreadTally
<1>6. CASE p = CLIENT
  <2>1. /\ Point(t, o) /\ o \in Nat /\ o < OtLim(t)
        /\ DOMAIN snd = 0 .. CodeWordBits * ProcessedOTs(t, o) - 1
    BY <1>1, <1>2, <1>6 DEF ThreadOK, Active, Point
  <2>2. main[SERVER] \notin ServerBase
    BY <1>1, Awake
  <2> DEFINE m == CodeWordBits * ProcessedOTs(t, o)
             old == chan[SERVER][t]
  <2>3. m \in Nat /\ Bits(t, NextOtId(t, o)) = Bits(t, o) + m
        /\ Bits(t, o) \in Nat /\ Bits(t, NextOtId(t, o)) \in Nat
    <3> HIDE DEF o
    <3> QED
      BY <1>2, <2>1, BitsNext
  <2>4. IsSeq(list) /\ Len(list) = m
    <3> HIDE DEF snd, m
    <3> QED
      BY <2>1, <2>3, Enumerated DEF m
  <2>5. IsSeq(old) /\ Len(old) \in Nat
    BY <1>2, SeqFacts DEF Channels
  <2> DEFINE r == old \o list
  <2>6. IsSeq(r) /\ Len(r) = Len(old) + m
    <3> HIDE DEF list, old, m
    <3> QED
      BY <2>4, <2>5, Joined
  <2>7. \A q \in Party, u \in Threads : chan'[q][u] = IF q = SERVER /\ u = t THEN r ELSE chan[q][u]
    <3>1. chan' = Put(chan, SERVER, t, r)
      BY <1>1, <1>6
    <3> HIDE DEF r
    <3> QED
      BY <1>1, <1>2, <2>6, <3>1, ChannelPlaced
  <2>8. PICK a, b, v : a = TakenAt(t, th[SERVER][t]) /\ b = o /\ v = NextOtId(t, o)
    BY Zenon
  <2>9. SentAt(t, th[CLIENT][t]) = b /\ SentAt(t, th'[CLIENT][t]) = v
    BY <1>1, <1>4, <1>6, <2>8 DEF SentAt
  <2>10. a <= b /\ Len(old) = Bits(t, b) - Bits(t, a)
    BY <2>2, <2>8, <2>9, UnderwayParts DEF ThreadUnderway
  <2>11. a \in Nat /\ b \in Nat /\ v \in Nat /\ b < v /\ Bits(t, a) \in Int
    <3>1. a \in Nat
      BY <2>8, AtPoints DEF Point
    <3>2. b \in Nat /\ v \in Nat /\ b < v
      BY <1>2, <2>1, <2>8, Round
    <3>3. Bits(t, a) \in Int
      <4>1. MyStartPos(t) \in Nat /\ CodeWordBits \in Nat \ {0}
        BY <1>2, Part, GroupOK
      <4>2. CeilDivide(a - MyStartPos(t), CodeWordBits) \in Int
        BY <3>1, <4>1 DEF CeilDivide
      <4> QED
        BY <4>1, <4>2 DEF Bits
    <3> QED
      BY <3>1, <3>2, <3>3
  <2>12. PICK len : len = Len(chan'[SERVER][t])
    OBVIOUS
  <2>13. len = Bits(t, v) - Bits(t, a) /\ a <= v
    <3>1. len = Len(old) + m
      BY <1>2, <2>6, <2>7, <2>12
    <3> HIDE DEF old, m, o
    <3>2. Bits(t, v) = Bits(t, b) + m /\ m \in Nat /\ Bits(t, b) \in Nat
      BY <2>3, <2>8
    <3>3. PICK x, y : x = Bits(t, b) /\ y = Bits(t, a)
      OBVIOUS
    <3>4. x \in Nat /\ y \in Int /\ Len(old) = x - y /\ Bits(t, v) = x + m
      BY <2>10, <2>11, <3>2, <3>3
    <3>5. len = Bits(t, v) - Bits(t, a)
      BY <3>1, <3>2, <3>3, <3>4
    <3>6. a <= v
      BY <2>10, <2>11
    <3> QED
      BY <3>5, <3>6
  <2>14. th'[SERVER][t] = th[SERVER][t]
    BY <1>2, <1>4, <1>6
  <2>15. ThreadUnderway(t, th'[SERVER][t], th'[CLIENT][t], Len(chan'[SERVER][t]))
    BY <2>8, <2>9, <2>12, <2>13, <2>14 DEF ThreadUnderway
  <2>16. ASSUME NEW u \in Threads, u # t
         PROVE  ThreadUnderway(u, th'[SERVER][u], th'[CLIENT][u], Len(chan'[SERVER][u]))
    <3>1. th'[SERVER][u] = th[SERVER][u] /\ th'[CLIENT][u] = th[CLIENT][u] /\ chan'[SERVER][u] = chan[SERVER][u]
      BY <1>2, <1>4, <2>7, <2>16
    <3> QED
      BY <2>2, <3>1, UnderwayParts
  <2> QED
    BY <1>1, <2>2, <2>15, <2>16, UnderwayNext
<1> QED
  BY <1>5, <1>6

(* The server takes the matrix of its round at the beginning of the round. *)
LEMMA ServerRoundUnderway ==
  ASSUME IInv, Underway, NEW t \in Threads, ServerRound(t)
  PROVE  Underway'
<1> DEFINE self == th[SERVER][t]
           o == self.ot_id
           need == Awaited(t, o)
           s == chan[SERVER][t]
           jobs == ServerJobs(SubSeq(s, 1, need), o, ProcessedOTs(t, o), OtLen(t, o))
           rest == SubSeq(s, need + 1, Len(s))
<1>1. /\ inst' = inst /\ main' = main /\ self.st = "ready" /\ o < OtLim(t) /\ Len(s) >= need
      /\ chan' = Put(chan, SERVER, t, rest)
  BY Zenon DEF ServerRound, UnchangedMain, Put
<1>2. /\ inst \in Instances /\ Asleep /\ Channels /\ ThreadOK(SERVER, t, self)
      /\ SERVER \in Party /\ CLIENT \in Party /\ SERVER # CLIENT
  BY Parties DEF IInv, KeyInv, BaseInv, Together, ThreadsOK
<1>3. Changed(SERVER, t, "hash", o, jobs, 1, self.snd)
  BY <1>1, <1>2, ServerRoundIs, BecomesChanged
<1>4. /\ th'[SERVER][t].st = "hash" /\ th'[SERVER][t].ot_id = o
      /\ \A q \in Party, u \in Threads : (q # SERVER \/ u # t) => th'[q][u] = th[q][u]
  BY <1>3 DEF Changed
<1>5. Point(t, o) /\ o \in Nat
  BY <1>1, <1>2 DEF ThreadOK, Point
<1>6. main[SERVER] \notin ServerBase
  BY <1>1, <1>2, Awake
<1>7. PICK a, b, v : a = o /\ b = SentAt(t, th[CLIENT][t]) /\ v = NextOtId(t, o)
  OBVIOUS
<1>8. TakenAt(t, th[SERVER][t]) = a /\ TakenAt(t, th'[SERVER][t]) = v
  BY <1>1, <1>4, <1>7 DEF TakenAt, Active
<1>9. a <= b /\ Len(s) = Bits(t, b) - Bits(t, a)
  BY <1>6, <1>7, <1>8, UnderwayParts DEF ThreadUnderway
<1>10. Point(t, a) /\ Point(t, b) /\ a \in Nat /\ b \in Nat
  <2>1. Point(t, b)
    BY <1>7, AtPoints
  <2> QED
    BY <1>5, <1>7, <2>1 DEF Point
<1>11. need \in Nat \ {0} /\ Bits(t, v) = Bits(t, a) + need /\ Bits(t, a) \in Nat
  <2>1. need = CodeWordBits * ProcessedOTs(t, o)
    BY DEF Awaited
  <2> HIDE DEF need, o
  <2> QED
    BY <1>1, <1>2, <1>5, <1>7, <2>1, BitsNext
<1>12. IsSeq(s) /\ Len(s) \in Nat
  BY <1>2, SeqFacts DEF Channels
<1>13. a # b
  <2> HIDE DEF need, s
  <2>1. a = b => Len(s) = 0
    BY <1>9, <1>11
  <2> QED
    BY <1>1, <1>11, <2>1
<1>14. v <= b
  <2>1. a < b
    BY <1>9, <1>10, <1>13
  <2> QED
    BY <1>2, <1>7, <1>10, <2>1, PointAbove
<1>15. IsSeq(rest) /\ Len(rest) = Len(s) - need
  <2> HIDE DEF s, need
  <2>1. need <= Len(s)
    BY <1>1, <1>11, <1>12
  <2> QED
    BY <1>11, <1>12, <2>1, TakenOff
<1>16. \A q \in Party, u \in Threads : chan'[q][u] = IF q = SERVER /\ u = t THEN rest ELSE chan[q][u]
  <2> HIDE DEF rest
  <2> QED
    BY <1>1, <1>2, <1>15, ChannelPlaced
<1>17. th'[CLIENT][t] = th[CLIENT][t]
  BY <1>2, <1>4
<1>18. ThreadUnderway(t, th'[SERVER][t], th'[CLIENT][t], Len(chan'[SERVER][t]))
  <2>1. PICK len : len = Len(chan'[SERVER][t])
    OBVIOUS
  <2>2. len = Len(s) - need
    BY <1>2, <1>15, <1>16, <2>1
  <2>3. Bits(t, b) \in Int
    <3>1. MyStartPos(t) \in Nat /\ CodeWordBits \in Nat \ {0}
      BY <1>2, Part, GroupOK
    <3>2. CeilDivide(b - MyStartPos(t), CodeWordBits) \in Int
      BY <1>10, <3>1 DEF CeilDivide
    <3> QED
      BY <3>1, <3>2 DEF Bits
  <2>4. len = Bits(t, b) - Bits(t, v)
    <3> HIDE DEF s, need
    <3>1. PICK x, y : x = Bits(t, b) /\ y = Bits(t, a)
      OBVIOUS
    <3>2. x \in Int /\ y \in Nat /\ need \in Nat /\ Len(s) = x - y /\ Bits(t, v) = y + need
      BY <1>9, <1>11, <2>3, <3>1
    <3> QED
      BY <2>2, <3>1, <3>2
  <2> QED
    BY <1>7, <1>8, <1>14, <1>17, <2>1, <2>4 DEF ThreadUnderway
<1>19. ASSUME NEW u \in Threads, u # t
       PROVE  ThreadUnderway(u, th'[SERVER][u], th'[CLIENT][u], Len(chan'[SERVER][u]))
  <2>1. th'[SERVER][u] = th[SERVER][u] /\ th'[CLIENT][u] = th[CLIENT][u] /\ chan'[SERVER][u] = chan[SERVER][u]
    BY <1>2, <1>4, <1>16, <1>19
  <2> QED
    BY <1>6, <2>1, UnderwayParts
<1> QED
  BY <1>1, <1>6, <1>18, <1>19, UnderwayNext

(* Every step keeps the tally. *)
LEMMA UnderwayStep == IInv /\ Underway /\ [Next]_vars => Underway'
<1> SUFFICES ASSUME IInv, Underway, [Next]_vars PROVE Underway'
  OBVIOUS
<1>1. ASSUME NEW p \in Party, NEW t \in Threads, ThreadStep(p, t) PROVE Underway'
  <2>1. CASE p = CLIENT /\ ClientRound(t)
    BY <2>1, ClientRoundUnderway
  <2>2. CASE p = SERVER /\ ServerRound(t)
    BY <2>2, ServerRoundUnderway
  <2>3. CASE HashInto(p, t)
    BY <2>3, HashIntoUnderway
  <2>4. CASE CopyOut(p, t)
    BY <2>4, CopyOutUnderway
  <2>5. CASE EndRound(p, t)
    BY <2>5, EndRoundUnderway
  <2>6. CASE EndThread(p, t)
    BY <2>6, EndThreadUnderway
  <2> QED
    BY <1>1, <2>1, <2>2, <2>3, <2>4, <2>5, <2>6 DEF ThreadStep
<1>2. CASE UNCHANGED vars
  BY <1>2, UnderwayStays DEF vars, baseVars
<1> QED
  BY <1>1, <1>2, BaseUnderway, MainUnderway DEF Next

(* At the start nothing is under way. *)
LEMMA InitUnderway == Init => Underway
<1> SUFFICES ASSUME Init PROVE Underway
  OBVIOUS
<1>1. /\ inst \in Instances /\ main = [p \in Party |-> "start"]
      /\ chan = [p \in Party |-> [t \in Threads |-> <<>>]]
  BY Zenon DEF Init, BaseInit, SeedInit, Threads
<1>2. SERVER \in Party /\ main[SERVER] = "start"
  BY <1>1, Parties
<1>3. \A t \in Threads : chan[SERVER][t] = <<>>
  BY <1>1, <1>2
<1> QED
  BY <1>2, <1>3 DEF Underway, ServerBase

(* The rounds that the two threads of a socket cut their part into are the same, though
   they compute their limits and buffers differently: what is on its way to a thread of
   the server is what its rounds up to the client's ask for, and each round fits into the
   buffers that were made before the first. *)
THEOREM NothingIsLeftOver == Spec => []NothingLeftOver
<1>1. IInv /\ Underway => NothingLeftOver
  <2> SUFFICES ASSUME IInv, Underway, NEW t \in Threads
               PROVE  /\ \A p \in Party :
                           th[p][t].st = "hash" => Blocks(t, th[p][t].ot_id) <= BufferBlocks(p, t)
                      /\ LET c == th[CLIENT][t]
                             s == th[SERVER][t]
                         IN (main[SERVER] \notin {"start", "seed", "base"} /\ c.st # "none") =>
                              Len(chan[SERVER][t]) =
                                Sent(t, IF s.st = "none" THEN MyStartPos(t)
                                        ELSE IF s.st \in {"hash", "copy"} THEN NextOtId(t, s.ot_id)
                                        ELSE s.ot_id,
                                     c.ot_id)
    BY DEF NothingLeftOver
  <2>1. inst \in Instances /\ ThreadsOK
    BY DEF IInv, KeyInv, BaseInv, Together
  <2>2. ASSUME NEW p \in Party, th[p][t].st = "hash"
        PROVE  Blocks(t, th[p][t].ot_id) <= BufferBlocks(p, t)
    <3>1. PICK o : o = th[p][t].ot_id
      OBVIOUS
    <3>2. Point(t, o) /\ o < OtLim(t)
      BY <2>1, <2>2, <3>1 DEF ThreadsOK, ThreadOK, Active
    <3>3. /\ o \in Nat /\ MyStartPos(t) \in Nat /\ OtLim(t) \in Nat /\ MyStartPos(t) <= o
          /\ MyStartPos(t) < OtLim(t) /\ CutNumOTs(t) = OtLim(t) - MyStartPos(t)
          /\ OtLim(t) <= MyStartPos(t) + MyNumOTs /\ MyNumOTs \in Nat
      <4>1. o \in Nat /\ MyStartPos(t) <= o
        BY <3>2 DEF Point
      <4>2. /\ MyStartPos(t) \in Nat /\ OtLim(t) \in Nat /\ MyNumOTs \in Nat /\ nOTs \in Nat
            /\ OtLim(t) = Lesser(MyStartPos(t) + MyNumOTs, nOTs)
            /\ MyStartPos(t) < OtLim(t) => CutNumOTs(t) = OtLim(t) - MyStartPos(t)
        BY <2>1, Part, Shares
      <4>3. OtLim(t) <= MyStartPos(t) + MyNumOTs
        BY <4>2 DEF Lesser
      <4> QED
        BY <3>2, <4>1, <4>2, <4>3
    <3> DEFINE x == OtLim(t) - o
               y == IF p = CLIENT THEN CutNumOTs(t) ELSE MyNumOTs
    <3>4. x \in Nat /\ y \in Nat /\ x <= y
      BY <3>2, <3>3
    <3>5. CodeWordBits \in Nat \ {0} /\ inst.numOTBlocks \in Nat \ {0}
      BY <2>1, GroupOK, TablesOK
    <3>6. Blocks(t, o) = Lesser(inst.numOTBlocks, CeilDivide(x, CodeWordBits))
      BY DEF Blocks
    <3>7. BufferBlocks(p, t) = Lesser(inst.numOTBlocks, CeilDivide(y, CodeWordBits))
      BY DEF BufferBlocks
    <3> HIDE DEF x, y
    <3>8. CeilDivide(x, CodeWordBits) <= CeilDivide(y, CodeWordBits)
      BY <3>4, <3>5, CeilDivideGrows
    <3>9. CeilDivide(x, CodeWordBits) \in Int /\ CeilDivide(y, CodeWordBits) \in Int
      BY <3>4, <3>5 DEF CeilDivide
    <3>10. Blocks(t, o) <= BufferBlocks(p, t)
      BY <3>5, <3>6, <3>7, <3>8, <3>9 DEF Lesser
    <3> QED
      BY <3>1, <3>10
  <2>3. ASSUME main[SERVER] \notin {"start", "seed", "base"}, th[CLIENT][t].st # "none"
        PROVE  Len(chan[SERVER][t]) = Sent(t, TakenAt(t, th[SERVER][t]), th[CLIENT][t].ot_id)
    <3>1. PICK a, b : a = TakenAt(t, th[SERVER][t]) /\ b = SentAt(t, th[CLIENT][t])
      OBVIOUS
    <3>2. Point(t, a) /\ Point(t, b) /\ b = th[CLIENT][t].ot_id
      BY <2>3, <3>1, AtPoints DEF SentAt
    <3>3. a <= b /\ Len(chan[SERVER][t]) = Bits(t, b) - Bits(t, a)
      BY <2>3, <3>1, UnderwayParts DEF ThreadUnderway, ServerBase
    <3>4. Sent(t, a, b) = Bits(t, b) - Bits(t, a)
      BY <2>1, <3>2, <3>3, SentIsBits
    <3> QED
      BY <3>1, <3>2, <3>3, <3>4
  <2> QED
    BY <2>2, <2>3 DEF TakenAt, Active
<1>2. Spec => []IInv
  BY Invariant
<1>3. Spec => []Underway
  <2>1. IInv /\ Underway /\ [Next]_vars => Underway'
    BY UnderwayStep
  <2>2. Init => Underway
    BY InitUnderway
  <2> QED
    BY <1>2, <2>1, <2>2, PTL DEF Spec
<1> QED
  BY <1>1, <1>2, <1>3, PTL

(***************************************************************************)
(* The transposition, for every width.                                     *)
(***************************************************************************)

(* A number in two digits, divided by a multiple of the lower digit's base. *)
AreDigits(b, h, u, v) == b \in Nat \ {0} /\ h \in Nat \ {0} /\ u \in Nat /\ v \in 0 .. b - 1

Shortened(b, h, u, v) ==
  (b * u + v) \div (b * h) = u \div h /\ (b * u + v) % (b * h) = b * (u % h) + v

(* Only the upper digit is divided, and the lower one stays in the remainder. *)
LEMMA TwoDigits ==
  ASSUME NEW b, NEW h, NEW u, NEW v, AreDigits(b, h, u, v)
  PROVE  Shortened(b, h, u, v)
<1> SUFFICES ASSUME b \in Nat \ {0}, h \in Nat \ {0}, u \in Nat, v \in 0 .. b - 1
             PROVE  /\ (b * u + v) \div (b * h) = u \div h
                    /\ (b * u + v) % (b * h) = b * (u % h) + v
  BY DEF AreDigits, Shortened
<1> DEFINE a == u \div h
           d == u % h
           w == b * h
           r == b * d + v
<1>1. a \in Int /\ d \in 0 .. h - 1 /\ u = h * a + d
  <2>1. u \in Int /\ h \in Nat \ {0}
    OBVIOUS
  <2> QED
    BY <2>1, Remainder
<1> HIDE DEF a, d
<1>2. w \in Nat \ {0}
  OBVIOUS
<1>3. r \in 0 .. w - 1
  <2>1. b * d <= b * (h - 1)
    BY <1>1
  <2>2. b * (h - 1) = b * h - b /\ b * h \in Int
    OBVIOUS
  <2>3. b * d \in Nat
    BY <1>1
  <2> QED
    BY <2>1, <2>2, <2>3
<1>4. b * u + v = w * a + r
  <2>1. b * (h * a + d) = (b * h) * a + b * d
    BY <1>1
  <2> QED
    BY <1>1, <2>1
<1> HIDE DEF w, r
<1>5. (w * a + r) \div w = a /\ (w * a + r) % w = r
  BY <1>1, <1>2, <1>3, OneQuotient
<1> QED
  BY <1>4, <1>5 DEF a, d, w, r

(* The bit of x whose weight is p. *)
BitOf(x, p) == (x \div p) % 2

(* A number, its digits below a bit of weight p, the bit, and those above. *)
LEMMA AroundBit ==
  ASSUME NEW x \in Nat, NEW p \in Nat \ {0}
  PROVE  \E a \in Nat, r \in 0 .. p - 1 :
           /\ BitOf(x, p) \in {0, 1}
           /\ x \div p = 2 * a + BitOf(x, p)
           /\ x = p * (2 * a + BitOf(x, p)) + r
           /\ x \div (2 * p) = a /\ x % (2 * p) = p * BitOf(x, p) + r /\ x % p = r
<1> DEFINE u == x \div p
           r == x % p
           a == u \div 2
<1>1. u \in Int /\ r \in 0 .. p - 1 /\ x = p * u + r
  BY Remainder
<1>2. u \in Nat
  BY DivBounds
<1> HIDE DEF u, r
<1>3. a \in Nat /\ u % 2 \in {0, 1} /\ u = 2 * a + (u % 2)
  BY <1>2
<1>4. (p * u + r) \div (p * 2) = u \div 2 /\ (p * u + r) % (p * 2) = p * (u % 2) + r
  <2>1. AreDigits(p, 2, u, r)
    BY <1>1, <1>2 DEF AreDigits
  <2>2. Shortened(p, 2, u, r)
    BY <2>1, TwoDigits
  <2> QED
    BY <2>2, Zenon DEF Shortened
<1>5. p * 2 = 2 * p
  OBVIOUS
<1>6. BitOf(x, p) = u % 2
  BY DEF BitOf, u
<1>7. x \div (2 * p) = a /\ x % (2 * p) = p * (u % 2) + r
  BY <1>1, <1>4, <1>5
<1>8. x \div p = u /\ x % p = r
  BY DEF u, r
<1> HIDE DEF a
<1>9. x = p * (2 * a + (u % 2)) + r
  BY <1>1, <1>3
<1> QED
  BY <1>1, <1>3, <1>6, <1>7, <1>8, <1>9

(* What the widths of bytes and registers are. *)
LEMMA WidthsAre ==
  /\ ByteBits \in Nat \ {0} /\ RegBits \in Nat \ {0}
  /\ \E b \in 1 .. 3 : /\ ByteBits = Power(b)
                       /\ LOG2_REGISTER_SIZE \in b .. 6
                       /\ RegBits = Power(LOG2_REGISTER_SIZE)
<1>1. PICK b \in 1 .. 3, k \in 0 .. 3 : ByteBits = Power(b) /\ RegBytes = Power(k)
  BY WidthsOK
<1>2. b \in Nat /\ k \in Nat /\ b + k \in b .. 6 /\ b + k \in 1 .. 30
  OBVIOUS
<1>3. RegBits = Power(b + k)
  BY <1>1, <1>2, PowerSum DEF RegBits
<1>4. LOG2_REGISTER_SIZE = b + k
  BY <1>2, <1>3, LogOfPower DEF LOG2_REGISTER_SIZE
<1>5. Power(b) \in Nat \ {0} /\ Power(b + k) \in Nat \ {0}
  <2>1. b + k \in Nat
    BY <1>2
  <2> QED
    BY <1>2, <2>1, PowerPositive
<1> QED
  BY <1>1, <1>2, <1>3, <1>4, <1>5

(* The place of a bit among the lanes of its register, and of a lane among the bits. *)
Mirror(y) == (y \div ByteBits) * ByteBits + ByteBits - 1 - (y % ByteBits)

(* Byte and bit of a place. *)
LEMMA MirrorIs ==
  ASSUME NEW u \in Int, NEW v \in 0 .. ByteBits - 1
  PROVE  Mirror(ByteBits * u + v) = ByteBits * u + (ByteBits - 1 - v)
<1> DEFINE b == ByteBits
<1>1. b \in Nat \ {0}
  BY WidthsAre
<1>2. (b * u + v) \div b = u /\ (b * u + v) % b = v
  <2> HIDE DEF b
  <2> SUFFICES v \in 0 .. b - 1
    BY <1>1, OneQuotient
  <2> QED
    BY DEF b
<1>3. Mirror(ByteBits * u + v) = u * b + b - 1 - v
  BY <1>2 DEF Mirror
<1> HIDE DEF b
<1>4. v \in Int
  OBVIOUS
<1>5. u * b + b - 1 - v = b * u + (b - 1 - v)
  <2>1. u * b = b * u /\ b * u \in Int
    BY <1>1
  <2> QED
    BY <1>1, <1>4, <2>1
<1> QED
  BY <1>3, <1>5 DEF b

(* Inside a byte the lanes are in the opposite order: a bit below the width of a byte is
   inverted, one above is not. Moving by such a weight is moving back or forth. *)
LEMMA MirrorBit ==
  ASSUME NEW y \in Nat, NEW i \in 0 .. LOG2_REGISTER_SIZE - 1
  PROVE  LET p == Power(i)
             s == Mirror(y)
         IN /\ p >= ByteBits => /\ BitOf(s, p) = BitOf(y, p)
                                /\ Mirror(s + p) = y + p /\ Mirror(s - p) = y - p
            /\ ~(p >= ByteBits) =>
                 /\ BitOf(s, p) = 1 - BitOf(y, p)
                 /\ BitOf(y, p) = 1 => Mirror(s + p) = y - p
                 /\ BitOf(y, p) = 0 => Mirror(s - p) = y + p
<1> DEFINE b == ByteBits
           p == Power(i)
           s == Mirror(y)
           u == y \div b
           v == y % b
<1>1. PICK k \in 1 .. 3 : b = Power(k) /\ LOG2_REGISTER_SIZE \in k .. 6
  BY WidthsAre
<1>2. i \in Nat /\ k \in Nat /\ b \in Nat \ {0} /\ p \in Nat \ {0}
  <2>1. i \in Nat /\ k \in Nat
    BY <1>1
  <2> QED
    BY <2>1, WidthsAre, PowerPositive
<1>3. u \in Nat /\ v \in 0 .. b - 1 /\ y = b * u + v
  <2>1. u \in Nat
    BY <1>2, DivBounds
  <2> QED
    BY <2>1, <1>2, Remainder
<1>4. ASSUME NEW x \in Int, NEW z \in 0 .. b - 1
      PROVE  Mirror(b * x + z) = b * x + (b - 1 - z)
  BY <1>4, MirrorIs DEF b
<1>5. b - 1 - v \in 0 .. b - 1 /\ b - 1 - (b - 1 - v) = v
  <2> HIDE DEF b, u, v
  <2> QED
    BY <1>2, <1>3
<1>6. s = b * u + (b - 1 - v)
  <2>1. Mirror(b * u + v) = b * u + (b - 1 - v)
    BY <1>3, <1>4
  <2> QED
    BY <1>3, <2>1
<1> HIDE DEF b, p, s, u, v
<1>7. CASE p >= b
  <2>1. k <= i
    <3> SUFFICES ASSUME i < k PROVE FALSE
      BY <1>2
    <3>1. Power(i) < Power(k)
      BY <1>2, PowerGrows
    <3> QED
      BY <3>1, <1>1, <1>2, <1>7 DEF p
  <2> DEFINE h == Power(i - k)
  <2>2. h \in Nat \ {0} /\ p = b * h
    <3>1. i - k \in Nat /\ k + (i - k) = i
      BY <1>2, <2>1
    <3> QED
      BY <3>1, <1>1, <1>2, PowerPositive, PowerSum DEF p
  <2> HIDE DEF h
  <2>3. BitOf(s, p) = BitOf(y, p)
    <3>0. b \in Nat \ {0} /\ h \in Nat \ {0} /\ u \in Nat
      BY <1>2, <1>3, <2>2
    <3>1. ASSUME NEW z \in 0 .. b - 1
          PROVE  (b * u + z) \div (b * h) = u \div h
      <4>1. AreDigits(b, h, u, z)
        BY <3>0 DEF AreDigits
      <4>2. Shortened(b, h, u, z)
        BY <4>1, TwoDigits
      <4> QED
        BY <4>2, Zenon DEF Shortened
    <3>2. (b * u + (b - 1 - v)) \div (b * h) = u \div h
      BY <3>1, <1>5
    <3>3. (b * u + v) \div (b * h) = u \div h
      BY <3>1, <1>3
    <3> QED
      BY <3>2, <3>3, <1>3, <1>6, <2>2 DEF BitOf
  <2>4. ASSUME NEW x \in {u + h, u - h}
        PROVE  Mirror(b * x + (b - 1 - v)) = b * x + v
    <3>1. x \in Int
      BY <1>3, <2>2
    <3> QED
      BY <3>1, <1>4, <1>5
  <2>5. b * (u + h) = b * u + p /\ b * (u - h) = b * u - p
    BY <1>2, <1>3, <2>2
  <2>6. b * u \in Int /\ p \in Int /\ v \in Int
    BY <1>2, <1>3
  <2>7. s + p = b * (u + h) + (b - 1 - v) /\ s - p = b * (u - h) + (b - 1 - v)
    BY <1>2, <1>6, <2>5, <2>6
  <2>8. y + p = b * (u + h) + v /\ y - p = b * (u - h) + v
    BY <1>3, <2>5, <2>6
  <2>9. Mirror(s + p) = y + p /\ Mirror(s - p) = y - p
    BY <2>4, <2>7, <2>8
  <2> QED
    BY <1>7, <2>3, <2>9 DEF p, s, b
<1>8. CASE ~(p >= b)
  <2>1. i < k
    <3> SUFFICES ASSUME k <= i PROVE FALSE
      BY <1>2
    <3>1. Power(k) <= Power(i)
      <4>1. CASE k = i
        BY <4>1, <1>2 DEF p
      <4>2. CASE k < i
        BY <4>2, <1>1, <1>2, PowerGrows DEF p
      <4> QED
        BY <4>1, <4>2, <1>2
    <3> QED
      BY <3>1, <1>1, <1>8 DEF p
  <2> DEFINE h == Power(k - i - 1)
  <2>2. h \in Nat \ {0} /\ b = p * (2 * h)
    <3>1. k - i - 1 \in Nat /\ i + 1 + (k - i - 1) = k /\ i + 1 \in Nat
      BY <1>2, <2>1
    <3>2. Power(k) = Power(i + 1) * h
      BY <3>1, PowerSum
    <3>3. Power(i + 1) = 2 * p
      BY <1>2, PowerNext DEF p
    <3>4. h \in Nat \ {0}
      BY <3>1, PowerPositive
    <3> HIDE DEF h
    <3>5. (2 * p) * h = p * (2 * h)
      BY <1>2, <3>4
    <3> QED
      BY <1>1, <3>2, <3>3, <3>4, <3>5
  <2> HIDE DEF h
  <2> DEFINE w == v \div p
             x == v % p
  <2>3. w \in Nat /\ x \in 0 .. p - 1 /\ v = p * w + x
    <3>1. v \in Nat
      BY <1>3
    <3>2. w \in Nat
      BY <1>2, <3>1, DivBounds
    <3> QED
      BY <1>2, <3>1, <3>2, Remainder
  <2> HIDE DEF w, x
  <2>4. w <= 2 * h - 1
    <3> SUFFICES ASSUME w >= 2 * h PROVE FALSE
      BY <2>2, <2>3
    <3>1. p * w >= p * (2 * h)
      BY <1>2, <2>2, <2>3
    <3>2. p * w \in Nat
      BY <1>2, <2>3
    <3> QED
      BY <1>2, <1>3, <2>2, <2>3, <3>1, <3>2
  <2>5. b - 1 - v = p * (2 * h - 1 - w) + (p - 1 - x)
    <3>1. p * (2 * h - 1 - w) = p * (2 * h) - p - p * w
      BY <1>2, <2>2, <2>3
    <3>2. p * w \in Int /\ p * (2 * h) \in Int
      BY <1>2, <2>2, <2>3
    <3> QED
      BY <1>2, <2>2, <2>3, <3>1, <3>2
  <2>6. y = p * (2 * (h * u) + w) + x /\ s = p * (2 * (h * u) + (2 * h - 1 - w)) + (p - 1 - x)
    <3>1. (p * (2 * h)) * u = p * (2 * (h * u))
      BY <1>2, <1>3, <2>2
    <3> DEFINE g == 2 * (h * u)
    <3>2. g \in Nat
      BY <1>3, <2>2
    <3>3. b * u = p * g
      BY <3>1, <2>2
    <3> HIDE DEF g
    <3>4. p * (g + w) = p * g + p * w /\ p * (g + (2 * h - 1 - w)) = p * g + p * (2 * h - 1 - w)
      BY <3>2, <1>2, <2>2, <2>3
    <3>5. p * g \in Int /\ p * w \in Int /\ p * (2 * h - 1 - w) \in Int
      BY <3>2, <1>2, <2>2, <2>3
    <3>6. y = p * (g + w) + x
      BY <1>3, <2>3, <3>3, <3>4, <3>5
    <3>7. s = p * (g + (2 * h - 1 - w)) + (p - 1 - x)
      BY <1>2, <1>6, <2>3, <2>5, <3>3, <3>4, <3>5
    <3> QED
      BY <3>6, <3>7 DEF g
  <2>7. BitOf(y, p) = w % 2 /\ BitOf(s, p) = 1 - (w % 2)
    <3> DEFINE g == h * u
    <3>1. g \in Nat /\ 2 * g + w \in Int /\ 2 * g + (2 * h - 1 - w) \in Int
      BY <1>3, <2>2, <2>3
    <3>2. p - 1 - x \in 0 .. p - 1
      BY <1>2, <2>3
    <3> HIDE DEF g
    <3>3. (p * (2 * g + w) + x) \div p = 2 * g + w
      BY <1>2, <2>3, <3>1, OneQuotient
    <3>4. (p * (2 * g + (2 * h - 1 - w)) + (p - 1 - x)) \div p = 2 * g + (2 * h - 1 - w)
      BY <1>2, <3>1, <3>2, OneQuotient
    <3>5. (2 * g + w) % 2 = w % 2 /\ (2 * g + (2 * h - 1 - w)) % 2 = 1 - (w % 2)
      BY <2>2, <2>3, <3>1
    <3>6. y \div p = 2 * g + w /\ s \div p = 2 * g + (2 * h - 1 - w)
      BY <2>6, <3>3, <3>4 DEF g
    <3> QED
      BY <3>5, <3>6 DEF BitOf
  <2>8. ASSUME w % 2 = 1
        PROVE  Mirror(s + p) = y - p
    <3>1. p * w >= p
      <4>1. w >= 1
        BY <2>3, <2>8
      <4> QED
        BY <1>2, <2>3, <4>1
    <3>2. p * w \in Int
      BY <1>2, <2>3
    <3>3. v - p \in 0 .. b - 1
      BY <1>2, <1>3, <2>3, <3>1, <3>2
    <3>4. b - 1 - (v - p) \in 0 .. b - 1 /\ b - 1 - (b - 1 - (v - p)) = v - p
      BY <3>3, <1>2, <1>3
    <3>5. b * u \in Int
      BY <1>2, <1>3
    <3>6. s + p = b * u + (b - 1 - (v - p)) /\ y - p = b * u + (v - p)
      BY <1>2, <1>3, <1>6, <3>5
    <3>7. u \in Int
      BY <1>3
    <3> QED
      BY <1>4, <3>4, <3>6, <3>7
  <2>9. ASSUME w % 2 = 0
        PROVE  Mirror(s - p) = y + p
    <3>1. w <= 2 * h - 2
      BY <2>2, <2>3, <2>4, <2>9
    <3>2. p * w <= p * (2 * h - 2)
      BY <1>2, <2>2, <2>3, <3>1
    <3>3. p * (2 * h - 2) = p * (2 * h) - 2 * p
      BY <1>2, <2>2
    <3>4. p * w \in Nat /\ p * (2 * h) \in Int
      BY <1>2, <2>2, <2>3
    <3>5. v + p \in 0 .. b - 1
      BY <1>2, <1>3, <2>2, <2>3, <3>2, <3>3, <3>4
    <3>6. b - 1 - (v + p) \in 0 .. b - 1 /\ b - 1 - (b - 1 - (v + p)) = v + p
      BY <3>5, <1>2, <1>3
    <3>7. b * u \in Int
      BY <1>2, <1>3
    <3>8. s - p = b * u + (b - 1 - (v + p)) /\ y + p = b * u + (v + p)
      BY <1>2, <1>3, <1>6, <3>7
    <3>9. u \in Int
      BY <1>3
    <3> QED
      BY <1>4, <3>6, <3>8, <3>9
  <2> QED
    BY <1>8, <2>7, <2>8, <2>9 DEF p, s, b
<1> QED
  BY <1>7, <1>8

(* Row, register of the row and bit of the register for a place in a matrix with w
   registers a row. *)
LEMMA Coordinates ==
  ASSUME NEW w \in Nat \ {0}, NEW pos \in Nat
  PROVE  \E row \in Nat, q \in 0 .. w - 1, y \in 0 .. RegBits - 1 :
           /\ pos \div (w * RegBits) = row /\ pos % (w * RegBits) = RegBits * q + y
           /\ Register(pos) = w * row + q /\ Lane(pos) = Mirror(y)
           /\ pos = RegBits * (w * row + q) + y
<1> DEFINE R == RegBits
           u == pos \div R
           y == pos % R
           row == u \div w
           q == u % w
<1>1. R \in Nat \ {0} /\ ByteBits \in Nat \ {0} /\ RegBytes \in Nat \ {0} /\ R = ByteBits * RegBytes
  <2>1. PICK k \in 0 .. 3 : RegBytes = Power(k)
    BY WidthsOK
  <2>2. RegBytes \in Nat \ {0}
    <3>1. k \in Nat
      OBVIOUS
    <3> QED
      BY <2>1, <3>1, PowerPositive
  <2> QED
    BY <2>2, WidthsAre DEF RegBits
<1>2. u \in Nat /\ y \in 0 .. R - 1 /\ pos = R * u + y
  <2> HIDE DEF R
  <2>0. R \in Nat \ {0} /\ pos \in Int
    BY <1>1
  <2>1. u \in Nat
    BY <2>0, DivBounds
  <2>2. y \in 0 .. R - 1 /\ pos = R * u + y
    BY <2>0, Remainder
  <2> QED
    BY <2>1, <2>2
<1>3. row \in Nat /\ q \in 0 .. w - 1 /\ u = w * row + q
  <2> HIDE DEF u
  <2>1. row \in Nat
    BY <1>2, DivBounds
  <2> QED
    BY <2>1, <1>2, Remainder
<1>4. Register(pos) = u
  BY DEF Register
<1>5. Lane(pos) = Mirror(y)
  <2> DEFINE c == y \div ByteBits
             v == y % ByteBits
  <2>1. c \in Int /\ v \in 0 .. ByteBits - 1 /\ y = ByteBits * c + v
    <3>1. y \in Int
      BY <1>1, <1>2
    <3> HIDE DEF y
    <3> QED
      BY <1>1, <3>1, Remainder
  <2>2. pos % ByteBits = v
    <3> HIDE DEF R, u, y, c, v
    <3>1. R * u = ByteBits * (RegBytes * u)
      BY <1>1, <1>2
    <3>2. pos = ByteBits * (RegBytes * u + c) + v
      <4> DEFINE g == RegBytes * u
      <4>1. g \in Int
        BY <1>1, <1>2
      <4>2. R * u = ByteBits * g
        BY <3>1
      <4> HIDE DEF g
      <4>3. ByteBits * (g + c) = ByteBits * g + ByteBits * c /\ ByteBits * g \in Int /\ ByteBits * c \in Int
        BY <4>1, <1>1, <2>1
      <4>4. pos = ByteBits * (g + c) + v
        BY <4>2, <4>3, <1>2, <2>1
      <4> QED
        BY <4>4 DEF g
    <3>3. RegBytes * u + c \in Int
      BY <1>1, <1>2, <2>1
    <3> DEFINE g == RegBytes * u + c
    <3>4. (ByteBits * g + v) % ByteBits = v
      <4>1. g \in Int
        BY <3>3
      <4> HIDE DEF g
      <4> QED
        BY <4>1, <1>1, <2>1, OneRemainder
    <3> QED
      BY <3>2, <3>4
  <2> QED
    BY <2>2 DEF Lane, Mirror
<1>6. pos \div (w * R) = row /\ pos % (w * R) = R * q + y
  <2> HIDE DEF R, u, y, row, q
  <2>1. w * R = R * w
    BY <1>1
  <2>2. (R * u + y) \div (R * w) = u \div w /\ (R * u + y) % (R * w) = R * (u % w) + y
    <3>1. AreDigits(R, w, u, y)
      BY <1>1, <1>2 DEF AreDigits
    <3>2. Shortened(R, w, u, y)
      BY <3>1, TwoDigits
    <3> QED
      BY <3>2, Zenon DEF Shortened
  <2> QED
    BY <1>2, <2>1, <2>2 DEF row, q
<1>7. pos = R * (w * row + q) + y
  <2> HIDE DEF u, y, row, q
  <2> QED
    BY <1>2, <1>3
<1> HIDE DEF R, u, y, row, q
<1> QED
  BY <1>2, <1>3, <1>4, <1>5, <1>6, <1>7 DEF R

(* A bit below the width of a register is one of the bits inside it. *)
LEMMA LowBit ==
  ASSUME NEW p \in Nat \ {0}, NEW g \in Nat \ {0}, NEW q \in Nat, NEW y \in Nat
  PROVE  BitOf((p * (2 * g)) * q + y, p) = BitOf(y, p)
<1> DEFINE e == y \div p
           f == y % p
           k == g * q
<1>1. e \in Nat /\ f \in 0 .. p - 1 /\ y = p * e + f
  <2>1. e \in Nat
    BY DivBounds
  <2> QED
    BY <2>1, Remainder
<1>2. k \in Nat
  OBVIOUS
<1>3. (p * (2 * g)) * q = p * (2 * k)
  OBVIOUS
<1> HIDE DEF e, f, k
<1>4. p * (2 * k + e) = p * (2 * k) + p * e
  BY <1>1, <1>2
<1>5. p * (2 * k) \in Int /\ p * e \in Int
  BY <1>1, <1>2
<1>6. (p * (2 * g)) * q + y = p * (2 * k + e) + f
  BY <1>1, <1>3, <1>4, <1>5
<1>7. (p * (2 * k + e) + f) \div p = 2 * k + e
  <2>1. 2 * k + e \in Int
    BY <1>1, <1>2
  <2> QED
    BY <1>1, <2>1, OneQuotient
<1>8. (2 * k + e) % 2 = e % 2
  BY <1>1, <1>2
<1> QED
  BY <1>6, <1>7, <1>8 DEF BitOf, e

(* What a level does: rows and columns exchange the bit of weight p of their numbers. *)
Partner(pos, columns, p) ==
  LET r == BitOf(pos \div columns, p)
      c == BitOf(pos % columns, p)
  IN IF r = c THEN pos
     ELSE IF r = 0 THEN pos + p * columns - p ELSE pos - p * columns + p

Exchanged(m, columns, p) == [pos \in DOMAIN m |-> m[Partner(pos, columns, p)]]

(* The registers that the rounds of a level reach are all. *)
LEMMA AllReached ==
  ASSUME NEW n \in Nat, NEW i \in 0 .. n - 1, NEW w \in Nat \ {0},
         NEW row \in 0 .. Power(n) - 1, NEW q \in 0 .. w - 1
  PROVE  /\ w * row + q \in Reached(Power(n), w * RegBits, i)
         /\ Offset(w * RegBits) = w
<1> DEFINE R == RegBits
           p == Power(i)
           k == Power(n - (i + 1))
<1>1. R \in Nat \ {0}
  BY WidthsAre
<1>2. Offset(w * R) = w
  <2> HIDE DEF R
  <2>1. w * R = R * w + 0 /\ 0 \in 0 .. R - 1 /\ w \in Int
    BY <1>1
  <2>2. (R * w + 0) \div R = w
    BY <1>1, <2>1, OneQuotient
  <2>3. (w * R) \div R = w
    BY <2>1, <2>2
  <2> QED
    BY <2>3 DEF Offset, R
<1>3. i \in Nat /\ i + 1 \in Nat /\ n - (i + 1) \in Nat /\ (i + 1) + (n - (i + 1)) = n
  OBVIOUS
<1>4. Power(n) = Power(i + 1) * k /\ Power(i + 1) = 2 * p
  BY <1>3, PowerSum, PowerNext
<1>5. p \in Nat \ {0} /\ k \in Nat \ {0}
  BY <1>3, PowerPositive
<1> HIDE DEF p, k
<1>6. Power(n) \div Power(i + 1) = k
  <2> DEFINE d == 2 * p
  <2>1. d \in Nat \ {0}
    BY <1>5
  <2> HIDE DEF d
  <2>2. (d * k + 0) \div d = k
    <3>1. 0 \in 0 .. d - 1 /\ k \in Int
      BY <1>5, <2>1
    <3> QED
      BY <2>1, <3>1, OneQuotient
  <2>3. d * k + 0 = d * k
    BY <1>5, <2>1
  <2> QED
    BY <1>4, <2>2, <2>3 DEF d
<1>7. k * 2 * w * p = w * Power(n)
  <2>1. k * 2 * w * p = w * ((2 * p) * k)
    BY <1>5
  <2> QED
    BY <1>4, <2>1
<1>8. Reached(Power(n), w * R, i) = 0 .. w * Power(n) - 1
  BY <1>2, <1>6, <1>7 DEF Reached, p, R
<1>9. w * row + q \in 0 .. w * Power(n) - 1
  <2> DEFINE z == Power(n)
  <2>1. z \in Nat /\ row \in 0 .. z - 1
    BY PowerPositive
  <2> HIDE DEF z
  <2>2. w * row <= w * (z - 1)
    BY <2>1
  <2>3. w * (z - 1) = w * z - w /\ w * z \in Int /\ w * row \in Nat
    BY <2>1
  <2>4. w * row + q \in 0 .. w * z - 1
    BY <2>1, <2>2, <2>3
  <2> QED
    BY <2>4 DEF z
<1> QED
  BY <1>2, <1>8, <1>9 DEF R

(* Where a place is in a matrix of Power(n) rows. *)
MatrixBits(n, w) == 0 .. Power(n) * (w * RegBits) - 1

(* The row of a bit. *)
LEMMA RowBelow ==
  ASSUME NEW n \in Nat, NEW w \in Nat \ {0}, NEW pos \in MatrixBits(n, w)
  PROVE  pos \in Nat /\ pos \div (w * RegBits) \in 0 .. Power(n) - 1
<1> DEFINE c == w * RegBits
           z == Power(n)
           row == pos \div c
<1>1. c \in Nat \ {0} /\ z \in Nat \ {0}
  <2>1. RegBits \in Nat \ {0}
    BY WidthsAre
  <2>2. c \in Nat \ {0}
    <3> DEFINE R == RegBits
    <3>1. R \in Nat \ {0}
      BY <2>1
    <3> HIDE DEF R
    <3>2. w * R \in Nat \ {0}
      BY <3>1
    <3> QED
      BY <3>2 DEF R
  <2> QED
    BY <2>2, PowerPositive
<1> HIDE DEF c, z
<1>2. pos \in Nat /\ pos < z * c
  BY <1>1 DEF c, z, MatrixBits
<1>3. row \in Nat /\ pos % c \in 0 .. c - 1 /\ pos = c * row + (pos % c)
  <2>0. c \in Nat \ {0} /\ pos \in Int /\ pos \in Nat
    BY <1>1, <1>2
  <2>1. row \in Nat
    BY <2>0, DivBounds
  <2>2. pos % c \in 0 .. c - 1 /\ pos = c * row + (pos % c)
    BY <2>0, Remainder
  <2> QED
    BY <2>1, <2>2
<1> HIDE DEF row
<1>4. row < z
  <2> SUFFICES ASSUME row >= z PROVE FALSE
    BY <1>1, <1>3
  <2>1. c * row >= c * z
    BY <1>1, <1>3
  <2>2. c * z = z * c /\ c * row \in Int /\ z * c \in Int
    BY <1>1, <1>3
  <2> QED
    BY <1>2, <1>3, <2>1, <2>2
<1> QED
  BY <1>1, <1>2, <1>3, <1>4 DEF row, c, z

(* The place of a lane of a register. *)
LEMMA BitIdxIs ==
  ASSUME NEW r \in Int, NEW s \in Int
  PROVE  BitIdx(r, s) = RegBits * r + Mirror(s)
<1> DEFINE R == RegBits
           B == ByteBits
           g == (s \div B) * B
           h == s % B
<1>1. BitIdx(r, s) = r * R + g + B - 1 - h /\ Mirror(s) = g + B - 1 - h
  BY DEF BitIdx, Mirror
<1>2. R \in Nat \ {0} /\ B \in Nat \ {0}
  BY WidthsAre
<1>3. g \in Int /\ h \in Int
  <2> HIDE DEF B
  <2>1. s \div B \in Int /\ h \in Int
    BY <1>2, Remainder
  <2> QED
    BY <1>2, <2>1
<1>4. BitIdx(r, s) = r * R + Mirror(s)
  <2> HIDE DEF R, B, g, h
  <2>1. r * R \in Int
    BY <1>2
  <2> QED
    BY <1>1, <1>2, <1>3, <2>1
<1>5. r * R = R * r
  <2> HIDE DEF R
  <2> QED
    BY <1>2
<1> QED
  BY <1>4, <1>5

(* A bit that is as many registers and bits away. *)
LEMMA BitAway ==
  ASSUME NEW r \in Int, NEW d \in Int, NEW f \in Int, NEW s \in Int, NEW y \in Int, NEW e \in Int,
         Mirror(s) = y + e, f = RegBits * d
  PROVE  BitIdx(r + d, s) = RegBits * r + y + f + e
<1> DEFINE R == RegBits
<1>1. r + d \in Int
  OBVIOUS
<1>2. BitIdx(r + d, s) = R * (r + d) + (y + e)
  BY <1>1, BitIdxIs
<1>3. R \in Nat \ {0} /\ f = R * d
  BY WidthsAre
<1> SUFFICES BitIdx(r + d, s) = R * r + y + f + e
  OBVIOUS
<1> HIDE DEF R
<1>4. R * (r + d) = R * r + R * d /\ R * r \in Int
  BY <1>3
<1> QED
  BY <1>2, <1>3, <1>4

(* A row's registers in groups of rows, and where its bits are. *)
LEMMA RowGroup ==
  ASSUME NEW w \in Nat \ {0}, NEW p \in Nat \ {0}, NEW row \in Nat, NEW q \in 0 .. w - 1
  PROVE  (w * row + q) \div (w * p) = row \div p
<1>1. AreDigits(w, p, row, q)
  BY DEF AreDigits
<1>2. Shortened(w, p, row, q)
  BY <1>1, TwoDigits
<1> QED
  BY <1>2, Zenon DEF Shortened

(* Its parity is a bit of the row's number. *)
LEMMA RowBit ==
  ASSUME NEW w \in Nat \ {0}, NEW p \in Nat \ {0}, NEW row \in Nat, NEW q \in 0 .. w - 1
  PROVE  ((w * row + q) \div (w * p)) % 2 = BitOf(row, p)
<1>1. (w * row + q) \div (w * p) = row \div p
  BY RowGroup
<1> QED
  BY <1>1 DEF BitOf

(* A bit above the width of a register is one of the register's number in its row. *)
LEMMA ColumnBit ==
  ASSUME NEW R, NEW S, NEW q, NEW y, AreDigits(R, S, q, y)
  PROVE  BitOf(R * q + y, R * S) = BitOf(q, S)
<1>1. (R * q + y) \div (R * S) = q \div S
  <2>1. Shortened(R, S, q, y)
    BY TwoDigits
  <2> QED
    BY <2>1, Zenon DEF Shortened
<1> QED
  BY <1>1 DEF BitOf

(* The types of registers' distances, and those in bits. *)
LEMMA Distances ==
  ASSUME NEW w \in Nat \ {0}, NEW p \in Nat \ {0}, NEW R \in Nat \ {0},
         NEW row \in Nat, NEW q \in Nat, NEW y \in Nat
  PROVE  /\ p \in Int /\ w * p \in Int /\ p * (w * R) = R * (w * p)
         /\ R * (0 - w * p) = 0 - R * (w * p) /\ R * (w * p) \in Int
         /\ w * row + q \in Int /\ R * (w * row + q) \in Int
<1> DEFINE d == w * p
           r == w * row + q
<1>1. d \in Int /\ r \in Int
  OBVIOUS
<1>2. p * (w * R) = R * d
  OBVIOUS
<1> HIDE DEF d, r
<1>3. R * (0 - d) = 0 - R * d /\ R * d \in Int /\ R * r \in Int
  BY <1>1
<1> QED
  BY <1>1, <1>2, <1>3 DEF d, r

(* A mirrored lane is a number. *)
LEMMA MirrorType ==
  ASSUME NEW y \in Int
  PROVE  Mirror(y) \in Int
<1> DEFINE B == ByteBits
           g == y \div B
           h == y % B
<1>1. B \in Nat \ {0}
  BY WidthsAre
<1> HIDE DEF B
<1>2. g \in Int /\ h \in Int
  BY <1>1, Remainder
<1> HIDE DEF g, h
<1>3. g * B \in Int
  BY <1>1, <1>2
<1>4. g * B + B - 1 - h \in Int
  BY <1>1, <1>2, <1>3
<1> QED
  BY <1>4 DEF Mirror, g, h, B

(* A level of the first loop. *)
LEMMA LanesExchanged ==
  ASSUME NEW n \in Nat, NEW w \in Nat \ {0}, NEW i \in 0 .. LOG2_REGISTER_SIZE - 1, i < n,
         NEW m, DOMAIN m = MatrixBits(n, w)
  PROVE  SwapLanes(m, Power(n), w * RegBits, i) = Exchanged(m, w * RegBits, Power(i))
<1> DEFINE R == RegBits
           z == Power(n)
           c == w * R
           p == Power(i)
           Is(pos) == LET r == Register(pos)
                          s == Lane(pos)
                          destidx == Offset(c) * p
                          isA(k) == (k \div destidx) % 2 = 0
                          inMask(k) == (k \div p) % 2 = 0
                          kept == IF p >= ByteBits THEN isA(r) <=> inMask(s)
                                                   ELSE isA(r) <=> ~ inMask(s)
                      IN IF r \notin Reached(z, c, i) \/ kept THEN pos
                         ELSE BitIdx(IF isA(r) THEN r + destidx ELSE r - destidx,
                                     IF inMask(s) THEN s + p ELSE s - p)
<1>1. R \in Nat \ {0} /\ ByteBits \in Nat \ {0} /\ p \in Nat \ {0} /\ i \in Nat
      /\ LOG2_REGISTER_SIZE \in Nat /\ R = Power(LOG2_REGISTER_SIZE)
  <2>1. i \in Nat /\ LOG2_REGISTER_SIZE \in Nat
    BY WidthsAre
  <2> QED
    BY <2>1, WidthsAre, PowerPositive
<1>2. \E g \in Nat \ {0} : R = p * (2 * g)
  <2> DEFINE k == LOG2_REGISTER_SIZE - (i + 1)
             g == Power(k)
  <2>1. k \in Nat /\ i + 1 \in Nat /\ (i + 1) + k = LOG2_REGISTER_SIZE
    BY <1>1
  <2>2. Power(LOG2_REGISTER_SIZE) = Power(i + 1) * g /\ g \in Nat \ {0}
    <3> HIDE DEF k
    <3> QED
      BY <2>1, PowerSum, PowerPositive
  <2>3. Power(i + 1) = 2 * p
    BY <1>1, PowerNext
  <2> HIDE DEF g, p, R
  <2>4. (2 * p) * g = p * (2 * g)
    BY <1>1, <2>2
  <2> QED
    BY <1>1, <2>2, <2>3, <2>4
<1>3. PICK g \in Nat \ {0} : R = p * (2 * g)
  BY <1>2
<1>4. ASSUME NEW pos \in DOMAIN m
      PROVE  Is(pos) = Partner(pos, c, p)
  <2>1. pos \in Nat /\ pos \div c \in 0 .. z - 1
    BY RowBelow
  <2>2. PICK row \in Nat, q \in 0 .. w - 1, y \in 0 .. R - 1 :
           /\ pos \div c = row /\ pos % c = R * q + y
           /\ Register(pos) = w * row + q /\ Lane(pos) = Mirror(y)
           /\ pos = R * (w * row + q) + y
    BY <2>1, Coordinates
  <2>3. w * row + q \in Reached(z, c, i) /\ Offset(c) = w
    <3>1. row \in 0 .. z - 1 /\ i \in 0 .. n - 1
      BY <2>1, <2>2, <1>1
    <3> QED
      BY <3>1, AllReached
  <2>4. BitOf(pos % c, p) = BitOf(y, p)
    <3>1. q \in Nat /\ y \in Nat
      BY <1>1
    <3>2. BitOf((p * (2 * g)) * q + y, p) = BitOf(y, p)
      BY <1>1, <3>1, LowBit
    <3> QED
      BY <3>2, <2>2, <1>3
  <2>5. ((w * row + q) \div (w * p)) % 2 = BitOf(row, p)
    <3>1. p \in Nat \ {0}
      BY <1>1
    <3> HIDE DEF p
    <3> QED
      BY <3>1, RowBit
  <2>6. BitOf(row, p) \in {0, 1} /\ BitOf(y, p) \in {0, 1}
    <3>1. y \in Nat
      BY <1>1
    <3> QED
      BY <1>1, <3>1, AroundBit
  <2> DEFINE s == Mirror(y)
             a == BitOf(row, p)
             b == BitOf(y, p)
             r == w * row + q
             d == w * p
  <2>7. BitOf(s, p) = (s \div p) % 2
    BY DEF BitOf
  <2>8. /\ p >= ByteBits => BitOf(s, p) = b /\ Mirror(s + p) = y + p /\ Mirror(s - p) = y - p
        /\ ~(p >= ByteBits) =>
             /\ BitOf(s, p) = 1 - b
             /\ b = 1 => Mirror(s + p) = y - p
             /\ b = 0 => Mirror(s - p) = y + p
    <3>1. y \in Nat
      BY <1>1
    <3> QED
      BY <3>1, MirrorBit
  <2>9. Is(pos) = LET isA == a = 0
                      inMask == BitOf(s, p) = 0
                      kept == IF p >= ByteBits THEN isA <=> inMask ELSE isA <=> ~ inMask
                  IN IF kept THEN pos
                     ELSE BitIdx(IF isA THEN r + d ELSE r - d,
                                 IF inMask THEN s + p ELSE s - p)
    <3> HIDE DEF p, c, z, R
    <3> QED
      BY <2>2, <2>3, <2>5, <2>7
  <2> HIDE DEF Is, s, a, b
  <2>10. Partner(pos, c, p) = IF a = b THEN pos
                              ELSE IF a = 0 THEN pos + p * c - p ELSE pos - p * c + p
    <3> HIDE DEF p, c
    <3> QED
      BY <2>2, <2>4 DEF Partner, a, b
  <2>11. p \in Int /\ d \in Int /\ p * c = R * d /\ R * (0 - d) = 0 - R * d /\ R * d \in Int
         /\ r \in Int /\ y \in Int /\ R * r \in Int /\ pos = R * r + y
    <3>1. q \in Nat /\ y \in Nat /\ y \in Int /\ p \in Nat \ {0} /\ R \in Nat \ {0}
      BY <1>1
    <3> HIDE DEF p, R
    <3>2. /\ p \in Int /\ w * p \in Int /\ p * (w * R) = R * (w * p)
          /\ R * (0 - w * p) = 0 - R * (w * p) /\ R * (w * p) \in Int
          /\ w * row + q \in Int /\ R * (w * row + q) \in Int
      BY <3>1, Distances
    <3> QED
      BY <2>2, <3>1, <3>2
  <2>12. ASSUME NEW k \in Int, Mirror(k) = y - p
         PROVE  BitIdx(r + d, k) = pos + p * c - p
    <3> DEFINE e == 0 - p
               f == R * d
    <3>1. e \in Int /\ y - p = y + e
      <4> HIDE DEF p
      <4> QED
        BY <2>11
    <3>2. r \in Int /\ d \in Int /\ f \in Int /\ y \in Int /\ e \in Int
          /\ Mirror(k) = y + e /\ f = RegBits * d
      <4> HIDE DEF p, d, e
      <4> QED
        BY <2>11, <2>12, <3>1
    <3>3. BitIdx(r + d, k) = RegBits * r + y + f + e
      <4> HIDE DEF r, d, f, e
      <4> QED
        BY <3>2, BitAway
    <3>4. p * c = f /\ f \in Int /\ R * r \in Int /\ RegBits * r = R * r
      BY <2>11
    <3>5. pos = R * r + y /\ y \in Int /\ p \in Int
      BY <2>11
    <3> DEFINE x == R * r
               move == p * c
    <3>6. x \in Int /\ f \in Int /\ move = f /\ BitIdx(r + d, k) = x + y + f + (0 - p) /\ pos = x + y
      BY <3>3, <3>4, <3>5
    <3> HIDE DEF p, f, x, move, d, r
    <3>7. BitIdx(r + d, k) = pos + move - p
      BY <3>5, <3>6
    <3> QED
      BY <3>7 DEF move
  <2>13. ASSUME NEW k \in Int, Mirror(k) = y + p
         PROVE  BitIdx(r - d, k) = pos - p * c + p
    <3> DEFINE e == 0 - d
               f == 0 - R * d
    <3>1. e \in Int /\ r - d = r + e
      <4> HIDE DEF d, r
      <4> QED
        BY <2>11
    <3>2. r \in Int /\ e \in Int /\ f \in Int /\ y \in Int /\ p \in Int
          /\ Mirror(k) = y + p /\ f = RegBits * e
      <4> HIDE DEF p, d
      <4> QED
        BY <2>11, <2>13, <3>1
    <3>3. BitIdx(r + e, k) = RegBits * r + y + f + p
      <4> HIDE DEF r, p, f, e
      <4> QED
        BY <3>2, BitAway
    <3>4. p * c = 0 - f /\ f \in Int /\ R * r \in Int /\ RegBits * r = R * r
      <4> HIDE DEF p, d, R, c, r
      <4> QED
        BY <2>11 DEF R
    <3>5. pos = R * r + y /\ y \in Int /\ p \in Int
      BY <2>11
    <3> DEFINE x == R * r
               move == p * c
    <3>6. x \in Int /\ f \in Int /\ move = 0 - f /\ BitIdx(r - d, k) = x + y + f + p /\ pos = x + y
      BY <3>1, <3>3, <3>4, <3>5
    <3> HIDE DEF p, f, x, move, d, r
    <3>7. BitIdx(r - d, k) = pos - move + p
      BY <3>5, <3>6
    <3> QED
      BY <3>7 DEF move
  <2>15. s \in Int /\ s + p \in Int /\ s - p \in Int
    <3>1. s \in Int
      BY <2>11, MirrorType DEF s
    <3> HIDE DEF p
    <3> QED
      BY <2>11, <3>1
  <2>14. a \in {0, 1} /\ b \in {0, 1}
    BY <2>6 DEF a, b
  <2> HIDE DEF p, c, r, d, z, R
  <2> QED
    BY <2>8, <2>9, <2>10, <2>12, <2>13, <2>14, <2>15
<1>5. SwapLanes(m, z, c, i) = [pos \in DOMAIN m |-> m[Is(pos)]]
  <2> HIDE DEF z, c
  <2> QED
    BY Zenon DEF SwapLanes, Is, p
<1>6. Exchanged(m, c, p) = [pos \in DOMAIN m |-> m[Partner(pos, c, p)]]
  BY DEF Exchanged
<1> HIDE DEF Is, z, c, p
<1>7. SwapLanes(m, z, c, i) = Exchanged(m, c, p)
  BY <1>4, <1>5, <1>6
<1> QED
  BY <1>7 DEF z, c, p, R

(* There and back among the lanes. *)
LEMMA MirrorTwice ==
  ASSUME NEW y \in Int
  PROVE  Mirror(Mirror(y)) = y
<1> DEFINE B == ByteBits
           u == y \div B
           v == y % B
<1>1. B \in Nat \ {0}
  BY WidthsAre
<1>2. u \in Int /\ v \in 0 .. B - 1 /\ y = B * u + v
  <2> HIDE DEF B
  <2> QED
    BY <1>1, Remainder
<1>3. B - 1 - v \in 0 .. B - 1 /\ B - 1 - (B - 1 - v) = v
  <2> HIDE DEF B, v
  <2> QED
    BY <1>1, <1>2
<1>4. ASSUME NEW z \in 0 .. B - 1
      PROVE  Mirror(B * u + z) = B * u + (B - 1 - z)
  <2>1. u \in Int /\ z \in 0 .. ByteBits - 1
    BY <1>2
  <2> HIDE DEF u
  <2> QED
    BY <2>1, MirrorIs DEF B
<1> HIDE DEF B, u, v
<1>5. Mirror(y) = B * u + (B - 1 - v)
  BY <1>2, <1>4
<1>6. Mirror(B * u + (B - 1 - v)) = B * u + v
  BY <1>3, <1>4
<1> QED
  BY <1>2, <1>5, <1>6

(* A multiple of twice the weight does not change a bit. *)
LEMMA UpperHalf ==
  ASSUME NEW S \in Nat \ {0}, NEW k \in Nat, NEW q \in Nat
  PROVE  (S * (2 * k) + q) % (2 * S) >= S <=> BitOf(q, S) = 1
<1>1. PICK a \in Nat, r \in 0 .. S - 1 :
        /\ BitOf(q, S) \in {0, 1}
        /\ q \div S = 2 * a + BitOf(q, S)
        /\ q = S * (2 * a + BitOf(q, S)) + r
        /\ q \div (2 * S) = a /\ q % (2 * S) = S * BitOf(q, S) + r /\ q % S = r
  BY AroundBit
<1> DEFINE b == BitOf(q, S)
           d == 2 * S
           t == S * b + r
<1>2. d \in Nat \ {0} /\ b \in {0, 1} /\ t \in 0 .. d - 1 /\ (t >= S <=> b = 1)
  <2>1. b \in {0, 1} /\ d = 2 * S
    BY <1>1
  <2> HIDE DEF b, d
  <2>2. S * b = IF b = 1 THEN S ELSE 0
    BY <2>1
  <2> QED
    BY <2>1, <2>2
<1>3. S * (2 * k) + q = d * (k + a) + t
  <2>1. b \in Nat /\ q = S * (2 * a + b) + r
    BY <1>1
  <2> HIDE DEF b
  <2>2. S * (2 * a + b) = d * a + S * b
    BY <2>1
  <2>3. S * (2 * k) = d * k /\ d * (k + a) = d * k + d * a
    BY <2>1
  <2>4. d * k \in Int /\ d * a \in Int /\ S * b \in Int
    BY <2>1
  <2> HIDE DEF d
  <2> QED
    BY <2>1, <2>2, <2>3, <2>4
<1>4. (d * (k + a) + t) % d = t
  <2>1. k + a \in Int
    OBVIOUS
  <2> HIDE DEF d, t
  <2> QED
    BY <1>2, <2>1, OneRemainder
<1> HIDE DEF t
<1> QED
  BY <1>2, <1>3, <1>4

InGroup(w, p, row, q) == (w * row + q) % (2 * (w * p)) = w * (row % (2 * p)) + q

(* The place of a register in its group of rows. *)
LEMMA GroupRemainder ==
  ASSUME NEW w, NEW p, NEW row, NEW q, AreDigits(w, p, row, q)
  PROVE  InGroup(w, p, row, q)
<1> SUFFICES ASSUME w \in Nat \ {0}, p \in Nat \ {0}, row \in Nat, q \in 0 .. w - 1
             PROVE  (w * row + q) % (2 * (w * p)) = w * (row % (2 * p)) + q
  BY DEF AreDigits, InGroup
<1> DEFINE h == 2 * p
<1>1. h \in Nat \ {0} /\ w * h = 2 * (w * p)
  OBVIOUS
<1> HIDE DEF h
<1>2. (w * row + q) % (w * h) = w * (row % h) + q
  <2>1. AreDigits(w, h, row, q)
    BY <1>1 DEF AreDigits
  <2>2. Shortened(w, h, row, q)
    BY <2>1, TwoDigits
  <2> QED
    BY <2>2, Zenon DEF Shortened
<1> QED
  BY <1>1, <1>2 DEF h

(* A row whose number of registers is a multiple of 2 * S. *)
Wide(w, S) == \E o \in Nat \ {0} : w = S * (2 * o)

(* In a group of rows: whether a register is in its first half, and which half of
   their registers it is in. *)
Halves(w, S, p, row, q) ==
  LET d == w * p
      x == (w * row + q) % (2 * d)
  IN /\ BitOf(row, p) \in {0, 1} /\ BitOf(q, S) \in {0, 1}
     /\ BitOf(row, p) = 0 => x < d /\ (x % (2 * S) >= S <=> BitOf(q, S) = 1)
     /\ BitOf(row, p) = 1 => ~(x < d) /\ ((x - d) % (2 * S) >= S <=> BitOf(q, S) = 1)

(* Which half of the columns a register is in, and where in the group. *)
LEMMA RegisterBits ==
  ASSUME NEW S \in Nat \ {0}, NEW w \in Nat \ {0},
         NEW p \in Nat \ {0}, NEW row \in Nat, NEW q \in 0 .. w - 1, Wide(w, S)
  PROVE  Halves(w, S, p, row, q)
<1> DEFINE d == w * p
           x == (w * row + q) % (2 * d)
           b == BitOf(row, p)
<1>1. PICK a \in Nat, r \in 0 .. p - 1 : b \in {0, 1} /\ row % (2 * p) = p * b + r
  BY AroundBit
<1>2. BitOf(q, S) \in {0, 1}
  <2>1. q \in Nat
    OBVIOUS
  <2> QED
    BY <2>1, AroundBit
<1>3. x = w * (row % (2 * p)) + q
  <2>1. AreDigits(w, p, row, q)
    BY DEF AreDigits
  <2>2. InGroup(w, p, row, q)
    BY <2>1, GroupRemainder
  <2> QED
    BY <2>2, Zenon DEF InGroup
<1>10.        /\ BitOf(row, p) \in {0, 1} /\ BitOf(q, S) \in {0, 1}
              /\ BitOf(row, p) = 0 => x < d /\ (x % (2 * S) >= S <=> BitOf(q, S) = 1)
              /\ BitOf(row, p) = 1 => ~(x < d) /\ ((x - d) % (2 * S) >= S <=> BitOf(q, S) = 1)
  <2>0. PICK o \in Nat \ {0} : w = S * (2 * o)
    BY DEF Wide
  <2>4. x = d * b + (S * (2 * (o * r)) + q)
    <3> HIDE DEF b, x
    <3>1. w * (p * b + r) = d * b + w * r
      BY <1>1
    <3>2. w * r = S * (2 * (o * r))
      BY <1>1, <2>0
    <3>3. d * b \in Int /\ w * r \in Int /\ q \in Int
      BY <1>1
    <3> DEFINE f == d * b
               g == w * r
               k == S * (2 * (o * r))
    <3>4. f \in Int /\ g \in Int /\ q \in Int /\ g = k /\ x = f + g + q
      BY <1>1, <1>3, <3>1, <3>2, <3>3
    <3> HIDE DEF d, f, g, k
    <3>5. x = f + (k + q)
      BY <3>4
    <3> QED
      BY <3>5 DEF f, k
  <2>5. S * (2 * (o * r)) + q \in 0 .. d - 1
    <3>1. S * (2 * (o * r)) = w * r
      BY <1>1, <2>0
    <3>2. w * r <= w * (p - 1)
      BY <1>1
    <3>3. w * (p - 1) = d - w /\ d \in Int /\ w * r \in Nat
      BY <1>1
    <3> DEFINE z == w * r
               k == S * (2 * (o * r))
    <3>4. z \in Nat /\ z <= d - w /\ d \in Int /\ k = z
      BY <3>1, <3>2, <3>3
    <3> HIDE DEF d, z, k
    <3>5. k + q \in 0 .. d - 1
      BY <3>4
    <3> QED
      BY <3>5 DEF k
  <2>6. (S * (2 * (o * r)) + q) % (2 * S) >= S <=> BitOf(q, S) = 1
    <3> DEFINE k == o * r
    <3>1. k \in Nat /\ q \in Nat
      BY <1>1
    <3> HIDE DEF k
    <3>2. (S * (2 * k) + q) % (2 * S) >= S <=> BitOf(q, S) = 1
      BY <3>1, UpperHalf
    <3> QED
      BY <3>2 DEF k
  <2> DEFINE z == S * (2 * (o * r)) + q
  <2>7. z \in 0 .. d - 1 /\ x = d * b + z /\ d \in Int
        /\ (z % (2 * S) >= S <=> BitOf(q, S) = 1)
    BY <2>4, <2>5, <2>6
  <2>8. CASE b = 0
    <3> HIDE DEF z, d, x
    <3>1. d * b = 0
      BY <2>7, <2>8
    <3>2. x = z /\ x < d
      BY <2>7, <3>1
    <3>3. x < d /\ (x % (2 * S) >= S <=> BitOf(q, S) = 1) /\ b # 1
      BY <2>7, <2>8, <3>2
    <3> QED
      BY <1>2, <2>8, <3>3 DEF x, d, b
  <2>9. CASE b = 1
    <3> HIDE DEF z, d, x
    <3>1. d * b = d
      BY <2>7, <2>9
    <3>2. x - d = z /\ ~(x < d)
      BY <2>7, <3>1
    <3>3. ~(x < d) /\ ((x - d) % (2 * S) >= S <=> BitOf(q, S) = 1) /\ b # 0
      BY <2>7, <2>9, <3>2
    <3> QED
      BY <1>2, <2>9, <3>3 DEF x, d, b
  <2> QED
    BY <2>8, <2>9, <1>1
<1> QED
  BY <1>10, Zenon DEF Halves

(* A level of the second loop, in a matrix whose rows have registers enough for it. *)
LEMMA RegistersExchanged ==
  ASSUME NEW n \in Nat, NEW w \in Nat \ {0}, NEW i \in Nat, LOG2_REGISTER_SIZE <= i, i < n,
         Wide(w, Power(i - LOG2_REGISTER_SIZE)),
         NEW m, DOMAIN m = MatrixBits(n, w)
  PROVE  SwapRegisters(m, Power(n), w * RegBits, i) = Exchanged(m, w * RegBits, Power(i))
<1> DEFINE R == RegBits
           z == Power(n)
           c == w * R
           p == Power(i)
           S == Power(i - LOG2_REGISTER_SIZE)
           Is(pos) == LET destidx == Offset(c) * p
                          upper(k) == k % (2 * S) >= S
                          from(r) ==
                            LET q == r % (2 * destidx)
                            IN IF q < destidx /\ upper(q) THEN r + destidx - S
                               ELSE IF q >= destidx /\ ~ upper(q - destidx) THEN r - destidx + S
                               ELSE r
                      IN IF Register(pos) \notin Reached(z, c, i) THEN pos
                         ELSE BitIdx(from(Register(pos)), Lane(pos))
<1>1. R \in Nat \ {0} /\ p \in Nat \ {0} /\ S \in Nat \ {0} /\ p = R * S
  <2> DEFINE k == i - LOG2_REGISTER_SIZE
  <2>1. LOG2_REGISTER_SIZE \in Nat /\ k \in Nat /\ LOG2_REGISTER_SIZE + k = i /\ R = Power(LOG2_REGISTER_SIZE)
    <3>1. LOG2_REGISTER_SIZE \in Nat /\ R = Power(LOG2_REGISTER_SIZE)
      BY WidthsAre
    <3> QED
      BY <3>1
  <2>2. Power(LOG2_REGISTER_SIZE + k) = Power(LOG2_REGISTER_SIZE) * Power(k)
    <3> HIDE DEF k
    <3> QED
      BY <2>1, PowerSum
  <2>3. Power(i) \in Nat \ {0} /\ Power(k) \in Nat \ {0}
    <3> HIDE DEF k
    <3> QED
      BY <2>1, PowerPositive
  <2> QED
    BY <2>1, <2>2, <2>3, WidthsAre
<1>3. ASSUME NEW pos \in DOMAIN m
      PROVE  Is(pos) = Partner(pos, c, p)
  <2>1. pos \in Nat /\ pos \div c \in 0 .. z - 1
    BY RowBelow
  <2>2. PICK row \in Nat, q \in 0 .. w - 1, y \in 0 .. R - 1 :
           /\ pos \div c = row /\ pos % c = R * q + y
           /\ Register(pos) = w * row + q /\ Lane(pos) = Mirror(y)
           /\ pos = R * (w * row + q) + y
    BY <2>1, Coordinates
  <2>3. w * row + q \in Reached(z, c, i) /\ Offset(c) = w
    <3>1. row \in 0 .. z - 1 /\ i \in 0 .. n - 1
      BY <2>1, <2>2, <1>1
    <3> QED
      BY <3>1, AllReached
  <2> DEFINE r == w * row + q
             d == w * p
             a == BitOf(row, p)
             b == BitOf(q, S)
             x == r % (2 * d)
  <2>4. BitOf(pos % c, p) = b
    <3>1. AreDigits(R, S, q, y)
      BY <1>1 DEF AreDigits
    <3>2. BitOf(R * q + y, R * S) = b
      <4> HIDE DEF R, S
      <4> QED
        BY <3>1, ColumnBit
    <3> QED
      BY <1>1, <2>2, <3>2
  <2>5. /\ a \in {0, 1} /\ b \in {0, 1}
        /\ a = 0 => x < d /\ (x % (2 * S) >= S <=> b = 1)
        /\ a = 1 => ~(x < d) /\ ((x - d) % (2 * S) >= S <=> b = 1)
    <3>1. p \in Nat \ {0} /\ S \in Nat \ {0} /\ Wide(w, S)
      BY <1>1
    <3>2. Halves(w, S, p, row, q)
      <4> HIDE DEF p, S
      <4> QED
        BY <3>1, RegisterBits
    <3> HIDE DEF p, S
    <3> QED
      BY <3>2, Zenon DEF Halves
  <2>6. p \in Int /\ d \in Int /\ p * c = R * d /\ R * (0 - d) = 0 - R * d /\ R * d \in Int
        /\ r \in Int /\ y \in Int /\ R * r \in Int /\ pos = R * r + y
    <3>1. q \in Nat /\ y \in Nat /\ y \in Int /\ p \in Nat \ {0} /\ R \in Nat \ {0}
      BY <1>1
    <3> HIDE DEF p, R
    <3>2. /\ p \in Int /\ w * p \in Int /\ p * (w * R) = R * (w * p)
          /\ R * (0 - w * p) = 0 - R * (w * p) /\ R * (w * p) \in Int
          /\ w * row + q \in Int /\ R * (w * row + q) \in Int
      BY <3>1, Distances
    <3> QED
      BY <2>2, <3>1, <3>2
  <2>7. x \in Int
    <3>1. d \in Nat \ {0} /\ r \in Int
      <4>1. p \in Nat \ {0} /\ r \in Int
        BY <1>1, <2>6
      <4> HIDE DEF p, r
      <4> QED
        BY <4>1
    <3> HIDE DEF r, d
    <3>2. 2 * d \in Nat \ {0}
      BY <3>1
    <3> QED
      BY <3>1, <3>2, Remainder
  <2>8. Is(pos) = BitIdx(IF x < d /\ x % (2 * S) >= S THEN r + d - S
                         ELSE IF x >= d /\ ~ ((x - d) % (2 * S) >= S) THEN r - d + S
                         ELSE r, Mirror(y))
    <3> HIDE DEF p, c, z, R, S
    <3> QED
      BY <2>2, <2>3
  <2> HIDE DEF Is, a, b, x
  <2>9. Is(pos) = BitIdx(IF a = b THEN r ELSE IF a = 0 THEN r + d - S ELSE r - d + S, Mirror(y))
    <3>1. d \in Int
      BY <2>6
    <3> HIDE DEF p, c, z, R, S, d, r
    <3> QED
      BY <2>5, <2>7, <2>8, <3>1
  <2>10. Partner(pos, c, p) = IF a = b THEN pos
                              ELSE IF a = 0 THEN pos + p * c - p ELSE pos - p * c + p
    <3> HIDE DEF p, c
    <3> QED
      BY <2>2, <2>4 DEF Partner, a
  <2>11. ASSUME NEW e \in Int
         PROVE  BitIdx(r + e, Mirror(y)) = pos + R * e
    <3>1. r + e \in Int /\ y \in Int /\ Mirror(y) \in Int /\ R \in Nat \ {0} /\ r \in Int
      <4> HIDE DEF r
      <4> QED
        BY <1>1, <2>6, MirrorType
    <3>2. BitIdx(r + e, Mirror(y)) = RegBits * (r + e) + Mirror(Mirror(y))
      <4> HIDE DEF r
      <4> QED
        BY <3>1, BitIdxIs
    <3>3. Mirror(Mirror(y)) = y
      BY <3>1, MirrorTwice
    <3>4. R * (r + e) = R * r + R * e /\ R * e \in Int
      <4> HIDE DEF R, r
      <4> QED
        BY <3>1
    <3>5. BitIdx(r + e, Mirror(y)) = R * (r + e) + y /\ R * r \in Int /\ pos = R * r + y
      BY <2>6, <3>2, <3>3
    <3> HIDE DEF R, r
    <3> QED
      BY <3>1, <3>4, <3>5
  <2> DEFINE f == R * d
  <2>12. R * (d - S) = f - p /\ R * (S - d) = p - f /\ d - S \in Int /\ S - d \in Int
         /\ f \in Int /\ p * c = f /\ R * 0 = 0
    <3>1. R \in Nat \ {0} /\ S \in Nat \ {0} /\ p = R * S /\ d \in Int /\ R * d \in Int /\ p * c = R * d
      BY <1>1, <2>6
    <3> HIDE DEF R, S, d, p, c
    <3> QED
      BY <3>1
  <2>13. BitIdx(r, Mirror(y)) = pos /\ BitIdx(r + d - S, Mirror(y)) = pos + f - p
         /\ BitIdx(r - d + S, Mirror(y)) = pos - f + p
    <3>1. r + 0 = r /\ r + (d - S) = r + d - S /\ r + (S - d) = r - d + S
      <4>1. r \in Int /\ d \in Int /\ S \in Int
        BY <1>1, <2>6
      <4> HIDE DEF r, d, S
      <4> QED
        BY <4>1
    <3>2. BitIdx(r + 0, Mirror(y)) = pos + R * 0
      <4>1. 0 \in Int
        OBVIOUS
      <4> HIDE DEF r
      <4> QED
        BY <4>1, <2>11
    <3>3. BitIdx(r + (d - S), Mirror(y)) = pos + R * (d - S)
          /\ BitIdx(r + (S - d), Mirror(y)) = pos + R * (S - d)
      <4> HIDE DEF r, d, S
      <4> QED
        BY <2>11, <2>12
    <3>4. p \in Int /\ pos \in Int
      BY <1>1, <2>1
    <3> HIDE DEF r, d, S, f, p, R
    <3> QED
      BY <2>12, <3>1, <3>2, <3>3, <3>4
  <2> HIDE DEF p, c, r, d, z, R, f, S
  <2> QED
    BY <2>5, <2>9, <2>10, <2>12, <2>13
<1>4. SwapRegisters(m, z, c, i) = [pos \in DOMAIN m |-> m[Is(pos)]]
  <2> HIDE DEF z, c
  <2> QED
    BY Zenon DEF SwapRegisters, Is, p, S
<1>5. Exchanged(m, c, p) = [pos \in DOMAIN m |-> m[Partner(pos, c, p)]]
  BY DEF Exchanged
<1> HIDE DEF Is, z, c, p
<1>6. SwapRegisters(m, z, c, i) = Exchanged(m, c, p)
  BY <1>3, <1>4, <1>5
<1> QED
  BY <1>6 DEF z, c, p, R

(* The source of a place when the square blocks of p rows are transposed, each where
   it stands. *)
SourceAt(row, col, c, p) == ((row \div p) * p + (col % p)) * c + (col \div p) * p + (row % p)

Source(pos, c, p) == SourceAt(pos \div c, pos % c, c, p)

Crossed(m, c, p) == [pos \in DOMAIN m |-> m[Source(pos, c, p)]]

(* The digits of a row or of a column around the bit of weight p. *)
At(p, a, x, r) == p * (2 * a + x) + r

Digits(p, a, x, r) == p \in Nat \ {0} /\ a \in Nat /\ x \in {0, 1} /\ r \in 0 .. p - 1

HasDigits(v, p, a, x, r) ==
  /\ v \in Nat
  /\ v \div p = 2 * a + x /\ v % p = r
  /\ v \div (2 * p) = a /\ v % (2 * p) = p * x + r
  /\ BitOf(v, p) = x

(* A number that is put together from digits has these. *)
LEMMA AtDigits ==
  ASSUME NEW p, NEW a, NEW x, NEW r, Digits(p, a, x, r)
  PROVE  HasDigits(At(p, a, x, r), p, a, x, r)
<1> DEFINE u == 2 * a + x
<1>0. p \in Nat \ {0} /\ a \in Nat /\ x \in {0, 1} /\ r \in 0 .. p - 1
  BY DEF Digits
<1>1. u \in Nat /\ u \div 2 = a /\ u % 2 = x
  BY <1>0
<1> HIDE DEF u
<1>2. p * u + r \in Nat
  <2>1. p * u \in Nat
    BY <1>0, <1>1
  <2> QED
    BY <1>0, <2>1
<1>3. (p * u + r) \div p = u /\ (p * u + r) % p = r
  <2>1. p \in Nat \ {0} /\ u \in Int /\ r \in 0 .. p - 1
    BY <1>0, <1>1
  <2> QED
    BY <2>1, OneQuotient
<1>4. (p * u + r) \div (p * 2) = u \div 2 /\ (p * u + r) % (p * 2) = p * (u % 2) + r
  <2>1. AreDigits(p, 2, u, r)
    BY <1>0, <1>1 DEF AreDigits
  <2>2. Shortened(p, 2, u, r)
    BY <2>1, TwoDigits
  <2> QED
    BY <2>2, Zenon DEF Shortened
<1>5. p * 2 = 2 * p
  BY <1>0
<1>6. At(p, a, x, r) = p * u + r
  BY DEF At, u
<1> QED
  BY <1>1, <1>2, <1>3, <1>4, <1>5, <1>6 DEF BitOf, u, HasDigits

(* Numbers below a multiple of twice the weight stay below it when the bit changes. *)
LEMMA AtBelow ==
  ASSUME NEW p \in Nat \ {0}, NEW z \in Nat \ {0}, Wide(z, p), NEW v \in 0 .. z - 1
  PROVE  \E a \in Nat, x \in {0, 1}, r \in 0 .. p - 1 :
           /\ v = At(p, a, x, r)
           /\ \A y \in {0, 1} : At(p, a, y, r) \in 0 .. z - 1
<1>1. PICK a \in Nat, r \in 0 .. p - 1 :
        /\ BitOf(v, p) \in {0, 1}
        /\ v \div p = 2 * a + BitOf(v, p)
        /\ v = p * (2 * a + BitOf(v, p)) + r
        /\ v \div (2 * p) = a /\ v % (2 * p) = p * BitOf(v, p) + r /\ v % p = r
  <2>1. v \in Nat
    OBVIOUS
  <2> QED
    BY <2>1, AroundBit
<1>2. PICK o \in Nat \ {0} : z = p * (2 * o)
  BY DEF Wide
<1> DEFINE x == BitOf(v, p)
<1>3. a < o
  <2> SUFFICES ASSUME a >= o PROVE FALSE
    OBVIOUS
  <2>1. x \in Nat /\ v = p * (2 * a + x) + r /\ v < z
    BY <1>1
  <2> HIDE DEF x
  <2>2. p * (2 * a + x) >= p * (2 * o)
    BY <2>1
  <2>3. p * (2 * a + x) \in Nat
    BY <2>1
  <2> QED
    BY <1>2, <2>1, <2>2, <2>3
<1>4. ASSUME NEW y \in {0, 1}
      PROVE  At(p, a, y, r) \in 0 .. z - 1
  <2>1. p * (2 * a + y) <= p * (2 * o - 1)
    BY <1>3
  <2>2. p * (2 * o - 1) = p * (2 * o) - p /\ p * (2 * o) \in Int
    OBVIOUS
  <2>3. p * (2 * a + y) \in Nat
    OBVIOUS
  <2> DEFINE g == p * (2 * a + y)
             h == p * (2 * o)
  <2>4. g \in Nat /\ h \in Int /\ z = h /\ g <= h - p
    BY <1>2, <2>1, <2>2, <2>3
  <2> HIDE DEF g, h
  <2>5. g + r \in 0 .. z - 1
    BY <2>4
  <2> QED
    BY <2>5 DEF At, g
<1>5. v = At(p, a, x, r) /\ x \in {0, 1}
  BY <1>1 DEF At
<1> HIDE DEF x
<1> QED
  BY <1>4, <1>5

(* Row and column of a place. *)
AreSizes(z, c) == z \in Nat \ {0} /\ c \in Nat \ {0}

IsPlace(pos, row, col, z, c) ==
  /\ pos \in 0 .. z * c - 1 /\ row \in 0 .. z - 1 /\ col \in 0 .. c - 1
  /\ pos = c * row + col /\ pos \div c = row /\ pos % c = col

(* Each bit has a row and a column, and a row and a column make a bit. *)
LEMMA PlaceOf ==
  ASSUME NEW z, NEW c, AreSizes(z, c)
  PROVE  /\ \A pos \in 0 .. z * c - 1 : IsPlace(pos, pos \div c, pos % c, z, c)
         /\ \A row \in 0 .. z - 1, col \in 0 .. c - 1 : IsPlace(c * row + col, row, col, z, c)
<1> SUFFICES ASSUME z \in Nat \ {0}, c \in Nat \ {0}
             PROVE  /\ \A pos \in 0 .. z * c - 1 : IsPlace(pos, pos \div c, pos % c, z, c)
                    /\ \A row \in 0 .. z - 1, col \in 0 .. c - 1 :
                         IsPlace(c * row + col, row, col, z, c)
  BY DEF AreSizes
<1>1. ASSUME NEW pos \in 0 .. z * c - 1
      PROVE  pos \div c \in 0 .. z - 1 /\ pos % c \in 0 .. c - 1 /\ pos = c * (pos \div c) + (pos % c)
  <2> DEFINE row == pos \div c
             col == pos % c
  <2>1. z * c \in Nat
    OBVIOUS
  <2>2. pos \in Nat /\ pos \in Int /\ pos < z * c
    <3> DEFINE k == z * c
    <3> HIDE DEF k
    <3>1. pos \in 0 .. k - 1 /\ k \in Nat
      BY <2>1 DEF k
    <3>2. pos \in Nat /\ pos \in Int /\ pos < k
      BY <3>1
    <3> QED
      BY <3>2 DEF k
  <2>3. row \in Nat
    BY <2>2, DivBounds
  <2>4. col \in 0 .. c - 1 /\ pos = c * row + col
    BY <2>2, Remainder
  <2> HIDE DEF row, col
  <2>5. row < z
    <3> SUFFICES ASSUME row >= z PROVE FALSE
      BY <2>3
    <3>1. c * row >= c * z
      BY <2>3
    <3>2. c * z = z * c /\ c * row \in Int
      BY <2>3
    <3> QED
      BY <2>1, <2>2, <2>4, <3>1, <3>2
  <2>6. row \in 0 .. z - 1
    BY <2>3, <2>5
  <2> QED
    BY <2>4, <2>6 DEF row, col
<1>2. ASSUME NEW row \in 0 .. z - 1, NEW col \in 0 .. c - 1
      PROVE  /\ c * row + col \in 0 .. z * c - 1
             /\ (c * row + col) \div c = row /\ (c * row + col) % c = col
  <2>1. c * row <= c * (z - 1)
    OBVIOUS
  <2>2. c * (z - 1) = z * c - c /\ z * c \in Int /\ c * row \in Nat
    OBVIOUS
  <2> DEFINE g == c * row
             h == z * c
  <2>3. g \in Nat /\ h \in Int /\ g <= h - c
    BY <2>1, <2>2
  <2> HIDE DEF g, h
  <2>4. g + col \in 0 .. h - 1
    BY <2>3
  <2>5. row \in Int
    OBVIOUS
  <2>6. (c * row + col) \div c = row /\ (c * row + col) % c = col
    BY <2>5, OneQuotient
  <2> QED
    BY <2>4, <2>6 DEF g, h
<1>3. \A pos \in 0 .. z * c - 1 : IsPlace(pos, pos \div c, pos % c, z, c)
  BY <1>1, Zenon DEF IsPlace
<1>4. \A row \in 0 .. z - 1, col \in 0 .. c - 1 : IsPlace(c * row + col, row, col, z, c)
  BY <1>2, Zenon DEF IsPlace
<1> QED
  BY <1>3, <1>4

(* The place that a bit comes from in a level: its row and column with the bit exchanged. *)
LEMMA PartnerAt ==
  ASSUME NEW p, NEW c \in Nat \ {0}, NEW a, NEW x, NEW r, Digits(p, a, x, r),
         NEW b, NEW y, NEW s, Digits(p, b, y, s),
         NEW z, NEW pos, IsPlace(pos, At(p, a, x, r), At(p, b, y, s), z, c)
  PROVE  Partner(pos, c, p) = c * At(p, a, y, r) + At(p, b, x, s)
<1>0. /\ p \in Nat \ {0}
      /\ a \in Nat /\ x \in {0, 1} /\ r \in 0 .. p - 1
      /\ b \in Nat /\ y \in {0, 1} /\ s \in 0 .. p - 1
      /\ pos = c * At(p, a, x, r) + At(p, b, y, s)
      /\ pos \div c = At(p, a, x, r) /\ pos % c = At(p, b, y, s)
  BY DEF Digits, IsPlace
<1>1. Partner(pos, c, p) = IF x = y THEN pos
                           ELSE IF x = 0 THEN pos + p * c - p ELSE pos - p * c + p
  <2>1. BitOf(At(p, a, x, r), p) = x /\ BitOf(At(p, b, y, s), p) = y
    BY AtDigits DEF HasDigits
  <2> QED
    BY <1>0, <2>1, Zenon DEF Partner
<1>2. CASE x = y
  BY <1>0, <1>1, <1>2
<1> DEFINE g == p * (2 * a)
           h == p * (2 * b)
<1>3. g \in Nat /\ h \in Nat
  BY <1>0
<1>4. ASSUME NEW t \in {0, 1}
      PROVE  At(p, a, t, r) = g + p * t + r /\ At(p, b, t, s) = h + p * t + s
  <2>1. p * (2 * a + t) = g + p * t /\ p * (2 * b + t) = h + p * t
    BY <1>0
  <2> HIDE DEF g, h
  <2> QED
    BY <1>0, <1>3, <2>1 DEF At
<1> DEFINE e == g + r
           f == h + s
<1>5. /\ e \in Nat /\ f \in Nat
      /\ At(p, a, 0, r) = e /\ At(p, a, 1, r) = e + p
      /\ At(p, b, 0, s) = f /\ At(p, b, 1, s) = f + p
  <2> HIDE DEF g, h
  <2>1. p * 0 = 0 /\ p * 1 = p /\ 0 \in {0, 1} /\ 1 \in {0, 1}
    BY <1>0
  <2> QED
    BY <1>0, <1>3, <1>4, <2>1
<1> HIDE DEF e, f
<1>6. c * (e + p) = c * e + p * c /\ c * e \in Int /\ p * c \in Int
  BY <1>0, <1>5
<1>7. CASE x = 0 /\ y = 1
  BY <1>0, <1>1, <1>5, <1>6, <1>7
<1>8. CASE x = 1 /\ y = 0
  BY <1>0, <1>1, <1>5, <1>6, <1>8
<1> QED
  BY <1>0, <1>2, <1>7, <1>8

SameSource(p, c, a, x, r, b, y, s) ==
  SourceAt(At(p, a, y, r), At(p, b, x, s), c, p) =
    SourceAt(At(p, a, x, r), At(p, b, y, s), c, 2 * p)

(* What one more level does to the place where a bit comes from. *)
LEMMA SourceNext ==
  ASSUME NEW c \in Nat \ {0}, NEW p, NEW a, NEW x, NEW r, Digits(p, a, x, r),
         NEW b, NEW y, NEW s, Digits(p, b, y, s)
  PROVE  SameSource(p, c, a, x, r, b, y, s)
<1>0. /\ p \in Nat \ {0}
      /\ a \in Nat /\ x \in {0, 1} /\ r \in 0 .. p - 1
      /\ b \in Nat /\ y \in {0, 1} /\ s \in 0 .. p - 1
      /\ Digits(p, a, y, r) /\ Digits(p, b, x, s)
  BY DEF Digits
<1>1. SourceAt(At(p, a, y, r), At(p, b, x, s), c, p) = ((2 * a + y) * p + s) * c + (2 * b + x) * p + r
  <2>1. At(p, a, y, r) \div p = 2 * a + y /\ At(p, a, y, r) % p = r
    BY <1>0, AtDigits DEF HasDigits
  <2>2. At(p, b, x, s) \div p = 2 * b + x /\ At(p, b, x, s) % p = s
    BY <1>0, AtDigits DEF HasDigits
  <2> QED
    BY <2>1, <2>2, Zenon DEF SourceAt
<1>2. SourceAt(At(p, a, x, r), At(p, b, y, s), c, 2 * p) =
        (a * (2 * p) + (p * y + s)) * c + b * (2 * p) + (p * x + r)
  <2>1. At(p, a, x, r) \div (2 * p) = a /\ At(p, a, x, r) % (2 * p) = p * x + r
    BY <1>0, AtDigits DEF HasDigits
  <2>2. At(p, b, y, s) \div (2 * p) = b /\ At(p, b, y, s) % (2 * p) = p * y + s
    BY <1>0, AtDigits DEF HasDigits
  <2> QED
    BY <2>1, <2>2, Zenon DEF SourceAt
<1>3. (2 * a + y) * p + s = a * (2 * p) + (p * y + s)
  BY <1>0
<1>4. (2 * b + x) * p + r = b * (2 * p) + (p * x + r)
  BY <1>0
<1> DEFINE g == ((2 * a + y) * p + s) * c
           h == (2 * b + x) * p
           k == b * (2 * p)
           l == p * x
<1>5. g \in Int /\ h \in Int /\ k \in Int /\ l \in Int /\ h + r = k + (l + r)
  <2>1. h \in Int /\ k \in Int /\ l \in Int
    BY <1>0
  <2>2. g \in Int
    <3> DEFINE u == (2 * a + y) * p + s
    <3>1. u \in Int
      BY <1>0
    <3> HIDE DEF u
    <3>2. u * c \in Int
      BY <3>1
    <3> QED
      BY <3>2 DEF u
  <2> QED
    BY <1>4, <2>1, <2>2
<1>6. SourceAt(At(p, a, y, r), At(p, b, x, s), c, p) = g + h + r
  BY <1>1
<1>7. SourceAt(At(p, a, x, r), At(p, b, y, s), c, 2 * p) = g + k + (l + r)
  BY <1>2, <1>3
<1> HIDE DEF g, h, k, l
<1>8. g + h + r = g + k + (l + r)
  BY <1>0, <1>5
<1> QED
  BY <1>6, <1>7, <1>8, Zenon DEF SameSource

(* With one level more the blocks of twice as many rows are transposed. *)
LEMMA NextCrossed ==
  ASSUME NEW p \in Nat \ {0}, NEW z \in Nat \ {0}, NEW c \in Nat \ {0}, Wide(z, p), Wide(c, p),
         NEW m, DOMAIN m = 0 .. z * c - 1
  PROVE  Exchanged(Crossed(m, c, p), c, p) = Crossed(m, c, 2 * p)
<1>1. ASSUME NEW pos \in DOMAIN m
      PROVE  /\ Partner(pos, c, p) \in DOMAIN m
             /\ Source(Partner(pos, c, p), c, p) = Source(pos, c, 2 * p)
  <2> DEFINE row == pos \div c
             col == pos % c
             D == 0 .. z * c - 1
  <2>0. AreSizes(z, c) /\ pos \in D /\ DOMAIN m = D
    BY DEF AreSizes
  <2>1. IsPlace(pos, row, col, z, c)
    <3> HIDE DEF D
    <3> QED
      BY <2>0, PlaceOf DEF D
  <2>2. row \in 0 .. z - 1 /\ col \in 0 .. c - 1
    BY <2>1, Zenon DEF IsPlace
  <2> HIDE DEF D, row, col
  <2>3. PICK a \in Nat, x \in {0, 1}, r \in 0 .. p - 1 :
           /\ row = At(p, a, x, r)
           /\ \A y \in {0, 1} : At(p, a, y, r) \in 0 .. z - 1
    BY <2>2, AtBelow
  <2>4. PICK b \in Nat, y \in {0, 1}, s \in 0 .. p - 1 :
           /\ col = At(p, b, y, s)
           /\ \A t \in {0, 1} : At(p, b, t, s) \in 0 .. c - 1
    BY <2>2, AtBelow
  <2> DEFINE k == c * At(p, a, y, r) + At(p, b, x, s)
  <2>5. Digits(p, a, x, r) /\ Digits(p, b, y, s)
    BY DEF Digits
  <2>6. Partner(pos, c, p) = k
    <3>1. IsPlace(pos, At(p, a, x, r), At(p, b, y, s), z, c)
      BY <2>1, <2>3, <2>4
    <3> QED
      BY <2>5, <3>1, PartnerAt
  <2>7. IsPlace(k, At(p, a, y, r), At(p, b, x, s), z, c)
    <3>1. At(p, a, y, r) \in 0 .. z - 1 /\ At(p, b, x, s) \in 0 .. c - 1
      BY <2>3, <2>4
    <3> QED
      BY <2>0, <3>1, PlaceOf
  <2> HIDE DEF k
  <2>8. Source(k, c, p) = SourceAt(At(p, a, y, r), At(p, b, x, s), c, p)
    BY <2>7, Zenon DEF Source, IsPlace
  <2>9. Source(pos, c, 2 * p) = SourceAt(At(p, a, x, r), At(p, b, y, s), c, 2 * p)
    BY <2>3, <2>4, Zenon DEF Source, row, col
  <2>10. Source(k, c, p) = Source(pos, c, 2 * p)
    <3>1. SameSource(p, c, a, x, r, b, y, s)
      BY <2>5, SourceNext
    <3> QED
      BY <2>8, <2>9, <3>1, Zenon DEF SameSource
  <2>11. k \in DOMAIN m
    BY <2>0, <2>7, Zenon DEF D, IsPlace
  <2> QED
    BY <2>6, <2>10, <2>11, Zenon
<1>2. DOMAIN Crossed(m, c, p) = DOMAIN m
  BY DEF Crossed
<1>3. ASSUME NEW pos \in DOMAIN m
      PROVE  Exchanged(Crossed(m, c, p), c, p)[pos] = m[Source(pos, c, 2 * p)]
  <2>1. Exchanged(Crossed(m, c, p), c, p)[pos] = Crossed(m, c, p)[Partner(pos, c, p)]
    BY <1>2, Zenon DEF Exchanged
  <2>2. Crossed(m, c, p)[Partner(pos, c, p)] = m[Source(Partner(pos, c, p), c, p)]
    BY <1>1, Zenon DEF Crossed
  <2> QED
    BY <1>1, <2>1, <2>2
<1>4. Exchanged(Crossed(m, c, p), c, p) =
        [pos \in DOMAIN m |-> Exchanged(Crossed(m, c, p), c, p)[pos]]
  BY <1>2, Zenon DEF Exchanged
<1>5. Crossed(m, c, 2 * p) = [pos \in DOMAIN m |-> m[Source(pos, c, 2 * p)]]
  BY DEF Crossed
<1> DEFINE E == Exchanged(Crossed(m, c, p), c, p)
<1> HIDE DEF E
<1>6. E = [pos \in DOMAIN m |-> m[Source(pos, c, 2 * p)]]
  BY <1>3, <1>4 DEF E
<1> QED
  BY <1>5, <1>6 DEF E

(* Before the first level every place is its own source. *)
LEMMA FirstCrossed ==
  ASSUME NEW z \in Nat \ {0}, NEW c \in Nat \ {0},
         NEW m, m = [pos \in 0 .. z * c - 1 |-> m[pos]]
  PROVE  Crossed(m, c, 1) = m
<1> DEFINE D == 0 .. z * c - 1
<1>1. ASSUME NEW pos \in D
      PROVE  Source(pos, c, 1) = pos
  <2> DEFINE row == pos \div c
             col == pos % c
  <2>1. row \in 0 .. z - 1 /\ col \in 0 .. c - 1 /\ pos = c * row + col
    <3>1. AreSizes(z, c)
      BY DEF AreSizes
    <3> QED
      BY <3>1, PlaceOf DEF IsPlace
  <2>2. Source(pos, c, 1) = ((row \div 1) * 1 + (col % 1)) * c + (col \div 1) * 1 + (row % 1)
    BY DEF Source, SourceAt
  <2> HIDE DEF row, col
  <2>3. row \div 1 = row /\ col % 1 = 0 /\ col \div 1 = col /\ row % 1 = 0
    BY <2>1
  <2>4. (row * 1 + 0) * c = c * row
    BY <2>1
  <2> QED
    BY <2>1, <2>2, <2>3, <2>4
<1>2. DOMAIN m = D
  OBVIOUS
<1>3. Crossed(m, c, 1) = [pos \in D |-> m[Source(pos, c, 1)]]
  BY <1>2 DEF Crossed
<1>4. [pos \in D |-> m[Source(pos, c, 1)]] = [pos \in D |-> m[pos]]
  <2> HIDE DEF D
  <2> QED
    BY <1>1
<1> QED
  BY <1>3, <1>4

(* The registers of a row of a matrix whose width is a multiple of its height. *)
LEMMA WidthIs ==
  ASSUME NEW n \in Nat, LOG2_REGISTER_SIZE <= n, NEW k \in Nat \ {0}
  PROVE  \E v \in Nat \ {0} :
           /\ v = Power(n - LOG2_REGISTER_SIZE) /\ Power(n) = v * RegBits
           /\ k * Power(n) = (k * v) * RegBits /\ k * v \in Nat \ {0}
           /\ Power(n) \div RegBits = v
<1> DEFINE l == LOG2_REGISTER_SIZE
           v == Power(n - l)
           R == RegBits
<1>1. l \in Nat /\ R = Power(l) /\ n - l \in Nat /\ l + (n - l) = n
  BY WidthsAre
<1>2. v \in Nat \ {0} /\ R \in Nat \ {0} /\ Power(n) = R * v
  <2>1. Power(l + (n - l)) = Power(l) * Power(n - l)
    <3> DEFINE d == n - l
    <3>1. d \in Nat /\ l \in Nat
      BY <1>1
    <3> HIDE DEF l, d
    <3>2. Power(l + d) = Power(l) * Power(d)
      BY <3>1, PowerSum
    <3> QED
      BY <3>2 DEF d
  <2>2. Power(n - l) \in Nat \ {0} /\ Power(l) \in Nat \ {0}
    <3> HIDE DEF l
    <3> QED
      BY <1>1, PowerPositive
  <2> QED
    BY <1>1, <2>1, <2>2
<1> HIDE DEF v, R
<1>3. Power(n) = v * R
  BY <1>2
<1>4. k * (v * R) = (k * v) * R /\ k * v \in Nat \ {0}
  BY <1>2
<1>5. (R * v + 0) \div R = v
  <2>1. R \in Nat \ {0} /\ v \in Int /\ 0 \in 0 .. R - 1
    BY <1>2
  <2> QED
    BY <2>1, OneQuotient
<1>6. Power(n) \div R = v
  <2>1. R * v + 0 = R * v
    BY <1>2
  <2> QED
    BY <1>2, <1>5, <2>1
<1>7. k * Power(n) = (k * v) * R
  BY <1>3, <1>4
<1> QED
  BY <1>2, <1>3, <1>4, <1>6, <1>7 DEF v, R

(* Levels below the height exchange bits that both rows and columns have. *)
LEMMA LevelsFit ==
  ASSUME NEW n \in Nat, NEW i \in Nat, i < n, NEW k \in Nat \ {0}
  PROVE  Wide(k * Power(n), Power(i))
<1> DEFINE p == Power(i)
           o == Power(n - (i + 1))
<1>1. n - (i + 1) \in Nat /\ i + 1 \in Nat /\ (i + 1) + (n - (i + 1)) = n
  OBVIOUS
<1>2. Power(n) = Power(i + 1) * o /\ Power(i + 1) = 2 * p
  BY <1>1, PowerSum, PowerNext
<1>3. p \in Nat \ {0} /\ o \in Nat \ {0}
  BY <1>1, PowerPositive
<1> HIDE DEF p, o
<1>4. k * ((2 * p) * o) = p * (2 * (k * o)) /\ k * o \in Nat \ {0}
  BY <1>3
<1>5. k * Power(n) = p * (2 * (k * o))
  BY <1>2, <1>4
<1> QED
  BY <1>4, <1>5 DEF Wide, p

(* One level of the transposition. *)
LEMMA LevelIs ==
  ASSUME NEW n \in Nat, LOG2_REGISTER_SIZE <= n, NEW k \in Nat \ {0}, NEW i \in 0 .. n - 1,
         NEW m, DOMAIN m = 0 .. Power(n) * (k * Power(n)) - 1
  PROVE  LET c == k * Power(n)
             before == Crossed(m, c, Power(i))
         IN Crossed(m, c, Power(i + 1)) =
              IF i + 1 <= LOG2_REGISTER_SIZE THEN SwapLanes(before, Power(n), c, i)
                                             ELSE SwapRegisters(before, Power(n), c, i)
<1> DEFINE l == LOG2_REGISTER_SIZE
           c == k * Power(n)
           p == Power(i)
           before == Crossed(m, c, p)
<1> SUFFICES Crossed(m, c, Power(i + 1)) =
               IF i + 1 <= l THEN SwapLanes(before, Power(n), c, i)
                             ELSE SwapRegisters(before, Power(n), c, i)
  OBVIOUS
<1>1. i \in Nat /\ i < n /\ l \in Nat
  BY WidthsAre
<1>2. PICK v \in Nat \ {0} :
           /\ v = Power(n - LOG2_REGISTER_SIZE) /\ Power(n) = v * RegBits
           /\ k * Power(n) = (k * v) * RegBits /\ k * v \in Nat \ {0}
           /\ Power(n) \div RegBits = v
  BY WidthIs
<1> DEFINE w == k * v
<1>3. w \in Nat \ {0} /\ c = w * RegBits
  BY <1>2
<1>4. DOMAIN before = MatrixBits(n, w)
  <2>1. DOMAIN before = DOMAIN m
    BY DEF Crossed
  <2>2. DOMAIN m = 0 .. Power(n) * c - 1
    OBVIOUS
  <2> HIDE DEF c, w, before
  <2> QED
    BY <1>3, <2>1, <2>2 DEF MatrixBits
<1>5. Exchanged(before, c, p) = Crossed(m, c, Power(i + 1))
  <2> DEFINE z == Power(n)
  <2>1. z \in Nat \ {0} /\ p \in Nat \ {0} /\ Power(i + 1) = 2 * p
    BY <1>1, PowerPositive, PowerNext
  <2>2. c \in Nat \ {0}
    <3> HIDE DEF z
    <3>1. k * z \in Nat \ {0}
      BY <2>1
    <3> QED
      BY <3>1 DEF z
  <2>3. Wide(z, p) /\ Wide(c, p)
    <3>1. Wide(1 * z, p) /\ Wide(k * z, p)
      <4>1. 1 \in Nat \ {0}
        OBVIOUS
      <4>2. \A x \in Nat \ {0} : Wide(x * Power(n), Power(i))
        BY <1>1, LevelsFit
      <4> QED
        BY <4>1, <4>2
    <3>2. 1 * z = z
      BY <2>1
    <3> QED
      BY <3>1, <3>2
  <2>4. DOMAIN m = 0 .. z * c - 1
    OBVIOUS
  <2> HIDE DEF z, c, p, before
  <2>5. Exchanged(Crossed(m, c, p), c, p) = Crossed(m, c, 2 * p)
    BY <2>1, <2>2, <2>3, <2>4, NextCrossed
  <2> QED
    BY <2>1, <2>5 DEF before
<1>6. CASE i + 1 <= l
  <2>1. i \in 0 .. LOG2_REGISTER_SIZE - 1
    BY <1>1, <1>6
  <2>2. SwapLanes(before, Power(n), w * RegBits, i) = Exchanged(before, w * RegBits, Power(i))
    <3> HIDE DEF before, w, l
    <3> QED
      BY <1>1, <1>3, <1>4, <2>1, LanesExchanged
  <2> HIDE DEF before, w
  <2> QED
    BY <1>3, <1>5, <1>6, <2>2
<1>7. CASE ~(i + 1 <= l)
  <2>1. l <= i /\ i - l \in Nat
    BY <1>1, <1>7
  <2>2. Wide(w, Power(i - l))
    <3>1. \A x \in Nat \ {0} : Wide(x * Power(n - l), Power(i - l))
      <4> DEFINE d == n - l
                 e == i - l
      <4>1. d \in Nat /\ e \in Nat /\ e < d
        BY <1>1, <2>1
      <4> HIDE DEF d, e
      <4>2. \A x \in Nat \ {0} : Wide(x * Power(d), Power(e))
        BY <4>1, LevelsFit
      <4> QED
        BY <4>2 DEF d, e
    <3> QED
      BY <1>2, <3>1
  <2>3. SwapRegisters(before, Power(n), w * RegBits, i) = Exchanged(before, w * RegBits, Power(i))
    <3>1. LOG2_REGISTER_SIZE <= i /\ Wide(w, Power(i - LOG2_REGISTER_SIZE))
      BY <2>1, <2>2
    <3> HIDE DEF before, w, l
    <3> QED
      BY <1>1, <1>3, <1>4, <3>1, RegistersExchanged
  <2> HIDE DEF before, w
  <2> QED
    BY <1>3, <1>5, <1>7, <2>3
<1> QED
  BY <1>6, <1>7

(* The widths of the matrices are numbers. *)
LEMMA UpTo == \A n \in 1 .. 30 : n \in Nat
  OBVIOUS

(* All levels: the square blocks as high as the matrix are transposed. *)
LEMMA LevelsAre ==
  ASSUME NEW n \in 1 .. 30, LOG2_REGISTER_SIZE <= n, NEW k \in Nat \ {0},
         NEW m, m = [pos \in 0 .. Power(n) * (k * Power(n)) - 1 |-> m[pos]]
  PROVE  EklundhBitTranspose(m, Power(n), k * Power(n)) =
           StackBlocks(Crossed(m, k * Power(n), Power(n)), Power(n), k * Power(n))
<1> DEFINE z == Power(n)
           c == k * z
           l == LOG2_REGISTER_SIZE
           levels == Greater(ceil_log2(z), l)
           Step(f, i) == IF i = 0 THEN m
                         ELSE IF i <= l THEN SwapLanes(f[i - 1], z, c, i - 1)
                                        ELSE SwapRegisters(f[i - 1], z, c, i - 1)
           Rec(f) == f = [i \in 0 .. levels |->
                            IF i = 0 THEN m
                            ELSE IF i <= l THEN SwapLanes(f[i - 1], z, c, i - 1)
                                           ELSE SwapRegisters(f[i - 1], z, c, i - 1)]
           after == CHOOSE f : Rec(f)
           closed == [i \in 0 .. levels |-> Crossed(m, c, Power(i))]
<1>1. n \in Nat /\ l \in Nat /\ levels = n
  <2>1. ceil_log2(Power(n)) = n
    BY LogOfPower
  <2>2. n \in Nat
    BY UpTo, Zenon
  <2>3. l \in Nat
    <3>1. PICK b \in 1 .. 3 : l \in b .. 6
      BY WidthsAre
    <3> HIDE DEF l
    <3> QED
      BY <3>1
  <2> HIDE DEF l
  <2> QED
    BY <2>1, <2>2, <2>3 DEF Greater, l
<1>2. z \in Nat \ {0} /\ c \in Nat \ {0}
  <2>1. z \in Nat \ {0}
    BY <1>1, PowerPositive
  <2> HIDE DEF z
  <2>2. k * z \in Nat \ {0}
    BY <2>1
  <2> QED
    BY <2>1, <2>2
<1>3. Crossed(m, c, Power(0)) = m
  <2> HIDE DEF z, c
  <2>1. m = [pos \in 0 .. z * c - 1 |-> m[pos]]
    BY DEF z, c
  <2>2. Crossed(m, c, 1) = m
    BY <1>2, <2>1, FirstCrossed
  <2> QED
    BY <2>2, PowerZero
<1>4. ASSUME NEW i \in 0 .. n - 1
      PROVE  Crossed(m, c, Power(i + 1)) =
               IF i + 1 <= l THEN SwapLanes(Crossed(m, c, Power(i)), z, c, i)
                             ELSE SwapRegisters(Crossed(m, c, Power(i)), z, c, i)
  <2>1. DOMAIN m = 0 .. Power(n) * (k * Power(n)) - 1
    OBVIOUS
  <2> QED
    BY <1>1, <2>1, LevelIs
<1> HIDE DEF z, c, l, levels
<1>5. Rec(closed)
  <2>1. ASSUME NEW i \in 0 .. levels, i # 0
        PROVE  i - 1 \in 0 .. levels /\ i - 1 \in 0 .. n - 1 /\ (i - 1) + 1 = i
    BY <1>1, <2>1
  <2>2. ASSUME NEW i \in 0 .. levels
        PROVE  closed[i] = Step(closed, i)
    <3>1. CASE i = 0
      BY <1>3, <3>1
    <3>2. CASE i # 0
      <4>1. i - 1 \in 0 .. levels /\ i - 1 \in 0 .. n - 1 /\ (i - 1) + 1 = i
        BY <2>1, <3>2
      <4>2. Crossed(m, c, Power((i - 1) + 1)) =
              IF (i - 1) + 1 <= l THEN SwapLanes(Crossed(m, c, Power(i - 1)), z, c, i - 1)
                                  ELSE SwapRegisters(Crossed(m, c, Power(i - 1)), z, c, i - 1)
        BY <1>4, <4>1
      <4> QED
        BY <3>2, <4>1, <4>2
    <3> QED
      BY <3>1, <3>2
  <2> HIDE DEF closed
  <2>3. closed = [i \in 0 .. levels |-> closed[i]]
    BY Zenon DEF closed
  <2>4. closed = [i \in 0 .. levels |-> Step(closed, i)]
    <3> HIDE DEF Step
    <3> QED
      BY <2>2, <2>3
  <2> QED
    BY <2>4
<1>6. Rec(after)
  <2> HIDE DEF Rec, closed
  <2> QED
    BY <1>5, Zenon
<1> HIDE DEF after
<1>7. after[levels] = closed[levels]
  <2> DEFINE T == {i \in 0 .. levels : after[i] # closed[i]}
  <2> SUFFICES ASSUME T # {} PROVE FALSE
    <3>1. levels \in 0 .. levels
      BY <1>1
    <3> HIDE DEF closed
    <3> QED
      BY <3>1
  <2>1. T \subseteq Nat
    OBVIOUS
  <2>2. PICK x \in T : \A y \in T : x <= y
    <3> HIDE DEF T
    <3> QED
      BY <2>1, Least
  <2>3. x \in 0 .. levels /\ after[x] # closed[x]
    OBVIOUS
  <2>4. ASSUME NEW f, Rec(f)
        PROVE  f[x] = Step(f, x)
    BY <2>3, <2>4
  <2>5. after[x] = Step(after, x) /\ closed[x] = Step(closed, x)
    <3> HIDE DEF Step, Rec, closed
    <3> QED
      BY <1>5, <1>6, <2>4
  <2>6. CASE x = 0
    BY <2>3, <2>5, <2>6
  <2>7. CASE x # 0
    <3>1. x - 1 \in 0 .. levels /\ ~(x <= x - 1)
      BY <1>1, <2>3, <2>7
    <3>2. after[x - 1] = closed[x - 1]
      <4> HIDE DEF closed
      <4> QED
        BY <2>2, <3>1
    <3> HIDE DEF closed
    <3> QED
      BY <2>3, <2>5, <3>2
  <2> QED
    BY <2>6, <2>7
<1>8. closed[levels] = Crossed(m, c, z)
  <2>1. levels \in 0 .. levels /\ Power(levels) = z
    BY <1>1 DEF z
  <2> QED
    BY <2>1
<1>9. EklundhBitTranspose(m, z, c) = StackBlocks(after[levels], z, c)
  BY Zenon DEF EklundhBitTranspose, after, levels, l
<1> HIDE DEF closed
<1>10. EklundhBitTranspose(m, z, c) = StackBlocks(Crossed(m, c, z), z, c)
  BY <1>7, <1>8, <1>9
<1> QED
  BY <1>10 DEF z, c

(* A matrix that is as wide as high has one block, which is the whole. *)
LEMMA OneBlock ==
  ASSUME NEW c \in Nat \ {0}, NEW m, DOMAIN m = 0 .. c * c - 1
  PROVE  Crossed(m, c, c) = Transposed(m, c, c)
<1> DEFINE D == 0 .. c * c - 1
<1>1. ASSUME NEW pos \in D
      PROVE  Source(pos, c, c) = (pos % c) * c + pos \div c
  <2> DEFINE row == pos \div c
             col == pos % c
  <2>1. row \in 0 .. c - 1 /\ col \in 0 .. c - 1
    <3>1. AreSizes(c, c)
      BY DEF AreSizes
    <3>2. IsPlace(pos, row, col, c, c)
      BY <3>1, PlaceOf
    <3> QED
      BY <3>2, Zenon DEF IsPlace
  <2> HIDE DEF D, row, col
  <2>2. ASSUME NEW x \in 0 .. c - 1
        PROVE  x \div c = 0 /\ x % c = x
    <3>1. (c * 0 + x) \div c = 0 /\ (c * 0 + x) % c = x
      <4>1. 0 \in Int
        OBVIOUS
      <4> QED
        BY <4>1, OneQuotient
    <3>2. c * 0 + x = x
      OBVIOUS
    <3> QED
      BY <3>1, <3>2
  <2>3. SourceAt(row, col, c, c) = (0 * c + col) * c + 0 * c + row
    BY <2>1, <2>2 DEF SourceAt
  <2>4. (0 * c + col) * c + 0 * c + row = col * c + row
    <3>1. 0 * c = 0 /\ 0 + col = col /\ col * c \in Int
      BY <2>1
    <3> QED
      BY <2>1, <3>1
  <2> QED
    BY <2>3, <2>4 DEF Source, row, col
<1>2. Crossed(m, c, c) = [pos \in D |-> m[Source(pos, c, c)]]
  BY Zenon DEF Crossed
<1>3. Transposed(m, c, c) = [pos \in D |-> m[(pos % c) * c + pos \div c]]
  BY Zenon DEF Transposed
<1> HIDE DEF D
<1> QED
  BY <1>1, <1>2, <1>3

(* The copy at the end takes the rows of the blocks one after the other. *)
LEMMA StackedFrom ==
  ASSUME NEW z \in Nat \ {0}, NEW v \in Nat \ {0}, NEW k \in Nat \ {0}, NEW pos
  PROVE  LET c == k * z
             r == Register(pos)
             i == r \div (v * z)
             j == (r \div v) % z
         IN (z = v * RegBits /\ pos \in 0 .. z * (k * z) - 1) =>
            BitIdx(j * (k * v) + i * v + (r % v), Lane(pos)) =
              c * ((pos \div z) % z) + (z * ((pos \div z) \div z) + (pos % z))
<1>a. ASSUME NEW row \in Nat, NEW q \in 0 .. v - 1
      PROVE  (v * row + q) \div (v * z) = row \div z /\ row \div z \in Nat /\ row % z \in Nat
  <2>1. (v * row + q) \div (v * z) = row \div z
    BY RowGroup
  <2>2. row \div z \in Nat
    BY DivBounds
  <2>3. row % z \in 0 .. z - 1
    BY Remainder
  <2> QED
    BY <2>1, <2>2, <2>3
<1> SUFFICES ASSUME z = v * RegBits, pos \in 0 .. z * (k * z) - 1
             PROVE  LET c == k * z
                        r == Register(pos)
                        i == r \div (v * z)
                        j == (r \div v) % z
                    IN BitIdx(j * (k * v) + i * v + (r % v), Lane(pos)) =
                         c * ((pos \div z) % z) + (z * ((pos \div z) \div z) + (pos % z))
  BY Zenon
<1> DEFINE R == RegBits
           c == k * z
<1>1. pos \in Nat
  <2> DEFINE h == z * (k * z)
  <2>1. h \in Int
    OBVIOUS
  <2>2. pos \in 0 .. h - 1
    OBVIOUS
  <2> HIDE DEF h
  <2> QED
    BY <2>1, <2>2
<1>2. PICK row \in Nat, q \in 0 .. v - 1, y \in 0 .. RegBits - 1 :
        /\ pos \div (v * RegBits) = row /\ pos % (v * RegBits) = RegBits * q + y
        /\ Register(pos) = v * row + q /\ Lane(pos) = Mirror(y)
        /\ pos = RegBits * (v * row + q) + y
  BY <1>1, Coordinates
<1> DEFINE r == v * row + q
           i == r \div (v * z)
           j == (r \div v) % z
<1>3. pos \div z = row /\ pos % z = R * q + y
  BY <1>2
<1>4. R \in Nat \ {0}
  BY WidthsAre
<1>5. r \div v = row /\ r % v = q /\ i = row \div z
  <2>1. v \in Nat \ {0} /\ row \in Nat /\ row \in Int /\ q \in 0 .. v - 1 /\ z \in Nat \ {0}
    OBVIOUS
  <2>2. (v * row + q) \div v = row /\ (v * row + q) % v = q
    BY <2>1, OneQuotient
  <2>3. (v * row + q) \div (v * z) = row \div z
    BY <1>a
  <2> QED
    BY <2>2, <2>3
<1> HIDE DEF r, i, j
<1> DEFINE a == row \div z
           b == row % z
<1>6. a \in Nat /\ b \in Nat
  BY <1>a
<1>7. i = a /\ j = b /\ r % v = q
  BY <1>5 DEF j
<1> HIDE DEF a, b, R
<1>8. y \in Int /\ Mirror(y) \in Int
  <2>1. y \in Int
    BY <1>4 DEF R
  <2> QED
    BY <2>1, MirrorType
<1> DEFINE g == b * (k * v) + a * v + q
<1>9. g \in Int
  <2>1. b * (k * v) \in Int /\ a * v \in Int
    BY <1>6
  <2> QED
    BY <2>1
<1>10. BitIdx(g, Mirror(y)) = RegBits * g + Mirror(Mirror(y))
  <2> HIDE DEF g
  <2> QED
    BY <1>8, <1>9, BitIdxIs
<1>11. Mirror(Mirror(y)) = y
  BY <1>8, MirrorTwice
<1>12. R * g = c * b + (z * a + R * q)
  <2>1. z = v * R
    BY DEF R
  <2>2. R * (b * (k * v)) = (k * (v * R)) * b
    BY <1>4, <1>6
  <2>3. R * (a * v) = (v * R) * a
    BY <1>4, <1>6
  <2> DEFINE e == b * (k * v)
             f == a * v
  <2>4. e \in Int /\ f \in Int /\ q \in Int
    BY <1>6
  <2>5. g = e + f + q
    OBVIOUS
  <2>6. R * e = c * b /\ R * f = z * a
    BY <2>1, <2>2, <2>3
  <2> HIDE DEF e, f, g, c
  <2>7. R * (e + f + q) = R * e + (R * f + R * q)
    BY <1>4, <2>4
  <2> QED
    BY <2>5, <2>6, <2>7
<1>13. BitIdx(j * (k * v) + i * v + (r % v), Mirror(y)) = R * g + y
  <2>1. BitIdx(g, Mirror(y)) = R * g + y
    BY <1>10, <1>11 DEF R
  <2> QED
    BY <1>7, <2>1
<1>14. R * g + y = c * b + (z * a + (R * q + y))
  <2> DEFINE s == c * b
             t == z * a
             u == R * q
             h == R * g
  <2>1. t \in Int /\ u \in Int /\ c \in Int
    BY <1>4, <1>6
  <2>2. s \in Int
    <3> HIDE DEF c
    <3> QED
      BY <1>6, <2>1
  <2>3. h = s + (t + u) /\ y \in Int
    BY <1>8, <1>12
  <2> HIDE DEF s, t, u, h
  <2>4. h + y = s + (t + (u + y))
    BY <2>1, <2>2, <2>3
  <2> QED
    BY <2>4 DEF s, t, u, h
<1>15. Register(pos) = r /\ Lane(pos) = Mirror(y)
  BY <1>2 DEF r
<1>16. BitIdx(j * (k * v) + i * v + (r % v), Lane(pos)) =
         c * ((pos \div z) % z) + (z * ((pos \div z) \div z) + (pos % z))
  <2>1. a = (pos \div z) \div z /\ b = (pos \div z) % z /\ pos % z = R * q + y
    BY <1>3 DEF a, b
  <2> HIDE DEF c, g
  <2> QED
    BY <1>13, <1>14, <1>15, <2>1, Zenon
<1> QED
  BY <1>15, <1>16, Zenon DEF i, j, c

(* Where the copy finds the bit in the matrix. *)
LEMMA StackedSource ==
  ASSUME NEW z \in Nat \ {0}, NEW k \in Nat \ {0}, NEW pos \in 0 .. z * (k * z) - 1
  PROVE  LET c == k * z
             s == c * ((pos \div z) % z) + (z * ((pos \div z) \div z) + (pos % z))
         IN s \in 0 .. z * c - 1 /\ Source(s, c, z) = (pos % z) * c + pos \div z
<1> DEFINE c == k * z
           row == pos \div z
           y == pos % z
           a == row \div z
           b == row % z
           x == z * a + y
           s == c * b + x
<1>1. c \in Nat \ {0}
  OBVIOUS
<1>2. row \in 0 .. c - 1 /\ y \in 0 .. z - 1
  <2>1. AreSizes(c, z)
    BY <1>1 DEF AreSizes
  <2>2. z * (k * z) = c * z
    OBVIOUS
  <2>3. pos \in 0 .. c * z - 1
    BY <2>2
  <2>4. IsPlace(pos, row, y, c, z)
    <3> HIDE DEF c
    <3> QED
      BY <2>1, <2>3, PlaceOf
  <2> QED
    BY <2>4, Zenon DEF IsPlace
<1>3. a \in 0 .. k - 1 /\ b \in 0 .. z - 1 /\ row = z * a + b
  <2>1. AreSizes(k, z)
    BY DEF AreSizes
  <2>2. IsPlace(row, a, b, k, z)
    <3> HIDE DEF row
    <3> QED
      BY <1>2, <2>1, PlaceOf
  <2> QED
    BY <2>2, Zenon DEF IsPlace
<1> HIDE DEF row, y, a, b
<1>4. x \in 0 .. c - 1 /\ x \div z = a /\ x % z = y
  <2>1. AreSizes(k, z)
    BY DEF AreSizes
  <2>2. IsPlace(z * a + y, a, y, k, z)
    BY <1>2, <1>3, <2>1, PlaceOf
  <2> QED
    BY <2>2, Zenon DEF IsPlace
<1>5. b \div z = 0 /\ b % z = b
  <2>1. (z * 0 + b) \div z = 0 /\ (z * 0 + b) % z = b
    <3>1. 0 \in Int
      OBVIOUS
    <3> QED
      BY <1>3, <3>1, OneQuotient
  <2>2. z * 0 + b = b
    BY <1>3
  <2> QED
    BY <2>1, <2>2
<1> HIDE DEF x, c
<1>6. IsPlace(s, b, x, z, c)
  <2>1. AreSizes(z, c)
    BY <1>1 DEF AreSizes
  <2> QED
    BY <1>3, <1>4, <2>1, PlaceOf
<1>7. Source(s, c, z) = SourceAt(b, x, c, z) /\ s \in 0 .. z * c - 1
  BY <1>6, Zenon DEF Source, IsPlace
<1>8. SourceAt(b, x, c, z) = (0 * z + y) * c + a * z + b
  BY <1>4, <1>5, Zenon DEF SourceAt
<1>9. (0 * z + y) * c + a * z + b = y * c + row
  <2>1. 0 * z + y = y /\ a * z = z * a /\ y * c \in Int /\ z * a \in Int /\ b \in Int
    BY <1>1, <1>2, <1>3
  <2> DEFINE e == y * c
             f == z * a
  <2>2. e \in Int /\ f \in Int /\ b \in Int /\ row = f + b
    BY <1>3, <2>1
  <2> HIDE DEF e, f
  <2>3. e + f + b = e + row
    BY <2>2
  <2> QED
    BY <2>1, <2>3 DEF e, f
<1>10. s \in 0 .. z * c - 1 /\ Source(s, c, z) = y * c + row
  BY <1>7, <1>8, <1>9, Zenon
<1> QED
  BY <1>10, Zenon DEF c, row, y, a, b, x

(* EklundhBitTranspose exchanges rows and columns, for every height that is a power of two
   and not below the width of a register, and every width that is a multiple of it: the
   levels inside of registers, where bits and lanes are in opposite orders, those of whole
   registers, and the copy at the end together. *)
THEOREM TransposesEveryWidth ==
  ASSUME NEW n \in 1 .. 30, LOG2_REGISTER_SIZE <= n, NEW k \in Nat \ {0},
         NEW m, m = [pos \in 0 .. Power(n) * (k * Power(n)) - 1 |-> m[pos]]
  PROVE  EklundhBitTranspose(m, Power(n), k * Power(n)) = Transposed(m, Power(n), k * Power(n))
<1> DEFINE z == Power(n)
           c == k * z
           X == Crossed(m, c, z)
<1>1. n \in Nat /\ z \in Nat \ {0}
  <2>1. n \in Nat
    BY UpTo, Zenon
  <2> QED
    BY <2>1, PowerPositive
<1>2. EklundhBitTranspose(m, z, c) = StackBlocks(X, z, c)
  BY LevelsAre
<1>3. DOMAIN m = 0 .. z * c - 1 /\ DOMAIN X = DOMAIN m
  <2>1. DOMAIN m = 0 .. z * c - 1
    OBVIOUS
  <2>2. DOMAIN X = DOMAIN m
    BY DEF Crossed
  <2> QED
    BY <2>1, <2>2
<1>4. CASE k = 1
  <2>1. c = z
    <3> HIDE DEF z
    <3> QED
      BY <1>1, <1>4
  <2>2. StackBlocks(X, z, c) = X
    <3> HIDE DEF z, X, c
    <3> QED
      BY <1>1, <2>1 DEF StackBlocks
  <2>3. Crossed(m, z, z) = Transposed(m, z, z)
    <3>1. DOMAIN m = 0 .. z * z - 1
      BY <1>3, <2>1
    <3> HIDE DEF z, c
    <3> QED
      BY <1>1, <3>1, OneBlock
  <2>4. StackBlocks(X, z, c) = Transposed(m, z, c)
    <3> HIDE DEF z, c
    <3> QED
      BY <2>1, <2>2, <2>3 DEF X
  <2> QED
    BY <1>2, <2>4
<1>5. CASE k # 1
  <2>1. PICK v \in Nat \ {0} :
           /\ v = Power(n - LOG2_REGISTER_SIZE) /\ Power(n) = v * RegBits
           /\ k * Power(n) = (k * v) * RegBits /\ k * v \in Nat \ {0}
           /\ Power(n) \div RegBits = v
    BY <1>1, WidthIs
  <2>2. ~(c <= z)
    <3> HIDE DEF z
    <3>1. k * z >= 2 * z
      BY <1>1, <1>5
    <3> QED
      BY <1>1, <3>1
  <2>3. Offset(c) = k * v
    <3> DEFINE w == k * v
               R == RegBits
    <3>1. w \in Nat \ {0} /\ R \in Nat \ {0} /\ c = w * R
      BY <2>1, WidthsAre
    <3> HIDE DEF w, R, c
    <3>2. (R * w + 0) \div R = w
      <4>1. w \in Int /\ 0 \in 0 .. R - 1
        BY <3>1
      <4> QED
        BY <3>1, <4>1, OneQuotient
    <3>3. R * w + 0 = w * R
      BY <3>1
    <3>4. c \div R = w
      BY <3>1, <3>2, <3>3
    <3> QED
      BY <3>4 DEF Offset, R, w
  <2> DEFINE From(pos) == LET r == Register(pos)
                              i == r \div (v * z)
                              j == (r \div v) % z
                          IN BitIdx(j * (k * v) + i * v + (r % v), Lane(pos))
  <2>4. StackBlocks(X, z, c) = [pos \in DOMAIN m |-> X[From(pos)]]
    <3>1. z \div RegBits = v
      BY <2>1
    <3> HIDE DEF z, c, X
    <3> QED
      BY <1>3, <2>2, <2>3, <3>1, Zenon DEF StackBlocks
  <2>5. ASSUME NEW pos \in DOMAIN m
        PROVE  X[From(pos)] = m[(pos % z) * c + pos \div z]
    <3> DEFINE s == c * ((pos \div z) % z) + (z * ((pos \div z) \div z) + (pos % z))
    <3>1. From(pos) = s
      <4>1. z \in Nat \ {0} /\ z = v * RegBits /\ pos \in 0 .. z * (k * z) - 1
        BY <1>1, <1>3, <2>1
      <4> HIDE DEF z
      <4> QED
        BY <4>1, StackedFrom
    <3>2. s \in 0 .. z * c - 1 /\ Source(s, c, z) = (pos % z) * c + pos \div z
      <4>1. z \in Nat \ {0} /\ pos \in 0 .. z * (k * z) - 1
        BY <1>1, <1>3
      <4> HIDE DEF z
      <4> QED
        BY <4>1, StackedSource
    <3> HIDE DEF From, s, z, c
    <3>3. X[s] = m[Source(s, c, z)]
      <4>1. s \in DOMAIN m
        BY <1>3, <3>2, Zenon
      <4> QED
        BY <4>1, Zenon DEF Crossed
    <3> QED
      BY <3>1, <3>2, <3>3, Zenon
  <2>6. Transposed(m, z, c) = [pos \in DOMAIN m |-> m[(pos % z) * c + pos \div z]]
    BY DEF Transposed
  <2> HIDE DEF From, X, z, c
  <2>7. StackBlocks(X, z, c) = Transposed(m, z, c)
    BY <2>4, <2>5, <2>6
  <2> QED
    BY <1>2, <2>7 DEF z, c
<1> QED
  BY <1>4, <1>5

(***************************************************************************)
(* What the masks are.                                                     *)
(***************************************************************************)

(* OT i is in the round of thread t that begins at o. *)
InRound(t, o, i) == Point(t, o) /\ o < OtLim(t) /\ i \in o .. NextOtId(t, o) - 1

(* Mask e of p belongs to bin i. *)
InBin(p, i, e) == StartingPos(p)[i] <= e /\ e < StartingPos(p)[i + 1]

(* The value that a mask is made of: the client has one for each bin. *)
ValueAt(p, i, e) == inst.table[p][IF p = CLIENT THEN i ELSE e]

(* Bit k of the code words of v and of the client's value in bin i, where the server has
   chosen. *)
Difference(i, v, k) ==
  IF k \in inst.U THEN Xor(Encode(inst.table[CLIENT][i], k), Encode(v, k)) ELSE {}

(* The row that OT i of the round that begins at o yields for the value v. *)
RowOf(o, i, v) ==
  [k \in BaseOTs |-> Xor(Prg(ClientKeys[2 * k], o, i - o), Difference(i, v, k))]

(* m is the mask e of p. *)
IsMask(p, e, m) ==
  \E t \in Threads, o \in Nat, i \in 0 .. nOTs - 1 :
    InRound(t, o, i) /\ InBin(p, i, e) /\ m = <<RowOf(o, i, ValueAt(p, i, e)), i>>

(* What the client sends of base OT k and OT o + j in the round that begins at o. *)
SentBit(o, k, j) ==
  Xor(Xor(Prg(ClientKeys[2 * k + 1], o, j), Prg(ClientKeys[2 * k], o, j)),
      Encode(inst.table[CLIENT][o + j], k))

(* The matrix of the round of thread t that begins at o is in f, from place a on. *)
Holds(f, a, t, o) ==
  \A k \in BaseOTs, j \in 0 .. OtLen(t, o) - 1 :
    f[a + (k * ProcessedOTs(t, o) + j)] = SentBit(o, k, j)

(***************************************************************************)
(* The matrices.                                                           *)
(***************************************************************************)

(* The length of a code word is a width for which transposing is proved. *)
LEMMA CodeWords ==
  \E n \in 1 .. 30 : CodeWordBits = Power(n) /\ LOG2_REGISTER_SIZE <= n
<1>1. PICK n \in 1 .. 30 : CodeWordBits = Power(n)
  BY TablesOK
<1>2. CodeWordBits % RegBits = 0 /\ CodeWordBits \in Nat \ {0} /\ RegBits \in Nat \ {0}
  BY TablesOK, GroupOK, WidthsAre
<1>3. RegBits = Power(LOG2_REGISTER_SIZE) /\ LOG2_REGISTER_SIZE \in Nat
  BY WidthsAre
<1> HIDE DEF RegBits, LOG2_REGISTER_SIZE
<1>4. RegBits <= CodeWordBits
  <2> SUFFICES ASSUME CodeWordBits < RegBits PROVE FALSE
    BY <1>2
  <2>1. CodeWordBits % RegBits = CodeWordBits
    <3>1. (RegBits * 0 + CodeWordBits) % RegBits = CodeWordBits
      <4>1. 0 \in Int /\ CodeWordBits \in 0 .. RegBits - 1
        BY <1>2
      <4> QED
        BY <1>2, <4>1, OneRemainder
    <3>2. RegBits * 0 + CodeWordBits = CodeWordBits
      BY <1>2
    <3> QED
      BY <3>1, <3>2
  <2> QED
    BY <1>2, <2>1
<1>5. LOG2_REGISTER_SIZE <= n
  <2> SUFFICES ASSUME n < LOG2_REGISTER_SIZE PROVE FALSE
    BY <1>3
  <2>1. n \in Nat
    BY UpTo
  <2>2. Power(n) < Power(LOG2_REGISTER_SIZE)
    BY <1>3, <2>1, PowerGrows
  <2>3. Power(n) \in Nat /\ Power(LOG2_REGISTER_SIZE) \in Nat
    BY <1>3, <2>1, PowerPositive
  <2> QED
    BY <1>1, <1>3, <1>4, <2>2, <2>3
<1> QED
  BY <1>1, <1>5

(* A place in a matrix of columns and in its transposed one. *)
LEMMA MatrixPlaces ==
  ASSUME NEW z \in Nat \ {0}, NEW columns \in Nat \ {0}, NEW k \in 0 .. z - 1, NEW j \in 0 .. columns - 1
  PROVE  /\ k * columns + j \in 0 .. z * columns - 1
         /\ (k * columns + j) \div columns = k /\ (k * columns + j) % columns = j
<1>1. IsPlace(columns * k + j, k, j, z, columns)
  BY PlaceOf DEF AreSizes
<1>2. columns * k = k * columns
  OBVIOUS
<1> QED
  BY <1>1, <1>2, Zenon DEF IsPlace

(* A matrix of b square blocks beside each other. *)
Filled(m, b) == m = [pos \in 0 .. CodeWordBits * (b * CodeWordBits) - 1 |-> m[pos]]

(* What is at a place after transposing. *)
LEMMA TransposedBit ==
  ASSUME NEW b \in Nat \ {0}, NEW m, Filled(m, b),
         NEW k \in BaseOTs, NEW j \in 0 .. b * CodeWordBits - 1
  PROVE  EklundhBitTranspose(m, CodeWordBits, b * CodeWordBits)[j * CodeWordBits + k] =
           m[k * (b * CodeWordBits) + j]
<1> DEFINE z == CodeWordBits
           c == b * z
<1>1. z \in Nat \ {0} /\ k \in 0 .. z - 1
  BY GroupOK DEF BaseOTs
<1>2. PICK n \in 1 .. 30 : z = Power(n) /\ LOG2_REGISTER_SIZE <= n
  BY CodeWords
<1> HIDE DEF z
<1>3. c \in Nat \ {0}
  BY <1>1
<1>4. EklundhBitTranspose(m, z, c) = Transposed(m, z, c)
  <2>1. m = [pos \in 0 .. Power(n) * (b * Power(n)) - 1 |-> m[pos]]
    BY <1>2 DEF z, Filled
  <2>2. EklundhBitTranspose(m, Power(n), b * Power(n)) = Transposed(m, Power(n), b * Power(n))
    BY <1>2, <2>1, TransposesEveryWidth
  <2> QED
    BY <1>2, <2>2
<1>5. DOMAIN m = 0 .. z * c - 1
  BY DEF z, Filled
<1>6. j \in 0 .. c - 1
  BY DEF z
<1> HIDE DEF c
<1>7. /\ j * z + k \in 0 .. c * z - 1
      /\ (j * z + k) \div z = j /\ (j * z + k) % z = k
  BY <1>1, <1>3, <1>6, MatrixPlaces
<1>8. c * z = z * c
  BY <1>1, <1>3
<1>9. j * z + k \in DOMAIN m
  BY <1>5, <1>7, <1>8
<1>10. Transposed(m, z, c)[j * z + k] = m[((j * z + k) % z) * c + ((j * z + k) \div z)]
  BY <1>9, Zenon DEF Transposed
<1> QED
  BY <1>4, <1>7, <1>10 DEF z, c

(* Xor is an addition. *)
LEMMA XorIs ==
  ASSUME NEW a, NEW b, NEW c
  PROVE  /\ Xor(a, {}) = a /\ Xor(a, a) = {}
         /\ Xor(Xor(a, b), c) = Xor(a, Xor(b, c))
         /\ Xor(a, b) = Xor(b, a)
<1>1. Xor(Xor(a, b), c) = Xor(a, Xor(b, c))
  BY SMT DEF Xor
<1> QED
  BY <1>1 DEF Xor

(* What was added on both sides is as good as nothing. *)
LEMMA XorCancels ==
  ASSUME NEW a, NEW b, NEW c
  PROVE  /\ Xor(a, b) = Xor(a, c) => b = c
         /\ Xor(b, Xor(Xor(b, a), c)) = Xor(a, c)
<1>1. ASSUME NEW x, NEW y
      PROVE  Xor(x, Xor(x, y)) = y
  <2>1. Xor(Xor(x, x), y) = Xor(x, Xor(x, y)) /\ Xor(x, x) = {} /\ Xor({}, y) = Xor(y, {}) /\ Xor(y, {}) = y
    BY XorIs
  <2> QED
    BY <2>1
<1>2. Xor(Xor(b, a), c) = Xor(b, Xor(a, c))
  BY XorIs
<1> QED
  BY <1>1, <1>2

(* A mask belongs to one bin. *)
LEMMA OneBin ==
  ASSUME inst \in Instances, NEW p \in Party, NEW e \in Nat,
         NEW i \in 0 .. nOTs - 1, NEW j \in 0 .. nOTs - 1, InBin(p, i, e), InBin(p, j, e)
  PROVE  i = j
<1> DEFINE s == StartingPos(p)
<1>1. /\ nOTs \in Nat
      /\ \A x \in 0 .. nOTs : s[x] \in Nat
      /\ \A x \in 0 .. nOTs : \A y \in x .. nOTs : s[x] <= s[y]
  BY Places
<1>2. s[i] <= e /\ e < s[i + 1] /\ s[j] <= e /\ e < s[j + 1]
  BY DEF InBin
<1> HIDE DEF s
<1>3. ASSUME NEW x \in 0 .. nOTs - 1, NEW y \in 0 .. nOTs - 1, x < y
      PROVE  s[x + 1] <= s[y] /\ s[x + 1] \in Nat /\ s[y] \in Nat
  <2>1. x + 1 \in 0 .. nOTs /\ y \in (x + 1) .. nOTs /\ y \in 0 .. nOTs
    BY <1>1, <1>3
  <2> QED
    BY <1>1, <2>1
<1>4. ~ (i < j)
  BY <1>2, <1>3
<1>5. ~ (j < i)
  BY <1>2, <1>3
<1> QED
  BY <1>1, <1>4, <1>5

(* The server knows it. *)
LEMMA BinIs ==
  ASSUME inst \in Instances, NEW e \in 0 .. NMasks(SERVER) - 1
  PROVE  BinOf(e) \in 0 .. nOTs - 1 /\ InBin(SERVER, BinOf(e), e)
<1>1. \E i \in 0 .. nOTs - 1 : StartingPos(SERVER)[i] <= e /\ e < StartingPos(SERVER)[i + 1]
  BY Places, Parties
<1> QED
  BY <1>1, Zenon DEF BinOf, InBin

(* The sizes of a round's matrices. *)
LEMMA RoundSizes ==
  ASSUME inst \in Instances, NEW t \in Threads, NEW o \in Nat, o < OtLim(t)
  PROVE  /\ Blocks(t, o) \in Nat \ {0} /\ ProcessedOTs(t, o) = Blocks(t, o) * CodeWordBits
         /\ ProcessedOTs(t, o) \in Nat \ {0}
         /\ OtLen(t, o) \in Nat \ {0} /\ OtLen(t, o) <= ProcessedOTs(t, o)
         /\ CeilDivide(OtLen(t, o), CodeWordBits) = Blocks(t, o)
         /\ NextOtId(t, o) = o + OtLen(t, o) /\ o + OtLen(t, o) <= nOTs /\ nOTs \in Nat
<1>1. /\ Blocks(t, o) \in Nat \ {0} /\ Blocks(t, o) = CeilDivide(OtLen(t, o), CodeWordBits)
      /\ OtLen(t, o) \in Nat \ {0} /\ OtLen(t, o) <= OtLim(t) - o
  BY Round
<1>2. ProcessedOTs(t, o) = Blocks(t, o) * CodeWordBits /\ CodeWordBits \in Nat \ {0}
  BY GroupOK DEF ProcessedOTs
<1>3. ProcessedOTs(t, o) \in Nat \ {0}
  <2>1. PICK b, z : b = Blocks(t, o) /\ z = CodeWordBits
    OBVIOUS
  <2>2. b \in Nat \ {0} /\ z \in Nat \ {0}
    BY <1>1, <1>2, <2>1
  <2>3. b * z \in Nat \ {0}
    BY <2>2
  <2> QED
    BY <1>2, <2>1, <2>3
<1>4. OtLim(t) \in Nat /\ OtLim(t) <= nOTs /\ nOTs \in Nat
  BY Part, Shares
<1>5. OtLen(t, o) <= ProcessedOTs(t, o)
  BY <1>3, <1>4 DEF OtLen, Lesser
<1> QED
  BY <1>1, <1>2, <1>3, <1>4, <1>5 DEF NextOtId

(* A row of the client is the stream of its first key. *)
LEMMA ClientBit ==
  ASSUME inst \in Instances, keySeedMtx = ClientKeys, NEW t \in Threads, NEW o \in Nat, o < OtLim(t),
         NEW k \in BaseOTs, NEW j \in 0 .. OtLen(t, o) - 1
  PROVE  EklundhBitTranspose(MatrixT(o, ProcessedOTs(t, o)), CodeWordBits, ProcessedOTs(t, o))
           [j * CodeWordBits + k] = Prg(ClientKeys[2 * k], o, j)
<1> DEFINE b == Blocks(t, o)
           c == b * CodeWordBits
           m == MatrixT(o, c)
<1>1. b \in Nat \ {0} /\ ProcessedOTs(t, o) = c /\ c \in Nat \ {0} /\ j \in 0 .. c - 1
  <2>1. b \in Nat \ {0} /\ ProcessedOTs(t, o) = c /\ c \in Nat \ {0} /\ OtLen(t, o) \in Nat /\ OtLen(t, o) <= c
    BY RoundSizes
  <2> HIDE DEF b, c
  <2> QED
    BY <2>1
<1>2. k \in 0 .. CodeWordBits - 1 /\ CodeWordBits \in Nat \ {0}
  BY GroupOK DEF BaseOTs
<1>3. m = [pos \in 0 .. CodeWordBits * (b * CodeWordBits) - 1 |-> m[pos]]
  BY DEF MatrixT
<1>4. \A pos \in 0 .. CodeWordBits * c - 1 : m[pos] = Prg(ClientKeys[2 * (pos \div c)], o, pos % c)
  BY DEF MatrixT
<1> HIDE DEF m
<1>5. EklundhBitTranspose(m, CodeWordBits, c)[j * CodeWordBits + k] = m[k * c + j]
  <2> HIDE DEF b
  <2>1. b \in Nat \ {0} /\ j \in 0 .. b * CodeWordBits - 1
    BY <1>1
  <2>2. Filled(m, b)
    BY <1>3, Zenon DEF Filled
  <2>3. EklundhBitTranspose(m, CodeWordBits, b * CodeWordBits)[j * CodeWordBits + k] =
          m[k * (b * CodeWordBits) + j]
    BY <2>1, <2>2, TransposedBit, Zenon
  <2> QED
    BY <2>3, Zenon
<1> HIDE DEF c
<1>6. /\ k * c + j \in 0 .. CodeWordBits * c - 1
      /\ (k * c + j) \div c = k /\ (k * c + j) % c = j
  BY <1>1, <1>2, MatrixPlaces
<1>7. m[k * c + j] = Prg(ClientKeys[2 * k], o, j)
  <2>1. PICK pos : pos = k * c + j
    OBVIOUS
  <2>2. m[pos] = Prg(ClientKeys[2 * (pos \div c)], o, pos % c)
    BY <1>4, <1>6, <2>1
  <2> QED
    BY <1>6, <2>1, <2>2
<1> QED
  BY <1>1, <1>5, <1>7 DEF m

(* The jobs of the client are the masks of its values. *)
LEMMA ClientRows ==
  ASSUME inst \in Instances, keySeedMtx = ClientKeys,
         NEW t \in Threads, NEW o \in Nat, o < OtLim(t), Point(t, o),
         NEW n \in 1 .. OtLen(t, o), NEW job,
         job = ClientJobs(o, ProcessedOTs(t, o), OtLen(t, o))[n], job.cell # NoCell
  PROVE  IsMask(CLIENT, job.cell, Hashed(job))
<1> DEFINE j == n - 1
           i == o + j
           T == EklundhBitTranspose(MatrixT(o, ProcessedOTs(t, o)), CodeWordBits, ProcessedOTs(t, o))
<1>1. /\ NextOtId(t, o) = o + OtLen(t, o) /\ o + OtLen(t, o) <= nOTs /\ nOTs \in Nat
      /\ OtLen(t, o) \in Nat
  BY RoundSizes
<1>2. /\ j \in 0 .. OtLen(t, o) - 1 /\ i \in 0 .. nOTs - 1 /\ i \in o .. NextOtId(t, o) - 1
      /\ i - o = j /\ o + n - 1 = i /\ i \in 0 .. nOTs
  BY <1>1
<1>3. job.cell = ClientCell(o + n - 1) /\ job.row = Row(T, n - 1) /\ job.ctr = o + n - 1
  BY DEF ClientJobs
<1> HIDE DEF T, i, j
<1>4. job.cell = ClientCell(i) /\ job.row = Row(T, j) /\ job.ctr = i
  BY <1>2, <1>3 DEF j
<1>5. InBin(CLIENT, i, job.cell)
  <2>1. inst.count[CLIENT][i] > 0 /\ job.cell = StartingPos(CLIENT)[i]
    BY <1>4 DEF ClientCell
  <2>2. /\ StartingPos(CLIENT)[i + 1] = StartingPos(CLIENT)[i] + inst.count[CLIENT][i]
        /\ StartingPos(CLIENT)[i] \in Nat
    BY <1>2, Places, Parties
  <2>3. inst.count[CLIENT][i] \in {0, 1}
    BY <1>2, TablesOK DEF nOTs
  <2> QED
    BY <2>1, <2>2, <2>3 DEF InBin
<1>6. job.row = RowOf(o, i, ValueAt(CLIENT, i, job.cell))
  <2>1. ValueAt(CLIENT, i, job.cell) = inst.table[CLIENT][i]
    BY DEF ValueAt
  <2>2. \A k \in BaseOTs : T[j * CodeWordBits + k] = Prg(ClientKeys[2 * k], o, j)
    BY <1>2, ClientBit DEF T
  <2>3. \A k \in BaseOTs : Difference(i, inst.table[CLIENT][i], k) = {}
    BY XorIs DEF Difference
  <2>4. \A k \in BaseOTs :
          Xor(Prg(ClientKeys[2 * k], o, i - o), Difference(i, inst.table[CLIENT][i], k)) =
            T[j * CodeWordBits + k]
    <3> SUFFICES ASSUME NEW k \in BaseOTs
                 PROVE  Xor(Prg(ClientKeys[2 * k], o, i - o), Difference(i, inst.table[CLIENT][i], k)) =
                          T[j * CodeWordBits + k]
      OBVIOUS
    <3>1. Xor(Prg(ClientKeys[2 * k], o, i - o), {}) = Prg(ClientKeys[2 * k], o, i - o)
      BY XorIs, Zenon
    <3>2. T[j * CodeWordBits + k] = Prg(ClientKeys[2 * k], o, i - o)
      <4>1. i - o = j
        BY <1>2
      <4> QED
        BY <2>2, <4>1, Zenon
    <3> QED
      BY <2>3, <3>1, <3>2, Zenon
  <2>5. Row(T, j) = [k \in BaseOTs |-> T[j * CodeWordBits + k]]
    BY DEF Row, BaseOTs
  <2> QED
    BY <1>4, <2>1, <2>4, <2>5 DEF RowOf
<1>7. InRound(t, o, i)
  BY <1>2 DEF InRound
<1>8. Hashed(job) = <<RowOf(o, i, ValueAt(CLIENT, i, job.cell)), i>>
  BY <1>4, <1>6 DEF Hashed
<1> QED
  BY <1>2, <1>5, <1>7, <1>8 DEF IsMask

(* The code words of a block are its OTs' columns. *)
LEMMA ChoiceBit ==
  ASSUME NEW o \in Nat, NEW left \in Nat, NEW k \in BaseOTs, NEW e \in BaseOTs, e < left
  PROVE  ChoiceCodes(o, left)[k * CodeWordBits + e] = Encode(inst.table[CLIENT][o + e], k)
<1> DEFINE z == CodeWordBits
           m == [b \in 0 .. z * z - 1 |->
                   IF b \div z < left THEN Encode(inst.table[CLIENT][o + (b \div z)], b % z) ELSE {}]
<1>1. z \in Nat \ {0} /\ k \in 0 .. z - 1 /\ e \in 0 .. z - 1 /\ 1 * z = z
  BY GroupOK DEF BaseOTs
<1>2. ChoiceCodes(o, left) = EklundhBitTranspose(m, z, z)
  BY Zenon DEF ChoiceCodes
<1>3. \A b \in 0 .. z * z - 1 :
        m[b] = IF b \div z < left THEN Encode(inst.table[CLIENT][o + (b \div z)], b % z) ELSE {}
  OBVIOUS
<1>4. m = [pos \in 0 .. z * z - 1 |-> m[pos]]
  OBVIOUS
<1> HIDE DEF m
<1>5. EklundhBitTranspose(m, z, z)[k * z + e] = m[e * z + k]
  <2>1. Filled(m, 1)
    BY <1>1, <1>4 DEF Filled
  <2>2. k \in 0 .. 1 * CodeWordBits - 1 /\ 1 \in Nat \ {0}
    BY <1>1
  <2>3. EklundhBitTranspose(m, CodeWordBits, 1 * CodeWordBits)[k * CodeWordBits + e] =
          m[e * (1 * CodeWordBits) + k]
    BY <2>1, <2>2, TransposedBit, Zenon
  <2> QED
    BY <1>1, <2>3
<1> HIDE DEF z
<1>6. /\ e * z + k \in 0 .. z * z - 1
      /\ (e * z + k) \div z = e /\ (e * z + k) % z = k
  BY <1>1, MatrixPlaces
<1>7. m[e * z + k] = Encode(inst.table[CLIENT][o + e], k)
  <2>1. PICK pos : pos = e * z + k
    OBVIOUS
  <2>2. m[pos] = IF pos \div z < left THEN Encode(inst.table[CLIENT][o + (pos \div z)], pos % z) ELSE {}
    BY <1>3, <1>6, <2>1
  <2> QED
    BY <1>6, <2>1, <2>2
<1> QED
  BY <1>2, <1>5, <1>7 DEF z

(* The matrix that the client builds in a round. *)
LEMMA MatrixHolds ==
  ASSUME inst \in Instances, keySeedMtx = ClientKeys, NEW t \in Threads, NEW o \in Nat, o < OtLim(t)
  PROVE  Holds(MatrixSnd(o, ProcessedOTs(t, o), OtLen(t, o)), 0, t, o)
<1> DEFINE z == CodeWordBits
           b == Blocks(t, o)
           c == b * z
           len == OtLen(t, o)
           codes == [d \in 0 .. b - 1 |-> ChoiceCodes(o + d * z, len - d * z)]
           m == MatrixSnd(o, c, len)
<1>1. b \in Nat \ {0} /\ ProcessedOTs(t, o) = c /\ c \in Nat \ {0} /\ len \in Nat \ {0} /\ len <= c
  BY RoundSizes
<1>2. z \in Nat \ {0}
  BY GroupOK
<1>3. CeilDivide(len, z) = b
  BY RoundSizes
<1>4. \A pos \in 0 .. z * c - 1 :
        m[pos] = Xor(Xor(Prg(keySeedMtx[2 * (pos \div c) + 1], o, pos % c),
                         Prg(keySeedMtx[2 * (pos \div c)], o, pos % c)),
                     codes[(pos % c) \div z][(pos \div c) * z + ((pos % c) % z)])
  BY <1>3 DEF MatrixSnd
<1> HIDE DEF m, b, len
<1> SUFFICES ASSUME NEW k \in BaseOTs, NEW j \in 0 .. len - 1
             PROVE  m[0 + (k * c + j)] = SentBit(o, k, j)
  BY <1>1 DEF Holds, m, len, b
<1>5. k \in 0 .. z - 1 /\ j \in 0 .. c - 1
  BY <1>1 DEF BaseOTs
<1> DEFINE d == j \div z
           e == j % z
<1>6. d \in 0 .. b - 1 /\ e \in BaseOTs /\ j = z * d + e /\ d \in Nat
  <2>1. j \in Nat
    BY <1>1
  <2>2. d \in Nat /\ e \in 0 .. z - 1 /\ j = z * d + e
    <3>1. d \in Nat
      BY <1>2, <2>1, DivBounds
    <3> HIDE DEF z
    <3> QED
      BY <1>2, <2>1, <3>1, Remainder
  <2>3. ~ (d >= b)
    <3> SUFFICES ASSUME d >= b PROVE FALSE
      OBVIOUS
    <3>1. j < b * z /\ j >= z * d /\ b \in Nat /\ z \in Nat /\ d \in Nat
      BY <1>1, <1>2, <1>5, <2>2
    <3> HIDE DEF z, d
    <3>2. z * d >= b * z
      BY <3>1
    <3>3. z * d \in Nat /\ b * z \in Nat
      BY <3>1
    <3> QED
      BY <2>1, <3>1, <3>2, <3>3
  <2> HIDE DEF z, d
  <2> QED
    BY <1>1, <2>2, <2>3 DEF BaseOTs, z
<1> HIDE DEF d, e
<1>7. /\ k * c + j \in 0 .. z * c - 1
      /\ (k * c + j) \div c = k /\ (k * c + j) % c = j
  <2>1. c \in Nat \ {0}
    <3>1. ProcessedOTs(t, o) \in Nat \ {0}
      BY RoundSizes
    <3> QED
      BY <1>1, <3>1, Zenon
  <2> HIDE DEF z, c, codes
  <2> QED
    BY <1>2, <1>5, <2>1, MatrixPlaces
<1>8. codes[d][k * z + e] = Encode(inst.table[CLIENT][o + j], k)
  <2>1. d * z = z * d /\ d * z \in Nat
    BY <1>2, <1>6
  <2>2. PICK x : x = d * z
    OBVIOUS
  <2>3. codes[d] = ChoiceCodes(o + x, len - x)
    BY <1>6, <2>2
  <2>4. x \in Nat /\ j = x + e /\ e \in Nat /\ j < len /\ len \in Nat
    BY <1>1, <1>2, <1>6, <2>1, <2>2 DEF BaseOTs
  <2>5. o + x \in Nat /\ len - x \in Nat /\ e < len - x /\ (o + x) + e = o + j
    BY <2>4
  <2>6. ChoiceCodes(o + x, len - x)[k * CodeWordBits + e] = Encode(inst.table[CLIENT][(o + x) + e], k)
    BY <1>6, <2>5, ChoiceBit
  <2> HIDE DEF codes
  <2> QED
    BY <2>3, <2>5, <2>6 DEF z
<1> HIDE DEF codes, c
<1>9. m[k * c + j] = Xor(Xor(Prg(keySeedMtx[2 * k + 1], o, j), Prg(keySeedMtx[2 * k], o, j)),
                         codes[d][k * z + e])
  <2>1. PICK pos : pos = k * c + j
    OBVIOUS
  <2>2. m[pos] = Xor(Xor(Prg(keySeedMtx[2 * (pos \div c) + 1], o, pos % c),
                         Prg(keySeedMtx[2 * (pos \div c)], o, pos % c)),
                     codes[(pos % c) \div z][(pos \div c) * z + ((pos % c) % z)])
    BY <1>4, <1>7, <2>1
  <2> QED
    BY <1>7, <2>1, <2>2, Zenon DEF d, e
<1>10. 0 + (k * c + j) = k * c + j
  BY <1>7
<1> QED
  BY <1>8, <1>9, <1>10 DEF SentBit

(* What the server makes of a received bit. *)
LEMMA OpenedBit ==
  ASSUME inst \in Instances, Level <= 128, keySeeds = ServerKeys, NEW o \in Nat, NEW j \in Nat,
         NEW k \in BaseOTs, NEW v
  PROVE  Xor(Xor(Prg(keySeeds[k], o, j), IF k \in inst.U THEN SentBit(o, k, j) ELSE {}),
             IF k \in inst.U THEN Encode(v, k) ELSE {}) =
           Xor(Prg(ClientKeys[2 * k], o, j), Difference(o + j, v, k))
<1>1. keySeeds[k] = ClientKeys[2 * k + (IF k \in inst.U THEN 1 ELSE 0)]
  BY KeysChosen
<1> DEFINE a == Prg(ClientKeys[2 * k], o, j)
           b == Prg(ClientKeys[2 * k + 1], o, j)
           c == Encode(inst.table[CLIENT][o + j], k)
           d == Encode(v, k)
<1>2. CASE k \in inst.U
  <2>1. Prg(keySeeds[k], o, j) = b
    BY <1>1, <1>2
  <2>2. SentBit(o, k, j) = Xor(Xor(b, a), c)
    BY DEF SentBit
  <2>3. Difference(o + j, v, k) = Xor(c, d)
    BY <1>2 DEF Difference
  <2> HIDE DEF a, b, c, d
  <2>4. Xor(Xor(b, Xor(Xor(b, a), c)), d) = Xor(a, Xor(c, d))
    BY XorCancels, XorIs
  <2> QED
    BY <1>2, <2>1, <2>2, <2>3, <2>4 DEF a, d
<1>3. CASE k \notin inst.U
  <2>1. Prg(keySeeds[k], o, j) = a
    <3>1. 2 * k + 0 = 2 * k
      BY GroupOK DEF BaseOTs
    <3> QED
      BY <1>1, <1>3, <3>1
  <2>2. Difference(o + j, v, k) = {}
    BY <1>3 DEF Difference
  <2> HIDE DEF a
  <2> QED
    BY <1>3, <2>1, <2>2, XorIs DEF a
<1> QED
  BY <1>2, <1>3

(* A row of the server, before the code word of a value is added. *)
LEMMA ServerBit ==
  ASSUME inst \in Instances, NEW t \in Threads, NEW o \in Nat, o < OtLim(t),
         NEW rcv, Holds(rcv, 1, t, o), NEW k \in BaseOTs, NEW j \in 0 .. OtLen(t, o) - 1
  PROVE  EklundhBitTranspose(MatrixQ(rcv, o, ProcessedOTs(t, o)), CodeWordBits, ProcessedOTs(t, o))
           [j * CodeWordBits + k] =
             Xor(Prg(keySeeds[k], o, j), IF k \in inst.U THEN SentBit(o, k, j) ELSE {})
<1> DEFINE b == Blocks(t, o)
           c == b * CodeWordBits
           m == MatrixQ(rcv, o, c)
<1>1. b \in Nat \ {0} /\ ProcessedOTs(t, o) = c /\ c \in Nat \ {0} /\ j \in 0 .. c - 1
  <2>1. b \in Nat \ {0} /\ ProcessedOTs(t, o) = c /\ c \in Nat \ {0} /\ OtLen(t, o) \in Nat /\ OtLen(t, o) <= c
    BY RoundSizes
  <2> HIDE DEF b, c
  <2> QED
    BY <2>1
<1>2. k \in 0 .. CodeWordBits - 1 /\ CodeWordBits \in Nat \ {0}
  BY GroupOK DEF BaseOTs
<1>3. m = [pos \in 0 .. CodeWordBits * (b * CodeWordBits) - 1 |-> m[pos]]
  BY DEF MatrixQ
<1>4. \A pos \in 0 .. CodeWordBits * c - 1 :
        m[pos] = Xor(Prg(keySeeds[pos \div c], o, pos % c),
                     IF (pos \div c) \in inst.U THEN rcv[pos + 1] ELSE {})
  BY DEF MatrixQ
<1>5. rcv[1 + (k * c + j)] = SentBit(o, k, j)
  BY <1>1 DEF Holds
<1> HIDE DEF m
<1>6. EklundhBitTranspose(m, CodeWordBits, c)[j * CodeWordBits + k] = m[k * c + j]
  <2> HIDE DEF b
  <2>1. b \in Nat \ {0} /\ j \in 0 .. b * CodeWordBits - 1
    BY <1>1
  <2>2. Filled(m, b)
    BY <1>3, Zenon DEF Filled
  <2>3. EklundhBitTranspose(m, CodeWordBits, b * CodeWordBits)[j * CodeWordBits + k] =
          m[k * (b * CodeWordBits) + j]
    BY <2>1, <2>2, TransposedBit, Zenon
  <2> QED
    BY <2>3, Zenon
<1> HIDE DEF c
<1>7. /\ k * c + j \in 0 .. CodeWordBits * c - 1
      /\ (k * c + j) \div c = k /\ (k * c + j) % c = j
  BY <1>1, <1>2, MatrixPlaces
<1>8. m[k * c + j] = Xor(Prg(keySeeds[k], o, j), IF k \in inst.U THEN SentBit(o, k, j) ELSE {})
  <2>1. PICK pos : pos = k * c + j
    OBVIOUS
  <2>2. m[pos] = Xor(Prg(keySeeds[pos \div c], o, pos % c),
                     IF (pos \div c) \in inst.U THEN rcv[pos + 1] ELSE {})
    BY <1>4, <1>7, <2>1
  <2>3. pos + 1 = 1 + (k * c + j)
    BY <1>7, <2>1
  <2>4. rcv[pos + 1] = SentBit(o, k, j)
    BY <1>5, <2>3
  <2> QED
    BY <1>7, <2>1, <2>2, <2>4
<1> QED
  BY <1>1, <1>6, <1>8 DEF m

(* The values of a round are in the bins of its OTs. *)
LEMMA RoundBins ==
  ASSUME inst \in Instances, NEW o \in Nat, NEW len \in Nat, o + len <= nOTs,
         NEW n \in 1 .. StartingPos(SERVER)[o + len] - StartingPos(SERVER)[o],
         NEW e, e = StartingPos(SERVER)[o] + n - 1
  PROVE  /\ BinOf(e) \in 0 .. nOTs - 1 /\ InBin(SERVER, BinOf(e), e)
         /\ BinOf(e) \in o .. (o + len) - 1
<1> DEFINE s == StartingPos(SERVER)
<1>1. /\ nOTs \in Nat /\ NMasks(SERVER) = s[nOTs]
      /\ \A x \in 0 .. nOTs : s[x] \in Nat
      /\ \A x \in 0 .. nOTs : \A y \in x .. nOTs : s[x] <= s[y]
  BY Places, Parties DEF NMasks
<1>2. s[o] \in Nat /\ s[o + len] \in Nat /\ s[o + len] <= s[nOTs] /\ s[nOTs] \in Nat
  <2>1. o \in 0 .. nOTs /\ o + len \in 0 .. nOTs /\ nOTs \in (o + len) .. nOTs /\ nOTs \in 0 .. nOTs
    BY <1>1
  <2> HIDE DEF s
  <2> QED
    BY <1>1, <2>1
<1>3. e = s[o] + n - 1 /\ n \in 1 .. s[o + len] - s[o]
  OBVIOUS
<1>4. PICK x, y : x = s[o] /\ y = s[o + len]
  OBVIOUS
<1>5. e \in Nat /\ x <= e /\ e < y /\ e \in 0 .. NMasks(SERVER) - 1
  BY <1>1, <1>2, <1>3, <1>4
<1>6. PICK i : i = BinOf(e)
  OBVIOUS
<1>7. i \in 0 .. nOTs - 1 /\ InBin(SERVER, i, e)
  BY <1>5, <1>6, BinIs
<1>8. s[i] <= e /\ e < s[i + 1]
  BY <1>7 DEF InBin
<1> HIDE DEF s
<1>9. ~ (i < o)
  <2> SUFFICES ASSUME i < o PROVE FALSE
    OBVIOUS
  <2>1. i + 1 \in 0 .. nOTs /\ o \in (i + 1) .. nOTs
    BY <1>1, <1>7
  <2>2. s[i + 1] <= x /\ s[i + 1] \in Nat /\ x \in Nat
    BY <1>1, <1>2, <1>4, <2>1
  <2> QED
    BY <1>5, <1>8, <2>2
<1>10. ~ (i >= o + len)
  <2> SUFFICES ASSUME i >= o + len PROVE FALSE
    OBVIOUS
  <2>1. o + len \in 0 .. nOTs /\ i \in (o + len) .. nOTs /\ i \in 0 .. nOTs
    BY <1>1, <1>7
  <2>2. y <= s[i] /\ s[i] \in Nat /\ y \in Nat
    BY <1>1, <1>2, <1>4, <2>1
  <2> QED
    BY <1>5, <1>8, <2>2
<1>11. i \in o .. (o + len) - 1
  BY <1>1, <1>7, <1>9, <1>10
<1> QED
  BY <1>6, <1>7, <1>11

(* The jobs of the server are the masks of its values. *)
LEMMA ServerRows ==
  ASSUME inst \in Instances, Level <= 128, keySeeds = ServerKeys,
         NEW t \in Threads, NEW o \in Nat, o < OtLim(t), Point(t, o),
         NEW rcv, Holds(rcv, 1, t, o),
         NEW n \in 1 .. StartingPos(SERVER)[o + OtLen(t, o)] - StartingPos(SERVER)[o],
         NEW job, job = ServerJobs(rcv, o, ProcessedOTs(t, o), OtLen(t, o))[n]
  PROVE  IsMask(SERVER, job.cell, Hashed(job))
<1> DEFINE e == StartingPos(SERVER)[o] + n - 1
           i == BinOf(e)
           j == i - o
           Q == EklundhBitTranspose(MatrixQ(rcv, o, ProcessedOTs(t, o)), CodeWordBits, ProcessedOTs(t, o))
<1>1. /\ NextOtId(t, o) = o + OtLen(t, o) /\ o + OtLen(t, o) <= nOTs /\ nOTs \in Nat
      /\ OtLen(t, o) \in Nat
  BY RoundSizes
<1>2. i \in 0 .. nOTs - 1 /\ InBin(SERVER, i, e) /\ i \in o .. (o + OtLen(t, o)) - 1
  <2>1. PICK x : x = e
    OBVIOUS
  <2>2. BinOf(x) \in 0 .. nOTs - 1 /\ InBin(SERVER, BinOf(x), x) /\ BinOf(x) \in o .. (o + OtLen(t, o)) - 1
    BY <1>1, <2>1, RoundBins
  <2> QED
    BY <2>1, <2>2
<1>3. job.cell = e /\ job.row = ServerRow(Q, j, e) /\ job.ctr = i
  BY DEF ServerJobs
<1> HIDE DEF e, Q
<1>4. j \in 0 .. OtLen(t, o) - 1 /\ o + j = i /\ i \in o .. NextOtId(t, o) - 1 /\ i - o = j /\ j \in Nat
  <2> HIDE DEF i
  <2> QED
    BY <1>1, <1>2
<1> HIDE DEF j, i
<1>5. job.row = RowOf(o, i, ValueAt(SERVER, i, e))
  <2>1. ValueAt(SERVER, i, e) = inst.table[SERVER][e]
    BY Parties DEF ValueAt
  <2>2. PICK v : v = inst.table[SERVER][e]
    OBVIOUS
  <2>3. \A k \in BaseOTs :
          Q[j * CodeWordBits + k] =
            Xor(Prg(keySeeds[k], o, j), IF k \in inst.U THEN SentBit(o, k, j) ELSE {})
    BY <1>4, ServerBit DEF Q
  <2>4. \A k \in BaseOTs :
          Xor(Xor(Prg(keySeeds[k], o, j), IF k \in inst.U THEN SentBit(o, k, j) ELSE {}),
              IF k \in inst.U THEN Encode(v, k) ELSE {}) =
            Xor(Prg(ClientKeys[2 * k], o, i - o), Difference(i, v, k))
    BY <1>4, OpenedBit
  <2>5. ServerRow(Q, j, e) =
          [k \in BaseOTs |-> Xor(Q[j * CodeWordBits + k], IF k \in inst.U THEN Encode(v, k) ELSE {})]
    BY <2>2 DEF ServerRow, BaseOTs
  <2>6. \A k \in BaseOTs :
          Xor(Q[j * CodeWordBits + k], IF k \in inst.U THEN Encode(v, k) ELSE {}) =
            Xor(Prg(ClientKeys[2 * k], o, i - o), Difference(i, v, k))
    BY <2>3, <2>4, Zenon
  <2>7. ServerRow(Q, j, e) = RowOf(o, i, v)
    BY <2>5, <2>6 DEF RowOf
  <2> QED
    BY <1>3, <2>1, <2>2, <2>7
<1>6. InRound(t, o, i)
  BY <1>4 DEF InRound
<1>7. Hashed(job) = <<RowOf(o, i, ValueAt(SERVER, i, e)), i>>
  BY <1>3, <1>5 DEF Hashed
<1> QED
  BY <1>2, <1>3, <1>6, <1>7 DEF IsMask

(* An OT is in one round. *)
LEMMA RoundsUnique ==
  ASSUME inst \in Instances, NEW t \in Threads, NEW u \in Threads, NEW o, NEW q, NEW i \in Nat,
         InRound(t, o, i), InRound(u, q, i)
  PROVE  o = q
<1> DEFINE M == MyNumOTs
<1>1. ASSUME NEW w \in Threads, NEW x, InRound(w, x, i)
      PROVE  /\ x \in Nat /\ x <= i /\ i < NextOtId(w, x) /\ NextOtId(w, x) \in Nat
             /\ w * M <= i /\ i < w * M + M /\ w \in Nat /\ M \in Nat
  <2>1. /\ Point(w, x) /\ x < OtLim(w) /\ i \in x .. NextOtId(w, x) - 1 /\ x \in Nat
        /\ MyStartPos(w) <= x
    BY <1>1 DEF InRound, Point
  <2>2. NextOtId(w, x) \in Nat /\ NextOtId(w, x) <= OtLim(w)
    BY <2>1, Round
  <2>3. /\ OtLim(w) = Lesser(MyStartPos(w) + M, nOTs) /\ nOTs \in Nat /\ M \in Nat
        /\ MyStartPos(w) \in Nat /\ MyStartPos(w) = w * M
    BY Part, Shares DEF MyStartPos
  <2>4. w \in Nat
    BY DEF Threads
  <2> HIDE DEF M
  <2>5. PICK y : y = w * M
    OBVIOUS
  <2>6. OtLim(w) <= y + M /\ y \in Nat /\ OtLim(w) \in Nat
    BY <2>3, <2>5 DEF Lesser
  <2>7. x <= i /\ i < NextOtId(w, x) /\ y <= i /\ i < y + M
    BY <2>1, <2>2, <2>3, <2>5, <2>6
  <2> QED
    BY <2>1, <2>2, <2>3, <2>4, <2>5, <2>7
<1>2. /\ t * M <= i /\ i < t * M + M /\ u * M <= i /\ i < u * M + M
      /\ t \in Nat /\ u \in Nat /\ M \in Nat
  BY <1>1
<1> HIDE DEF M
<1>3. ASSUME NEW x \in Nat, NEW y \in Nat, x < y
      PROVE  x * M + M <= y * M /\ x * M \in Nat /\ y * M \in Nat
  <2>1. x + 1 <= y /\ M \in Nat
    BY <1>2, <1>3
  <2>2. (x + 1) * M <= y * M /\ (x + 1) * M = x * M + M /\ x * M \in Nat /\ y * M \in Nat
    <3>1. PICK d \in Nat : y = (x + 1) + d
      <4>1. y - (x + 1) \in Nat /\ y = (x + 1) + (y - (x + 1))
        BY <2>1
      <4> QED
        BY <4>1
    <3>2. y * M = (x + 1) * M + d * M /\ d * M \in Nat /\ (x + 1) * M = x * M + M /\ x * M \in Nat
      BY <2>1, <3>1
    <3> HIDE <3>1
    <3> QED
      BY <2>1, <3>2
  <2> QED
    BY <2>2
<1>4. t = u
  <2>1. ~ (t < u)
    <3> SUFFICES ASSUME t < u PROVE FALSE
      OBVIOUS
    <3>1. t * M + M <= u * M /\ t * M \in Nat /\ u * M \in Nat
      BY <1>2, <1>3
    <3>2. PICK x, y : x = t * M /\ y = u * M
      OBVIOUS
    <3> QED
      BY <1>2, <3>1, <3>2
  <2>2. ~ (u < t)
    <3> SUFFICES ASSUME u < t PROVE FALSE
      OBVIOUS
    <3>1. u * M + M <= t * M /\ t * M \in Nat /\ u * M \in Nat
      BY <1>2, <1>3
    <3>2. PICK x, y : x = t * M /\ y = u * M
      OBVIOUS
    <3> QED
      BY <1>2, <3>1, <3>2
  <2> QED
    BY <1>2, <2>1, <2>2
<1>5. /\ o \in Nat /\ o <= i /\ i < NextOtId(t, o) /\ NextOtId(t, o) \in Nat
      /\ q \in Nat /\ q <= i /\ i < NextOtId(t, q) /\ NextOtId(t, q) \in Nat
      /\ Point(t, o) /\ Point(t, q)
  BY <1>1, <1>4 DEF InRound
<1>6. ~ (o < q)
  <2> SUFFICES ASSUME o < q PROVE FALSE
    OBVIOUS
  <2>1. NextOtId(t, o) <= q
    BY <1>5, PointAbove
  <2> QED
    BY <1>5, <2>1
<1>7. ~ (q < o)
  <2> SUFFICES ASSUME q < o PROVE FALSE
    OBVIOUS
  <2>1. NextOtId(t, q) <= o
    BY <1>5, PointAbove
  <2> QED
    BY <1>5, <2>1
<1> QED
  BY <1>5, <1>6, <1>7

(* Code words that agree on the server's choices. *)
LEMMA NoDifference ==
  ASSUME inst \in Instances, NEW i, NEW v
  PROVE  (\A k \in BaseOTs : Difference(i, v, k) = {}) <=>
           Code[inst.table[CLIENT][i]] \cap inst.U = Code[v] \cap inst.U
<1> DEFINE a == Code[inst.table[CLIENT][i]]
           b == Code[v]
<1>1. inst.U \subseteq BaseOTs
  BY RandomsOK DEF BaseOTs
<1>2. \A x, y : Xor(x, y) = {} <=> x = y
  BY SMT DEF Xor
<1>3. ASSUME NEW k \in BaseOTs
      PROVE  Difference(i, v, k) = {} <=> (k \in inst.U => (k \in a <=> k \in b))
  <2>1. CASE k \in inst.U
    <3>1. Difference(i, v, k) = Xor(Encode(inst.table[CLIENT][i], k), Encode(v, k))
      BY <2>1 DEF Difference
    <3>2. /\ Encode(inst.table[CLIENT][i], k) = IF k \in a THEN {One} ELSE {}
          /\ Encode(v, k) = IF k \in b THEN {One} ELSE {}
      BY DEF Encode
    <3>3. {One} # {}
      OBVIOUS
    <3> QED
      BY <1>2, <2>1, <3>1, <3>2, <3>3
  <2>2. CASE k \notin inst.U
    BY <2>2 DEF Difference
  <2> QED
    BY <2>1, <2>2
<1>4. (\A k \in BaseOTs : k \in inst.U => (k \in a <=> k \in b)) <=> a \cap inst.U = b \cap inst.U
  <2> HIDE DEF a, b
  <2> QED
    BY <1>1
<1> QED
  BY <1>3, <1>4

(* The masks m and r of bin i and of e tell whether their values are the same. *)
Tells(i, e, m, r) ==
  m = r <=>
    /\ BinOf(e) = i
    /\ Code[inst.table[CLIENT][i]] \cap inst.U = Code[inst.table[SERVER][e]] \cap inst.U

(* Adding something makes a difference. *)
LEMMA XorDiffers ==
  ASSUME NEW z, NEW d
  PROVE  Xor(z, {}) = Xor(z, d) <=> d = {}
<1>1. ASSUME NEW x PROVE Xor(z, Xor(z, x)) = x
  <2>1. Xor(Xor(z, z), x) = Xor(z, Xor(z, x)) /\ Xor(z, z) = {}
    BY XorIs
  <2>2. Xor({}, x) = Xor(x, {}) /\ Xor(x, {}) = x
    BY XorIs
  <2> QED
    BY <2>1, <2>2
<1>2. Xor(z, Xor(z, {})) = {} /\ Xor(z, Xor(z, d)) = d
  BY <1>1, Zenon
<1> QED
  BY <1>2, Zenon

(* Two masks that are what they should be are the same iff the values are. *)
LEMMA MasksCompared ==
  ASSUME inst \in Instances, NEW i \in 0 .. nOTs - 1, NEW e \in 0 .. NMasks(SERVER) - 1,
         inst.count[CLIENT][i] > 0, NEW m, NEW r,
         IsMask(CLIENT, StartingPos(CLIENT)[i], m), IsMask(SERVER, e, r)
  PROVE  Tells(i, e, m, r)
<1> DEFINE c == StartingPos(CLIENT)[i]
           a == inst.table[CLIENT][i]
           b == inst.table[SERVER][e]
<1>1. c \in Nat /\ InBin(CLIENT, i, c) /\ nOTs \in Nat
  <2>1. nOTs \in Nat /\ i \in 0 .. nOTs
    BY Places, Parties
  <2>2. /\ StartingPos(CLIENT)[i + 1] = StartingPos(CLIENT)[i] + inst.count[CLIENT][i]
        /\ StartingPos(CLIENT)[i] \in Nat
    BY <2>1, Places, Parties
  <2>3. inst.count[CLIENT][i] \in {0, 1}
    BY TablesOK DEF nOTs
  <2> QED
    BY <2>1, <2>2, <2>3 DEF InBin
<1> PICK t \in Threads, o \in Nat, x \in 0 .. nOTs - 1 :
      InRound(t, o, x) /\ InBin(CLIENT, x, c) /\ m = <<RowOf(o, x, ValueAt(CLIENT, x, c)), x>>
  BY Zenon DEF IsMask
<1> PICK u \in Threads, q \in Nat, y \in 0 .. nOTs - 1 :
      InRound(u, q, y) /\ InBin(SERVER, y, e) /\ r = <<RowOf(q, y, ValueAt(SERVER, y, e)), y>>
  BY Zenon DEF IsMask
<1>2. x = i
  <2> HIDE DEF c
  <2> QED
    BY <1>1, OneBin, Parties
<1>3. y = BinOf(e)
  <2>1. BinOf(e) \in 0 .. nOTs - 1 /\ InBin(SERVER, BinOf(e), e) /\ e \in Nat
    BY BinIs
  <2>2. PICK z : z = BinOf(e)
    OBVIOUS
  <2>3. y = z
    BY <2>1, <2>2, OneBin, Parties
  <2> QED
    BY <2>2, <2>3
<1>4. m = <<RowOf(o, i, a), i>> /\ r = <<RowOf(q, y, b), y>>
  BY <1>2, Parties DEF ValueAt
<1> HIDE DEF a, b, c
<1>5. m = r <=> y = i /\ RowOf(o, i, a) = RowOf(q, y, b)
  BY <1>4
<1>6. ASSUME y = i
      PROVE  RowOf(o, i, a) = RowOf(q, y, b) <=> \A k \in BaseOTs : Difference(i, b, k) = {}
  <2>1. o = q
    BY <1>1, <1>2, <1>6, RoundsUnique
  <2>2. RowOf(o, i, a) = RowOf(q, y, b) <=>
          \A k \in BaseOTs : Xor(Prg(ClientKeys[2 * k], o, i - o), Difference(i, a, k)) =
                               Xor(Prg(ClientKeys[2 * k], o, i - o), Difference(i, b, k))
    BY <1>6, <2>1 DEF RowOf
  <2>3. \A k \in BaseOTs : Difference(i, a, k) = {}
    BY XorIs DEF Difference, a
  <2>4. ASSUME NEW k \in BaseOTs
        PROVE  Xor(Prg(ClientKeys[2 * k], o, i - o), Difference(i, a, k)) =
                 Xor(Prg(ClientKeys[2 * k], o, i - o), Difference(i, b, k)) <=>
                   Difference(i, b, k) = {}
    <3>1. Difference(i, a, k) = {}
      BY <2>3, Zenon
    <3> QED
      BY <3>1, XorDiffers, Zenon
  <2> QED
    BY <2>2, <2>4
<1>7. (\A k \in BaseOTs : Difference(i, b, k) = {}) <=> Code[a] \cap inst.U = Code[b] \cap inst.U
  BY NoDifference DEF a
<1> QED
  BY <1>3, <1>5, <1>6, <1>7 DEF a, b, Tells

(***************************************************************************)
(* What is computed and what is under way are masks and their matrices.    *)
(***************************************************************************)

(* The hash calls that a thread has before it. *)
GoodJobs(p, s) ==
  Active(s) => \A n \in 1 .. Len(s.jobs) :
                 s.jobs[n].cell # NoCell => IsMask(p, s.jobs[n].cell, Hashed(s.jobs[n]))

(* The matrix that a thread of the client has built. *)
GoodSnd(t, s) == Active(s) => Holds(s.snd, 0, t, s.ot_id)

(* The matrices on their way to thread t of the server. *)
GoodSocket(t, s, c, f) ==
  \A o \in Nat : Point(t, o) /\ TakenAt(t, s) <= o /\ o < SentAt(t, c) =>
    Holds(f, Bits(t, o) - Bits(t, TakenAt(t, s)) + 1, t, o)

(* The masks that are written. *)
GoodMasks(p, f) == \A e \in 0 .. NMasks(p) - 1 : f[e] # <<>> => IsMask(p, e, f[e])

(* One thread copies what it has hashed. *)
CopiesOwn(s, digest) == s.st = "copy" => digest = Hashed(s.jobs[s.pos])

Alone == inst.threads = 1 => \A p \in Party : ~ raced[p] /\ CopiesOwn(th[p][0], hashBuf[p])

MasksGood ==
  /\ \A p \in Party, t \in Threads : GoodJobs(p, th[p][t])
  /\ \A t \in Threads : GoodSnd(t, th[CLIENT][t])
  /\ main[SERVER] \notin ServerBase =>
       \A t \in Threads : GoodSocket(t, th[SERVER][t], th[CLIENT][t], chan[SERVER][t])
  /\ \A p \in Party : ~ raced[p] => GoodMasks(p, out[p])

(* The inductive invariant of what the masks are: for keys of AES_BYTES bytes. *)
GInv == Alone /\ DOMAIN raced = Party /\ (Level <= 128 => MasksGood)

(* The masks decide in every state in which both calls have returned. *)
LEMMA GoodAgree ==
  ASSUME IInv, GInv, AllJoined
  PROVE  MasksAgree
<1> SUFFICES ASSUME Returned, Level <= 128, inst.threads = 1 \/ \A p \in Party : ~ raced[p],
                    NEW e \in 0 .. NMasks(SERVER) - 1, NEW i \in 0 .. nOTs - 1,
                    inst.count[CLIENT][i] > 0
             PROVE  SameMasksFor(i, e)
  BY DEF MasksAgree, MasksDecide
<1>1. \A p \in Party : ~ raced[p] /\ GoodMasks(p, out[p])
  BY DEF GInv, Alone, MasksGood
<1>2. inst \in Instances /\ SERVER \in Party /\ CLIENT \in Party
      /\ \A p \in Party : DOMAIN out[p] = 0 .. NMasks(p) - 1
  BY Parties DEF IInv, KeyInv, BaseInv, Together, MasksOK
<1>3. \A p \in Party : \A x \in 0 .. NMasks(p) - 1 : out[p][x] # <<>>
  BY <1>2 DEF AllJoined, Returned
<1>4. IsMask(SERVER, e, out[SERVER][e])
  BY <1>1, <1>2, <1>3 DEF GoodMasks
<1>5. StartingPos(CLIENT)[i] \in 0 .. NMasks(CLIENT) - 1
  <2>1. /\ nOTs \in Nat /\ i \in 0 .. nOTs /\ i + 1 \in 0 .. nOTs /\ nOTs \in (i + 1) .. nOTs
        /\ nOTs \in 0 .. nOTs
    <3>1. nOTs \in Nat
      BY <1>2, Places
    <3> QED
      BY <3>1
  <2>2. /\ StartingPos(CLIENT)[i + 1] = StartingPos(CLIENT)[i] + inst.count[CLIENT][i]
        /\ StartingPos(CLIENT)[i] \in Nat /\ NMasks(CLIENT) = StartingPos(CLIENT)[nOTs]
        /\ StartingPos(CLIENT)[i + 1] <= StartingPos(CLIENT)[nOTs]
        /\ StartingPos(CLIENT)[nOTs] \in Nat
    BY <1>2, <2>1, Places DEF NMasks
  <2>3. inst.count[CLIENT][i] \in {0, 1}
    BY <1>2, TablesOK DEF nOTs
  <2> QED
    BY <2>2, <2>3
<1>6. IsMask(CLIENT, StartingPos(CLIENT)[i], out[CLIENT][StartingPos(CLIENT)[i]])
  BY <1>1, <1>2, <1>3, <1>5 DEF GoodMasks
<1>7. PICK m, r : m = out[CLIENT][StartingPos(CLIENT)[i]] /\ r = out[SERVER][e]
  OBVIOUS
<1>8. IsMask(CLIENT, StartingPos(CLIENT)[i], m) /\ IsMask(SERVER, e, r)
  BY <1>4, <1>6, <1>7
<1>9. Tells(i, e, m, r)
  BY <1>2, <1>8, MasksCompared, Zenon
<1> QED
  BY <1>7, <1>9, Zenon DEF SameMasksFor, Tells

(* What a mask is depends on the instance alone. *)
LEMMA StaticMask ==
  ASSUME inst' = inst
  PROVE  /\ \A p, e, m : IsMask(p, e, m)' = IsMask(p, e, m)
         /\ \A f, a, t, o : Holds(f, a, t, o)' = Holds(f, a, t, o)
         /\ Level' = Level
<1>1. /\ Threads' = Threads /\ nOTs' = nOTs /\ ClientKeys' = ClientKeys
      /\ \A p : StartingPos(p)' = StartingPos(p)
      /\ \A t, o : ProcessedOTs(t, o)' = ProcessedOTs(t, o) /\ NextOtId(t, o)' = NextOtId(t, o)
      /\ \A t : OtLim(t)' = OtLim(t)
  BY Static, StaticParts, StaticPlaces
<1>2. \A t, o : Point(t, o)' = Point(t, o)
  BY StaticThread
<1>3. \A t, o, i : InRound(t, o, i)' = InRound(t, o, i)
  BY <1>1, <1>2 DEF InRound
<1>4. \A p, i, e : InBin(p, i, e)' = InBin(p, i, e)
  BY <1>1 DEF InBin
<1>5. \A p, i, e : ValueAt(p, i, e)' = ValueAt(p, i, e)
  BY DEF ValueAt
<1>6. \A i, v, k : Difference(i, v, k)' = Difference(i, v, k)
  BY DEF Difference, Encode
<1>7. \A o, i, v : RowOf(o, i, v)' = RowOf(o, i, v)
  BY <1>1, <1>6 DEF RowOf, Prg, BaseOTs
<1>8. \A p, e, m : IsMask(p, e, m)' = IsMask(p, e, m)
  <2> SUFFICES ASSUME NEW p, NEW e, NEW m PROVE IsMask(p, e, m)' = IsMask(p, e, m)
    OBVIOUS
  <2>1. \A o, i : RowOf(o, i, ValueAt(p, i, e))' = RowOf(o, i, ValueAt(p, i, e))
    <3> SUFFICES ASSUME NEW o, NEW i
                 PROVE  RowOf(o, i, ValueAt(p, i, e))' = RowOf(o, i, ValueAt(p, i, e))
      OBVIOUS
    <3>1. PICK v : v = ValueAt(p, i, e)
      OBVIOUS
    <3>2. v = ValueAt(p, i, e)'
      BY <1>5, <3>1
    <3>3. RowOf(o, i, ValueAt(p, i, e))' = RowOf(o, i, v)'
      BY <3>2 DEF RowOf, Difference
    <3> QED
      BY <1>7, <3>1, <3>3
  <2> QED
    BY <1>1, <1>3, <1>4, <2>1 DEF IsMask
<1>9. \A t, o : OtLen(t, o)' = OtLen(t, o)
  BY <1>1 DEF OtLen
<1>10. \A o, k, j : SentBit(o, k, j)' = SentBit(o, k, j)
  BY <1>1 DEF SentBit, Encode, Prg
<1>11. \A f, a, t, o : Holds(f, a, t, o)' = Holds(f, a, t, o)
  BY <1>1, <1>9, <1>10 DEF Holds, BaseOTs
<1>12. Level' = Level
  BY DEF Level
<1> QED
  BY <1>8, <1>11, <1>12

(* So does what is good, given the state of a thread, a socket or the masks. *)
LEMMA StaticGood ==
  ASSUME inst' = inst
  PROVE  /\ \A p, s : GoodJobs(p, s)' = GoodJobs(p, s)
         /\ \A t, s : GoodSnd(t, s)' = GoodSnd(t, s)
         /\ \A t, s, c, f : GoodSocket(t, s, c, f)' = GoodSocket(t, s, c, f)
         /\ \A p, f : GoodMasks(p, f)' = GoodMasks(p, f)
<1>1. /\ \A p, e, m : IsMask(p, e, m)' = IsMask(p, e, m)
      /\ \A f, a, t, o : Holds(f, a, t, o)' = Holds(f, a, t, o)
  BY StaticMask
<1>2. \A p, s : GoodJobs(p, s)' = GoodJobs(p, s)
  BY <1>1 DEF GoodJobs, Active, Hashed
<1>3. \A t, s : GoodSnd(t, s)' = GoodSnd(t, s)
  BY <1>1 DEF GoodSnd, Active
<1>4. ASSUME NEW t, NEW s, NEW c, NEW f
      PROVE  GoodSocket(t, s, c, f)' = GoodSocket(t, s, c, f)
  <2>1. \A o : Point(t, o)' = Point(t, o)
    BY StaticThread
  <2>2. PICK a, b : a = TakenAt(t, s) /\ b = SentAt(t, c)
    OBVIOUS
  <2>3. a = TakenAt(t, s)' /\ b = SentAt(t, c)'
    BY <2>2, StaticAt
  <2>4. \A o : Bits(t, o)' = Bits(t, o)
    BY StaticAt
  <2>5. Bits(t, TakenAt(t, s))' = Bits(t, TakenAt(t, s))
    <3>1. Bits(t, TakenAt(t, s))' = Bits(t, a)'
      BY <2>3 DEF Bits
    <3> QED
      BY <2>2, <2>4, <3>1
  <2>6. ASSUME NEW o
        PROVE  Holds(f, Bits(t, o) - Bits(t, TakenAt(t, s)) + 1, t, o)' =
                 Holds(f, Bits(t, o) - Bits(t, TakenAt(t, s)) + 1, t, o)
    <3>1. PICK x : x = Bits(t, o) - Bits(t, TakenAt(t, s)) + 1
      OBVIOUS
    <3>2. x = (Bits(t, o) - Bits(t, TakenAt(t, s)) + 1)'
      BY <2>4, <2>5, <3>1
    <3>3. Holds(f, Bits(t, o) - Bits(t, TakenAt(t, s)) + 1, t, o)' = Holds(f, x, t, o)'
      BY <3>2 DEF Holds
    <3> QED
      BY <1>1, <3>1, <3>3
  <2> QED
    BY <2>1, <2>2, <2>3, <2>6, Zenon DEF GoodSocket
<1>5. \A p, f : GoodMasks(p, f)' = GoodMasks(p, f)
  BY <1>1, StaticPlaces DEF GoodMasks
<1> QED
  BY <1>2, <1>3, <1>4, <1>5

(* The invariant after a step. *)
LEMMA GoodNext ==
  ASSUME inst' = inst, DOMAIN raced' = Party,
         inst.threads = 1 => \A p \in Party : ~ raced'[p] /\ CopiesOwn(th'[p][0], hashBuf'[p]),
         Level <= 128 =>
           /\ \A p \in Party, t \in Threads : GoodJobs(p, th'[p][t])
           /\ \A t \in Threads : GoodSnd(t, th'[CLIENT][t])
           /\ main'[SERVER] \notin ServerBase =>
                \A t \in Threads : GoodSocket(t, th'[SERVER][t], th'[CLIENT][t], chan'[SERVER][t])
           /\ \A p \in Party : ~ raced'[p] => GoodMasks(p, out'[p])
  PROVE  GInv'
<1>1. Threads' = Threads /\ ServerBase' = ServerBase /\ Level' = Level
  BY StaticAt, StaticMask DEF ServerBase
<1>2. Alone'
  BY DEF Alone, CopiesOwn, Hashed
<1>3. ASSUME Level <= 128 PROVE MasksGood'
  <2>1. (\A p \in Party, t \in Threads : GoodJobs(p, th[p][t]))'
    <3> SUFFICES ASSUME NEW p \in Party, NEW t \in Threads PROVE GoodJobs(p, th[p][t])'
      BY <1>1
    <3>1. \A s : GoodJobs(p, s)' = GoodJobs(p, s)
      BY StaticGood
    <3>2. GoodJobs(p, th'[p][t])
      BY <1>3
    <3> QED
      BY <3>1, <3>2
  <2>2. (\A t \in Threads : GoodSnd(t, th[CLIENT][t]))'
    <3> SUFFICES ASSUME NEW t \in Threads PROVE GoodSnd(t, th[CLIENT][t])'
      BY <1>1
    <3>1. \A s : GoodSnd(t, s)' = GoodSnd(t, s)
      BY StaticGood
    <3>2. GoodSnd(t, th'[CLIENT][t])
      BY <1>3
    <3> QED
      BY <3>1, <3>2
  <2>3. (main[SERVER] \notin ServerBase =>
           \A t \in Threads : GoodSocket(t, th[SERVER][t], th[CLIENT][t], chan[SERVER][t]))'
    <3> SUFFICES ASSUME main'[SERVER] \notin ServerBase, NEW t \in Threads
                 PROVE  GoodSocket(t, th[SERVER][t], th[CLIENT][t], chan[SERVER][t])'
      BY <1>1
    <3>1. \A s, c, f : GoodSocket(t, s, c, f)' = GoodSocket(t, s, c, f)
      BY StaticGood
    <3>2. GoodSocket(t, th'[SERVER][t], th'[CLIENT][t], chan'[SERVER][t])
      BY <1>3
    <3> QED
      BY <3>1, <3>2
  <2>4. (\A p \in Party : ~ raced[p] => GoodMasks(p, out[p]))'
    <3> SUFFICES ASSUME NEW p \in Party, ~ raced'[p] PROVE GoodMasks(p, out[p])'
      OBVIOUS
    <3>1. \A f : GoodMasks(p, f)' = GoodMasks(p, f)
      BY StaticGood
    <3>2. GoodMasks(p, out'[p])
      BY <1>3
    <3> QED
      BY <3>1, <3>2
  <2> QED
    BY <2>1, <2>2, <2>3, <2>4 DEF MasksGood
<1> QED
  BY <1>1, <1>2, <1>3 DEF GInv

(* The same for a step of thread t of p. *)
LEMMA GoodThread ==
  ASSUME GInv, inst' = inst, main' = main, NEW p \in Party, NEW t \in Threads,
         \A q \in Party, u \in Threads : (q # p \/ u # t) => th'[q][u] = th[q][u],
         \A u \in Threads : u # t => chan'[SERVER][u] = chan[SERVER][u],
         DOMAIN raced' = Party,
         inst.threads = 1 => \A q \in Party : ~ raced'[q] /\ CopiesOwn(th'[q][0], hashBuf'[q]),
         Level <= 128 =>
           /\ GoodJobs(p, th'[p][t])
           /\ p = CLIENT => GoodSnd(t, th'[p][t])
           /\ main[SERVER] \notin ServerBase =>
                GoodSocket(t, th'[SERVER][t], th'[CLIENT][t], chan'[SERVER][t])
           /\ \A q \in Party : ~ raced'[q] => GoodMasks(q, out'[q])
  PROVE  GInv'
<1>1. CLIENT \in Party /\ SERVER \in Party
  BY Parties
<1>2. ASSUME Level <= 128
      PROVE  /\ \A q \in Party, u \in Threads : GoodJobs(q, th'[q][u])
             /\ \A u \in Threads : GoodSnd(u, th'[CLIENT][u])
             /\ main'[SERVER] \notin ServerBase =>
                  \A u \in Threads : GoodSocket(u, th'[SERVER][u], th'[CLIENT][u], chan'[SERVER][u])
             /\ \A q \in Party : ~ raced'[q] => GoodMasks(q, out'[q])
  <2>1. MasksGood
    BY <1>2 DEF GInv
  <2>2. ASSUME NEW q \in Party, NEW u \in Threads PROVE GoodJobs(q, th'[q][u])
    <3>1. CASE q = p /\ u = t
      BY <1>2, <3>1
    <3>2. CASE q # p \/ u # t
      <4>1. th'[q][u] = th[q][u] /\ GoodJobs(q, th[q][u])
        BY <2>1, <3>2 DEF MasksGood
      <4> QED
        BY <4>1
    <3> QED
      BY <3>1, <3>2
  <2>3. ASSUME NEW u \in Threads PROVE GoodSnd(u, th'[CLIENT][u])
    <3>1. CASE CLIENT = p /\ u = t
      BY <1>2, <3>1
    <3>2. CASE CLIENT # p \/ u # t
      <4>1. th'[CLIENT][u] = th[CLIENT][u] /\ GoodSnd(u, th[CLIENT][u])
        BY <1>1, <2>1, <3>2 DEF MasksGood
      <4> QED
        BY <4>1
    <3> QED
      BY <3>1, <3>2
  <2>4. ASSUME main'[SERVER] \notin ServerBase, NEW u \in Threads
        PROVE  GoodSocket(u, th'[SERVER][u], th'[CLIENT][u], chan'[SERVER][u])
    <3>1. CASE u = t
      BY <1>2, <2>4, <3>1
    <3>2. CASE u # t
      <4>1. /\ th'[SERVER][u] = th[SERVER][u] /\ th'[CLIENT][u] = th[CLIENT][u]
            /\ chan'[SERVER][u] = chan[SERVER][u]
        BY <1>1, <3>2
      <4>2. GoodSocket(u, th[SERVER][u], th[CLIENT][u], chan[SERVER][u])
        BY <2>1, <2>4 DEF MasksGood
      <4> QED
        BY <4>1, <4>2
    <3> QED
      BY <3>1, <3>2
  <2> QED
    BY <1>2, <2>2, <2>3, <2>4
<1> QED
  BY <1>2, GoodNext

(* A step that hashes nothing and copies nothing. *)
LEMMA StillAlone ==
  ASSUME GInv, inst \in Instances, UNCHANGED <<raced, hashBuf>>,
         \A q \in Party : th'[q][0].st = "copy" => th'[q][0] = th[q][0]
  PROVE  /\ DOMAIN raced' = Party
         /\ inst.threads = 1 => \A q \in Party : ~ raced'[q] /\ CopiesOwn(th'[q][0], hashBuf'[q])
<1>1. Alone /\ DOMAIN raced = Party
  BY DEF GInv
<1> QED
  BY <1>1 DEF Alone, CopiesOwn

(* Where the places of the two threads are the same, so is what is under way. *)
LEMMA SocketStays ==
  ASSUME NEW t, NEW s, NEW c, NEW f, GoodSocket(t, s, c, f), NEW r, NEW d,
         TakenAt(t, r) = TakenAt(t, s), SentAt(t, d) = SentAt(t, c)
  PROVE  GoodSocket(t, r, d, f)
BY Zenon DEF GoodSocket

(* Hashing, *)
LEMMA HashIntoGood ==
  ASSUME IInv, GInv, NEW p \in Party, NEW t \in Threads, HashInto(p, t)
  PROVE  GInv'
<1> DEFINE s == th[p][t]
<1>1. /\ inst' = inst /\ main' = main /\ chan' = chan /\ out' = out /\ raced' = raced
      /\ s.st = "hash"
      /\ hashBuf' = [hashBuf EXCEPT ![p] = Hashed(s.jobs[s.pos])]
  BY DEF HashInto, UnchangedMain
<1>2. /\ inst \in Instances /\ Asleep /\ DOMAIN hashBuf = Party /\ CLIENT \in Party /\ SERVER \in Party
      /\ CLIENT # SERVER
  BY Parties DEF IInv, KeyInv, BaseInv, Together, MasksOK
<1>3. Changed(p, t, "copy", s.ot_id, s.jobs, s.pos, s.snd)
  BY <1>1, <1>2, HashIntoIs, BecomesChanged
<1>4. /\ \A q \in Party, u \in Threads : (q # p \/ u # t) => th'[q][u] = th[q][u]
      /\ th'[p][t].st = "copy" /\ th'[p][t].ot_id = s.ot_id /\ th'[p][t].jobs = s.jobs
      /\ th'[p][t].pos = s.pos /\ th'[p][t].snd = s.snd
  BY <1>3 DEF Changed
<1>5. /\ SentAt(t, th'[p][t]) = SentAt(t, s) /\ TakenAt(t, th'[p][t]) = TakenAt(t, s)
      /\ Active(s) /\ Active(th'[p][t])
  BY <1>1, <1>4 DEF SentAt, TakenAt, Active
<1>6. ASSUME inst.threads = 1, NEW q \in Party
      PROVE  ~ raced'[q] /\ CopiesOwn(th'[q][0], hashBuf'[q])
  <2>1. ~ raced[q] /\ CopiesOwn(th[q][0], hashBuf[q])
    BY <1>6 DEF GInv, Alone
  <2>2. t = 0 /\ 0 \in Threads
    BY <1>6 DEF Threads
  <2>3. CASE q = p
    BY <1>1, <1>2, <1>4, <2>1, <2>2, <2>3 DEF CopiesOwn
  <2>4. CASE q # p
    BY <1>1, <1>2, <1>4, <2>1, <2>2, <2>4
  <2> QED
    BY <2>3, <2>4
<1>7. ASSUME Level <= 128
      PROVE  /\ GoodJobs(p, th'[p][t])
             /\ p = CLIENT => GoodSnd(t, th'[p][t])
             /\ main[SERVER] \notin ServerBase =>
                  GoodSocket(t, th'[SERVER][t], th'[CLIENT][t], chan'[SERVER][t])
             /\ \A q \in Party : ~ raced'[q] => GoodMasks(q, out'[q])
  <2>1. /\ GoodJobs(p, s) /\ (p = CLIENT => GoodSnd(t, s))
        /\ main[SERVER] \notin ServerBase =>
             GoodSocket(t, th[SERVER][t], th[CLIENT][t], chan[SERVER][t])
        /\ \A q \in Party : ~ raced[q] => GoodMasks(q, out[q])
    BY <1>7 DEF GInv, MasksGood
  <2>2. GoodJobs(p, th'[p][t])
    BY <1>4, <1>5, <2>1 DEF GoodJobs
  <2>3. p = CLIENT => GoodSnd(t, th'[p][t])
    BY <1>4, <1>5, <2>1 DEF GoodSnd
  <2>4. /\ TakenAt(t, th'[SERVER][t]) = TakenAt(t, th[SERVER][t])
        /\ SentAt(t, th'[CLIENT][t]) = SentAt(t, th[CLIENT][t])
    <3>1. CASE p = SERVER
      BY <1>2, <1>4, <1>5, <3>1
    <3>2. CASE p # SERVER
      BY <1>2, <1>4, <1>5, <3>2, Parties
    <3> QED
      BY <3>1, <3>2
  <2>5. main[SERVER] \notin ServerBase =>
          GoodSocket(t, th'[SERVER][t], th'[CLIENT][t], chan'[SERVER][t])
    BY <1>1, <2>1, <2>4, SocketStays
  <2> QED
    BY <1>1, <2>1, <2>2, <2>3, <2>5
<1>8. DOMAIN raced' = Party
  BY <1>1 DEF GInv
<1> QED
  BY <1>1, <1>4, <1>6, <1>7, <1>8, GoodThread

(* copying: what is copied is what the thread hashed, or the mask is a raced one, *)
LEMMA CopyOutGood ==
  ASSUME IInv, GInv, NEW p \in Party, NEW t \in Threads, CopyOut(p, t)
  PROVE  GInv'
<1> DEFINE s == th[p][t]
           job == s.jobs[s.pos]
<1>1. /\ inst' = inst /\ main' = main /\ chan' = chan /\ hashBuf' = hashBuf /\ s.st = "copy"
      /\ out' = [out EXCEPT ![p] = IF job.cell = NoCell THEN out[p]
                                   ELSE [out[p] EXCEPT ![job.cell] = hashBuf[p]]]
      /\ raced' = [raced EXCEPT ![p] = raced[p] \/ hashBuf[p] # Hashed(job)]
  BY DEF CopyOut, UnchangedMain
<1>2. /\ inst \in Instances /\ Asleep /\ CLIENT \in Party /\ SERVER \in Party /\ CLIENT # SERVER
      /\ DOMAIN out = Party /\ DOMAIN out[p] = 0 .. NMasks(p) - 1
      /\ ThreadOK(p, t, s) /\ DOMAIN raced = Party
  BY Parties DEF IInv, KeyInv, BaseInv, Together, MasksOK, ThreadsOK, GInv
<1>3. Changed(p, t, "hash", s.ot_id, s.jobs, s.pos + 1, s.snd)
  BY <1>1, <1>2, CopyOutIs, BecomesChanged
<1>4. /\ \A q \in Party, u \in Threads : (q # p \/ u # t) => th'[q][u] = th[q][u]
      /\ th'[p][t].st = "hash" /\ th'[p][t].ot_id = s.ot_id /\ th'[p][t].jobs = s.jobs
      /\ th'[p][t].snd = s.snd
  BY <1>3 DEF Changed
<1>5. /\ SentAt(t, th'[p][t]) = SentAt(t, s) /\ TakenAt(t, th'[p][t]) = TakenAt(t, s)
      /\ Active(s) /\ Active(th'[p][t])
  BY <1>1, <1>4 DEF SentAt, TakenAt, Active
<1>6. s.pos \in 1 .. Len(s.jobs)
  <2>1. JobsOK(p, s.jobs, s.ot_id, NextOtId(t, s.ot_id)) /\ s.pos \in 1 .. Len(s.jobs) + 1
        /\ s.pos <= Len(s.jobs)
    BY <1>1, <1>2 DEF ThreadOK, Active
  <2>2. Len(s.jobs) \in Nat
    BY <2>1, SeqFacts DEF JobsOK
  <2> QED
    BY <2>1, <2>2
<1>7. ASSUME inst.threads = 1, NEW q \in Party
      PROVE  ~ raced'[q] /\ CopiesOwn(th'[q][0], hashBuf'[q])
  <2>1. ~ raced[q] /\ CopiesOwn(th[q][0], hashBuf[q])
    BY <1>7 DEF GInv, Alone
  <2>2. t = 0 /\ 0 \in Threads
    BY <1>7 DEF Threads
  <2>3. CASE q = p
    <3>1. ~ raced[p] /\ hashBuf[p] = Hashed(job)
      BY <1>1, <2>1, <2>2, <2>3 DEF CopiesOwn
    <3> HIDE DEF job
    <3>2. ~ raced'[p]
      BY <1>1, <1>2, <3>1
    <3>3. CopiesOwn(th'[p][0], hashBuf'[p])
      BY <1>4, <2>2 DEF CopiesOwn
    <3> QED
      BY <2>3, <3>2, <3>3
  <2>4. CASE q # p
    <3>1. raced'[q] = raced[q]
      BY <1>1, <1>2, <2>4
    <3>2. th'[q][0] = th[q][0]
      BY <1>4, <2>2, <2>4
    <3> QED
      BY <1>1, <2>1, <3>1, <3>2
  <2> QED
    BY <2>3, <2>4
<1>8. ASSUME Level <= 128
      PROVE  /\ GoodJobs(p, th'[p][t])
             /\ p = CLIENT => GoodSnd(t, th'[p][t])
             /\ main[SERVER] \notin ServerBase =>
                  GoodSocket(t, th'[SERVER][t], th'[CLIENT][t], chan'[SERVER][t])
             /\ \A q \in Party : ~ raced'[q] => GoodMasks(q, out'[q])
  <2>1. /\ GoodJobs(p, s) /\ (p = CLIENT => GoodSnd(t, s))
        /\ main[SERVER] \notin ServerBase =>
             GoodSocket(t, th[SERVER][t], th[CLIENT][t], chan[SERVER][t])
        /\ \A q \in Party : ~ raced[q] => GoodMasks(q, out[q])
    BY <1>8 DEF GInv, MasksGood
  <2>2. GoodJobs(p, th'[p][t])
    BY <1>4, <1>5, <2>1 DEF GoodJobs
  <2>3. p = CLIENT => GoodSnd(t, th'[p][t])
    BY <1>4, <1>5, <2>1 DEF GoodSnd
  <2>4. /\ TakenAt(t, th'[SERVER][t]) = TakenAt(t, th[SERVER][t])
        /\ SentAt(t, th'[CLIENT][t]) = SentAt(t, th[CLIENT][t])
    <3>1. CASE p = SERVER
      BY <1>2, <1>4, <1>5, <3>1
    <3>2. CASE p # SERVER
      BY <1>2, <1>4, <1>5, <3>2, Parties
    <3> QED
      BY <3>1, <3>2
  <2>5. main[SERVER] \notin ServerBase =>
          GoodSocket(t, th'[SERVER][t], th'[CLIENT][t], chan'[SERVER][t])
    BY <1>1, <2>1, <2>4, SocketStays
  <2>6. job.cell # NoCell => IsMask(p, job.cell, Hashed(job))
    BY <1>5, <1>6, <2>1 DEF GoodJobs
  <2> HIDE DEF job
  <2>7. ASSUME NEW q \in Party, ~ raced'[q] PROVE GoodMasks(q, out'[q])
    <3>1. CASE q # p
      <4>1. raced'[q] = raced[q] /\ out'[q] = out[q]
        BY <1>1, <1>2, <3>1
      <4> QED
        BY <2>1, <2>7, <4>1
    <3>2. CASE q = p
      <4>1. ~ raced[p] /\ hashBuf[p] = Hashed(job)
        BY <1>1, <1>2, <2>7, <3>2
      <4>2. GoodMasks(p, out[p])
        BY <2>1, <4>1
      <4>3. CASE job.cell = NoCell
        <5>1. out'[p] = out[p]
          BY <1>1, <1>2, <4>3
        <5> QED
          BY <3>2, <4>2, <5>1
      <4>4. CASE job.cell # NoCell
        <5>1. out'[p] = [out[p] EXCEPT ![job.cell] = Hashed(job)]
          BY <1>1, <1>2, <4>1, <4>4
        <5>2. ASSUME NEW e \in 0 .. NMasks(p) - 1, out'[p][e] # <<>>
              PROVE  IsMask(p, e, out'[p][e])
          <6>1. out'[p][e] = IF e = job.cell THEN Hashed(job) ELSE out[p][e]
            BY <1>2, <5>1
          <6> QED
            BY <2>6, <4>2, <4>4, <5>2, <6>1 DEF GoodMasks
        <5> QED
          BY <3>2, <5>2 DEF GoodMasks
      <4> QED
        BY <4>3, <4>4
    <3> QED
      BY <3>1, <3>2
  <2> QED
    BY <2>2, <2>3, <2>5, <2>7
<1>9. DOMAIN raced' = Party
  BY <1>1, <1>2
<1>10. inst' = inst /\ main' = main /\ \A u \in Threads : u # t => chan'[SERVER][u] = chan[SERVER][u]
  BY <1>1
<1>11. \A q \in Party, u \in Threads : (q # p \/ u # t) => th'[q][u] = th[q][u]
  BY <1>4
<1> HIDE DEF s, job
<1> QED
  BY <1>7, <1>8, <1>9, <1>10, <1>11, GoodThread

(***************************************************************************)
(* The matrices on their way.                                              *)
(***************************************************************************)

(* The second of two joined sequences. *)
LEMMA JoinedAt ==
  ASSUME NEW s, IsSeq(s), NEW r, IsSeq(r), NEW n \in 1 .. Len(r)
  PROVE  (s \o r)[Len(s) + n] = r[n]
<1> PICK S : s \in Seq(S)
  BY DEF IsSeq
<1> PICK R : r \in Seq(R)
  BY DEF IsSeq
<1> DEFINE T == S \cup R
<1>1. s \in Seq(T) /\ r \in Seq(T)
  BY SeqMonotonic
<1> HIDE DEF T
<1>2. \A i \in 1 .. Len(s) + Len(r) :
        (s \o r)[i] = IF i <= Len(s) THEN s[i] ELSE r[i - Len(s)]
  BY <1>1, ConcatProperties
<1>3. Len(s) \in Nat /\ Len(r) \in Nat
  BY <1>1, LenProperties
<1>4. PICK x : x = Len(s) + n
  OBVIOUS
<1>5. x \in 1 .. Len(s) + Len(r) /\ ~ (x <= Len(s)) /\ x - Len(s) = n
  BY <1>3, <1>4
<1> QED
  BY <1>2, <1>4, <1>5

(* The two parts of a sequence. *)
LEMMA PartsAt ==
  ASSUME NEW s, IsSeq(s), NEW n \in Nat, n <= Len(s)
  PROVE  /\ \A i \in 1 .. n : SubSeq(s, 1, n)[i] = s[i]
         /\ \A i \in 1 .. Len(s) - n : SubSeq(s, n + 1, Len(s))[i] = s[n + i]
<1> PICK S : s \in Seq(S)
  BY DEF IsSeq
<1>1. Len(s) \in Nat
  BY LenProperties
<1>2. ASSUME NEW a \in 1 .. Len(s) + 1, NEW b \in 0 .. Len(s), NEW i \in 1 .. b - a + 1
      PROVE  SubSeq(s, a, b)[i] = s[a + i - 1]
  <2>1. a \in Int /\ b \in Int
    BY <1>1
  <2>2. \A x \in a .. b : s[x] \in S
    <3>1. \A x \in a .. b : x \in 1 .. Len(s)
      BY <1>1
    <3> QED
      BY <3>1, ElementOfSeq
  <2>3. \A x \in 1 .. b - a + 1 : SubSeq(s, a, b)[x] = s[a + x - 1]
    BY <2>1, <2>2, SubSeqProperties
  <2> QED
    BY <2>3
<1>3. ASSUME NEW i \in 1 .. n PROVE SubSeq(s, 1, n)[i] = s[i]
  <2>1. 1 \in 1 .. Len(s) + 1 /\ n \in 0 .. Len(s) /\ i \in 1 .. n - 1 + 1 /\ 1 + i - 1 = i
    BY <1>1
  <2> QED
    BY <1>2, <2>1
<1>4. ASSUME NEW i \in 1 .. Len(s) - n PROVE SubSeq(s, n + 1, Len(s))[i] = s[n + i]
  <2>1. PICK a, b : a = n + 1 /\ b = Len(s)
    OBVIOUS
  <2>2. a \in 1 .. Len(s) + 1 /\ b \in 0 .. Len(s) /\ i \in 1 .. b - a + 1 /\ a + i - 1 = n + i
    BY <1>1, <2>1
  <2>3. SubSeq(s, a, b)[i] = s[a + i - 1]
    BY <1>2, <2>2
  <2> QED
    BY <2>1, <2>2, <2>3
<1> QED
  BY <1>3, <1>4

(* The bits of the rounds before a point come before those of the round there, *)
LEMMA BitsGrow ==
  ASSUME inst \in Instances, NEW t \in Threads, NEW x, NEW y, Point(t, x), Point(t, y), x <= y
  PROVE  Bits(t, x) \in Nat /\ Bits(t, y) \in Nat /\ Bits(t, x) <= Bits(t, y)
<1> DEFINE z == CodeWordBits
           p == CeilDivide(x - MyStartPos(t), z)
           q == CeilDivide(y - MyStartPos(t), z)
<1>1. MyStartPos(t) \in Nat /\ x \in Nat /\ y \in Nat /\ MyStartPos(t) <= x /\ z \in Nat \ {0}
  BY Part, GroupOK DEF Point
<1>2. x - MyStartPos(t) \in Nat /\ y - MyStartPos(t) \in Nat
      /\ x - MyStartPos(t) <= y - MyStartPos(t)
  BY <1>1
<1>3. Bits(t, x) = z * (z * p) /\ Bits(t, y) = z * (z * q)
  BY DEF Bits
<1> HIDE DEF z
<1>4. p \in Nat /\ q \in Nat /\ p <= q
  BY <1>1, <1>2, CeilDivideBounds, CeilDivideGrows
<1> HIDE DEF p, q
<1>5. z * p \in Nat /\ z * q \in Nat /\ z * p <= z * q
  BY <1>1, <1>4
<1>6. PICK a, b : a = z * p /\ b = z * q
  OBVIOUS
<1>7. z * a \in Nat /\ z * b \in Nat /\ z * a <= z * b
  BY <1>1, <1>5, <1>6
<1> QED
  BY <1>3, <1>6, <1>7

(* all of them. *)
LEMMA BitsAbove ==
  ASSUME inst \in Instances, NEW t \in Threads, NEW x, NEW y, Point(t, x), Point(t, y), x < y
  PROVE  /\ x \in Nat /\ x < OtLim(t)
         /\ Bits(t, x) \in Nat /\ Bits(t, y) \in Nat
         /\ CodeWordBits * ProcessedOTs(t, x) \in Nat \ {0}
         /\ Bits(t, x) + CodeWordBits * ProcessedOTs(t, x) <= Bits(t, y)
<1>1. x < OtLim(t) /\ NextOtId(t, x) <= y /\ x \in Nat
  BY PointAbove
<1>2. Point(t, NextOtId(t, x))
  BY <1>1, PointNext
<1>3. PICK v : v = NextOtId(t, x)
  OBVIOUS
<1>4. Bits(t, v) \in Nat /\ Bits(t, y) \in Nat /\ Bits(t, v) <= Bits(t, y)
  BY <1>1, <1>2, <1>3, BitsGrow
<1>5. /\ Bits(t, x) \in Nat /\ CodeWordBits * ProcessedOTs(t, x) \in Nat \ {0}
      /\ Bits(t, v) = Bits(t, x) + CodeWordBits * ProcessedOTs(t, x)
  BY <1>1, <1>3, BitsNext
<1> QED
  BY <1>1, <1>4, <1>5

(* What is held is held where it is moved to. *)
LEMMA HeldMoved ==
  ASSUME inst \in Instances, NEW t \in Threads, NEW o \in Nat, o < OtLim(t),
         NEW f, NEW a, NEW g, NEW b, Holds(f, a, t, o),
         \A w \in 0 .. CodeWordBits * ProcessedOTs(t, o) - 1 : g[b + w] = f[a + w]
  PROVE  Holds(g, b, t, o)
<1> SUFFICES ASSUME NEW k \in BaseOTs, NEW j \in 0 .. OtLen(t, o) - 1
             PROVE  g[b + (k * ProcessedOTs(t, o) + j)] = SentBit(o, k, j)
  BY DEF Holds
<1>1. f[a + (k * ProcessedOTs(t, o) + j)] = SentBit(o, k, j)
  BY DEF Holds
<1>2. /\ ProcessedOTs(t, o) \in Nat \ {0} /\ OtLen(t, o) \in Nat /\ OtLen(t, o) <= ProcessedOTs(t, o)
  BY RoundSizes
<1>3. j \in 0 .. ProcessedOTs(t, o) - 1 /\ k \in 0 .. CodeWordBits - 1 /\ CodeWordBits \in Nat \ {0}
  BY <1>2, GroupOK DEF BaseOTs
<1>4. PICK c, w : c = ProcessedOTs(t, o) /\ w = k * c + j
  OBVIOUS
<1>5. w \in 0 .. CodeWordBits * c - 1
  BY <1>2, <1>3, <1>4, MatrixPlaces
<1>6. g[b + w] = f[a + w]
  BY <1>4, <1>5
<1> QED
  BY <1>1, <1>4, <1>6

(* A round of the client: its masks and its matrix are what they should be. *)
LEMMA ClientRoundGood ==
  ASSUME IInv, GInv, NEW t \in Threads, ClientRound(t)
  PROVE  GInv'
<1> DEFINE s == th[CLIENT][t]
           o == s.ot_id
           len == OtLen(t, o)
           jobs == ClientJobs(o, ProcessedOTs(t, o), len)
           snd == MatrixSnd(o, ProcessedOTs(t, o), len)
<1>1. /\ inst' = inst /\ main' = main /\ chan' = chan /\ out' = out
      /\ UNCHANGED <<raced, hashBuf>> /\ s.st = "ready" /\ o < OtLim(t)
  BY DEF ClientRound, UnchangedMain
<1>2. /\ inst \in Instances /\ Asleep /\ CLIENT \in Party /\ SERVER \in Party /\ CLIENT # SERVER
      /\ ThreadOK(CLIENT, t, s) /\ KeysOK
  BY Parties DEF IInv, KeyInv, BaseInv, Together, ThreadsOK
<1>3. Changed(CLIENT, t, "hash", o, jobs, 1, snd)
  BY <1>1, <1>2, ClientRoundIs, BecomesChanged
<1>4. /\ \A q \in Party, u \in Threads : (q # CLIENT \/ u # t) => th'[q][u] = th[q][u]
      /\ th'[CLIENT][t].st = "hash" /\ th'[CLIENT][t].ot_id = o /\ th'[CLIENT][t].jobs = jobs
      /\ th'[CLIENT][t].snd = snd
  BY <1>3, Zenon DEF Changed
<1>5. Point(t, o) /\ o \in Nat
  BY <1>1, <1>2 DEF ThreadOK, Point
<1>6. keySeedMtx = ClientKeys
  <2>1. Begun(CLIENT)
    BY <1>1, <1>2, Awake
  <2>2. main[CLIENT] \notin ClientBase
    BY <2>1 DEF Begun, ClientBase
  <2> QED
    BY <1>2, <2>2 DEF KeysOK
<1>7. /\ len \in Nat /\ o + len <= nOTs
  BY <1>1, <1>2, <1>5, RoundSizes
<1>8. ASSUME NEW n \in 1 .. Len(jobs) PROVE n \in 1 .. len
  <2>1. JobsOK(CLIENT, jobs, o, o + len)
    <3> HIDE DEF o
    <3> QED
      BY <1>2, <1>5, <1>7, ClientJobsOK
  <2>2. DOMAIN jobs = 1 .. Len(jobs)
    BY <2>1, SeqFacts DEF JobsOK
  <2>3. DOMAIN jobs = 1 .. len
    BY DEF ClientJobs
  <2> QED
    BY <2>2, <2>3
<1> HIDE DEF s, o
<1>9. GoodJobs(CLIENT, th'[CLIENT][t])
  <2> SUFFICES ASSUME NEW n \in 1 .. Len(jobs), jobs[n].cell # NoCell
               PROVE  IsMask(CLIENT, jobs[n].cell, Hashed(jobs[n]))
    <3> HIDE DEF jobs
    <3> QED
      BY <1>4 DEF GoodJobs
  <2>1. n \in 1 .. OtLen(t, o)
    BY <1>8
  <2>2. PICK job : job = jobs[n]
    OBVIOUS
  <2>3. job = ClientJobs(o, ProcessedOTs(t, o), OtLen(t, o))[n] /\ job.cell # NoCell
    BY <2>2
  <2>4. IsMask(CLIENT, job.cell, Hashed(job))
    BY <1>1, <1>2, <1>5, <1>6, <2>1, <2>3, ClientRows
  <2> QED
    BY <2>2, <2>4
<1>10. GoodSnd(t, th'[CLIENT][t])
  <2>1. Holds(snd, 0, t, o)
    BY <1>1, <1>2, <1>5, <1>6, MatrixHolds
  <2> QED
    BY <1>4, <2>1 DEF GoodSnd
<1> HIDE DEF jobs, snd, len
<1>11. SentAt(t, th'[CLIENT][t]) = SentAt(t, th[CLIENT][t]) /\ th'[SERVER][t] = th[SERVER][t]
  <2>1. th'[SERVER][t] = th[SERVER][t]
    BY <1>2, <1>4
  <2>2. th[CLIENT][t].st = "ready" /\ th[CLIENT][t].ot_id = o
    BY <1>1 DEF s, o
  <2> QED
    BY <1>4, <2>1, <2>2 DEF SentAt
<1>12. ASSUME Level <= 128
       PROVE  /\ main[SERVER] \notin ServerBase =>
                   GoodSocket(t, th'[SERVER][t], th'[CLIENT][t], chan'[SERVER][t])
              /\ \A q \in Party : ~ raced'[q] => GoodMasks(q, out'[q])
  <2>1. MasksGood
    BY <1>12 DEF GInv
  <2>2. main[SERVER] \notin ServerBase =>
          GoodSocket(t, th[SERVER][t], th[CLIENT][t], chan[SERVER][t])
    BY <2>1 DEF MasksGood
  <2>3. main[SERVER] \notin ServerBase =>
          GoodSocket(t, th'[SERVER][t], th'[CLIENT][t], chan'[SERVER][t])
    BY <1>1, <1>11, <2>2, SocketStays
  <2>4. \A q \in Party : ~ raced[q] => GoodMasks(q, out[q])
    BY <2>1 DEF MasksGood
  <2> QED
    BY <1>1, <2>3, <2>4
<1>13. /\ DOMAIN raced' = Party
       /\ inst.threads = 1 => \A q \in Party : ~ raced'[q] /\ CopiesOwn(th'[q][0], hashBuf'[q])
  <2>1. \A q \in Party : th'[q][0].st = "copy" => th'[q][0] = th[q][0]
    <3>1. 0 \in Threads
      BY <1>2, Sizes
    <3> QED
      BY <1>4, <3>1
  <2> QED
    BY <1>1, <1>2, <2>1, StillAlone
<1> QED
  BY <1>1, <1>2, <1>4, <1>9, <1>10, <1>12, <1>13, GoodThread

(* The matrix of a round joins those on their way. *)
LEMMA SocketGrows ==
  ASSUME inst \in Instances, NEW t \in Threads, NEW s, NEW c, NEW d, NEW a, NEW o,
         a = TakenAt(t, s), o = SentAt(t, c), SentAt(t, d) = NextOtId(t, o),
         Point(t, a), Point(t, o), o < OtLim(t), a <= o,
         NEW old, IsSeq(old), Len(old) = Bits(t, o) - Bits(t, a), GoodSocket(t, s, c, old),
         NEW snd, Holds(snd, 0, t, o),
         NEW list, IsSeq(list), Len(list) = CodeWordBits * ProcessedOTs(t, o),
         \A n \in 1 .. Len(list) : list[n] = snd[n - 1]
  PROVE  GoodSocket(t, s, d, old \o list)
<1> DEFINE r == old \o list
           v == NextOtId(t, o)
<1>1. /\ \A n \in 1 .. Len(old) : r[n] = old[n]
      /\ \A n \in 1 .. Len(list) : r[Len(old) + n] = list[n]
      /\ Len(old) \in Nat /\ Len(list) \in Nat
  <2>1. \A n \in 1 .. Len(old) : (old \o list)[n] = old[n]
    BY Joined, Zenon
  <2> HIDE DEF r, v
  <2>2. ASSUME NEW n \in 1 .. Len(list) PROVE (old \o list)[Len(old) + n] = list[n]
    BY JoinedAt
  <2>3. Len(old) \in Nat /\ Len(list) \in Nat
    BY SeqFacts
  <2> QED
    BY <2>1, <2>2, <2>3, Zenon DEF r
<1>2. Bits(t, a) \in Nat /\ Bits(t, o) \in Nat /\ o \in Nat
  BY BitsGrow DEF Point
<1> SUFFICES ASSUME NEW x \in Nat, Point(t, x), a <= x, x < v
             PROVE  Holds(r, Bits(t, x) - Bits(t, a) + 1, t, x)
  BY Zenon DEF GoodSocket
<1>3. ~ (o < x)
  <2> SUFFICES ASSUME o < x PROVE FALSE
    OBVIOUS
  <2>1. v <= x /\ v \in Nat
    BY PointAbove
  <2> HIDE DEF v
  <2> QED
    BY <2>1
<1> HIDE DEF r, v
<1>4. CASE x < o
  <2>1. /\ Bits(t, x) \in Nat /\ CodeWordBits * ProcessedOTs(t, x) \in Nat \ {0} /\ x < OtLim(t)
        /\ Bits(t, x) + CodeWordBits * ProcessedOTs(t, x) <= Bits(t, o)
    BY <1>4, BitsAbove
  <2>2. Bits(t, a) <= Bits(t, x)
    BY BitsGrow
  <2>3. PICK b, m : b = Bits(t, x) - Bits(t, a) + 1 /\ m = CodeWordBits * ProcessedOTs(t, x)
    OBVIOUS
  <2>4. Holds(old, b, t, x)
    <3>1. x < SentAt(t, c) /\ TakenAt(t, s) <= x
      BY <1>4
    <3> QED
      BY <2>3, <3>1 DEF GoodSocket
  <2>5. ASSUME NEW w \in 0 .. m - 1 PROVE r[b + w] = old[b + w]
    <3>1. PICK p, q, y : p = Bits(t, x) /\ q = Bits(t, a) /\ y = Bits(t, o)
      OBVIOUS
    <3>2. p \in Nat /\ q \in Nat /\ y \in Nat /\ p + m <= y /\ q <= p /\ b = p - q + 1 /\ m \in Nat
          /\ Len(old) = y - q
      BY <1>2, <2>1, <2>2, <2>3, <3>1
    <3>3. b + w \in 1 .. Len(old)
      BY <3>2
    <3> QED
      BY <1>1, <3>3
  <2>6. Holds(r, b, t, x)
    BY <2>1, <2>3, <2>4, <2>5, HeldMoved
  <2> QED
    BY <2>3, <2>6
<1>5. CASE x = o
  <2>1. PICK b, m : b = Bits(t, o) - Bits(t, a) + 1 /\ m = CodeWordBits * ProcessedOTs(t, o)
    OBVIOUS
  <2>2. ASSUME NEW w \in 0 .. m - 1 PROVE r[b + w] = snd[0 + w]
    <3>1. m \in Nat /\ m = Len(list)
      BY <1>1, <2>1
    <3>2. w + 1 \in 1 .. Len(list) /\ (w + 1) - 1 = 0 + w
      BY <3>1
    <3>3. b + w = Len(old) + (w + 1)
      <4>1. b = Len(old) + 1
        BY <2>1
      <4> QED
        BY <1>1, <3>1, <4>1
    <3>4. r[Len(old) + (w + 1)] = list[w + 1] /\ list[w + 1] = snd[(w + 1) - 1]
      BY <1>1, <3>2
    <3> QED
      BY <3>2, <3>3, <3>4
  <2>3. \A w \in 0 .. CodeWordBits * ProcessedOTs(t, o) - 1 : r[b + w] = snd[0 + w]
    BY <2>1, <2>2
  <2>4. Holds(r, b, t, o)
    BY <1>2, <2>3, HeldMoved, Zenon
  <2> QED
    BY <1>5, <2>1, <2>4
<1> QED
  BY <1>2, <1>3, <1>4, <1>5

(* The end of a round: the client's matrix is sent. *)
LEMMA EndRoundGood ==
  ASSUME IInv, Underway, GInv, NEW p \in Party, NEW t \in Threads, EndRound(p, t)
  PROVE  GInv'
<1> DEFINE s == th[p][t]
           o == s.ot_id
           snd == s.snd
           list == [n \in 1 .. Cardinality(DOMAIN snd) |-> snd[n - 1]]
<1>1. /\ inst' = inst /\ main' = main /\ s.st = "hash" /\ out' = out /\ UNCHANGED <<raced, hashBuf>>
      /\ chan' = IF p = CLIENT THEN Put(chan, SERVER, t, chan[SERVER][t] \o list) ELSE chan
  BY Zenon DEF EndRound, UnchangedMain, Put
<1>2. /\ inst \in Instances /\ Asleep /\ Channels /\ ThreadOK(p, t, s)
      /\ SERVER \in Party /\ CLIENT \in Party /\ SERVER # CLIENT
  BY Parties DEF IInv, KeyInv, BaseInv, Together, ThreadsOK
<1>3. Changed(p, t, "ready", NextOtId(t, o), Idle.jobs, Idle.pos, Idle.snd)
  BY <1>1, <1>2, EndRoundIs, BecomesChanged
<1>4. /\ th'[p][t].st = "ready" /\ th'[p][t].ot_id = NextOtId(t, o)
      /\ \A q \in Party, u \in Threads : (q # p \/ u # t) => th'[q][u] = th[q][u]
  BY <1>3 DEF Changed
<1>5. /\ DOMAIN raced' = Party
      /\ inst.threads = 1 => \A q \in Party : ~ raced'[q] /\ CopiesOwn(th'[q][0], hashBuf'[q])
  <2>1. \A q \in Party : th'[q][0].st = "copy" => th'[q][0] = th[q][0]
    <3>1. 0 \in Threads
      BY <1>2, Sizes
    <3> QED
      BY <1>4, <3>1
  <2> QED
    BY <1>1, <1>2, <2>1, StillAlone
<1>6. GoodJobs(p, th'[p][t]) /\ GoodSnd(t, th'[p][t])
  BY <1>4 DEF GoodJobs, GoodSnd, Active
<1>7. main[SERVER] \notin ServerBase
  BY <1>1, <1>2, Awake
<1>8. CASE p # CLIENT
  <2>1. p = SERVER /\ chan' = chan /\ th'[CLIENT][t] = th[CLIENT][t]
    BY <1>1, <1>2, <1>4, <1>8, Parties
  <2>2. TakenAt(t, th'[SERVER][t]) = TakenAt(t, th[SERVER][t])
    BY <1>1, <1>4, <2>1 DEF TakenAt, Active
  <2>3. ASSUME Level <= 128
        PROVE  /\ GoodSocket(t, th'[SERVER][t], th'[CLIENT][t], chan'[SERVER][t])
               /\ \A q \in Party : ~ raced'[q] => GoodMasks(q, out'[q])
    <3>1. /\ GoodSocket(t, th[SERVER][t], th[CLIENT][t], chan[SERVER][t])
          /\ \A q \in Party : ~ raced[q] => GoodMasks(q, out[q])
      BY <1>7, <2>3 DEF GInv, MasksGood
    <3>2. GoodSocket(t, th'[SERVER][t], th'[CLIENT][t], chan'[SERVER][t])
      BY <2>1, <2>2, <3>1, SocketStays
    <3> QED
      BY <1>1, <3>1, <3>2
  <2> HIDE DEF s, o, snd, list
  <2> QED
    BY <1>1, <1>4, <1>5, <1>6, <2>1, <2>3, GoodThread
<1>9. CASE p = CLIENT
  <2>1. /\ Point(t, o) /\ o \in Nat /\ o < OtLim(t)
        /\ DOMAIN snd = 0 .. CodeWordBits * ProcessedOTs(t, o) - 1
    BY <1>1, <1>2, <1>9 DEF ThreadOK, Active, Point
  <2> DEFINE m == CodeWordBits * ProcessedOTs(t, o)
             old == chan[SERVER][t]
  <2>2. m \in Nat
    <3> HIDE DEF o
    <3> QED
      BY <1>2, <2>1, BitsNext
  <2>3. IsSeq(list) /\ Len(list) = m /\ \A n \in 1 .. Len(list) : list[n] = snd[n - 1]
    <3>1. IsSeq(list) /\ Len(list) = m
      <4> HIDE DEF snd, m
      <4> QED
        BY <2>1, <2>2, Enumerated DEF m
    <3>2. DOMAIN list = 1 .. Len(list)
      BY <3>1, SeqFacts
    <3>3. \A n \in DOMAIN list : list[n] = snd[n - 1]
      OBVIOUS
    <3> HIDE DEF list
    <3> QED
      BY <3>1, <3>2, <3>3
  <2>4. IsSeq(old)
    BY <1>2 DEF Channels
  <2> DEFINE r == old \o list
  <2>5. IsSeq(r)
    <3> HIDE DEF list, old, m
    <3> QED
      BY <2>3, <2>4, Joined
  <2>6. \A q \in Party, u \in Threads : chan'[q][u] = IF q = SERVER /\ u = t THEN r ELSE chan[q][u]
    <3>1. chan' = Put(chan, SERVER, t, r)
      BY <1>1, <1>9
    <3> HIDE DEF r
    <3> QED
      BY <1>1, <1>2, <2>5, <3>1, ChannelPlaced
  <2>7. PICK a : a = TakenAt(t, th[SERVER][t])
    OBVIOUS
  <2>8. SentAt(t, th[CLIENT][t]) = o /\ SentAt(t, th'[CLIENT][t]) = NextOtId(t, o)
    BY <1>1, <1>4, <1>9 DEF SentAt
  <2>9. a <= o /\ Len(old) = Bits(t, o) - Bits(t, a)
    BY <1>7, <2>7, <2>8, UnderwayParts DEF ThreadUnderway
  <2>10. Point(t, a)
    BY <2>7, AtPoints
  <2>11. th'[SERVER][t] = th[SERVER][t]
    BY <1>2, <1>4, <1>9
  <2>12. Active(th[CLIENT][t])
    BY <1>1, <1>9 DEF Active
  <2>13. snd = th[CLIENT][t].snd /\ o = th[CLIENT][t].ot_id
    BY <1>9
  <2> HIDE DEF s, o, snd, list, old, m, r
  <2>14. ASSUME Level <= 128
         PROVE  /\ GoodSocket(t, th'[SERVER][t], th'[CLIENT][t], chan'[SERVER][t])
                /\ \A q \in Party : ~ raced'[q] => GoodMasks(q, out'[q])
    <3>1. /\ GoodSocket(t, th[SERVER][t], th[CLIENT][t], chan[SERVER][t])
          /\ GoodSnd(t, th[CLIENT][t])
          /\ \A q \in Party : ~ raced[q] => GoodMasks(q, out[q])
      BY <1>7, <2>14 DEF GInv, MasksGood
    <3>2. Holds(snd, 0, t, o)
      BY <2>12, <2>13, <3>1 DEF GoodSnd
    <3>3. PICK f, c, d : f = th[SERVER][t] /\ c = th[CLIENT][t] /\ d = th'[CLIENT][t]
      OBVIOUS
    <3>4. GoodSocket(t, f, c, old) /\ a = TakenAt(t, f) /\ o = SentAt(t, c) /\ SentAt(t, d) = NextOtId(t, o)
      BY <2>7, <2>8, <3>1, <3>3 DEF old
    <3>5. Len(list) = CodeWordBits * ProcessedOTs(t, o)
      BY <2>3 DEF m
    <3>6. GoodSocket(t, f, d, old \o list)
      BY <1>2, <2>1, <2>3, <2>4, <2>9, <2>10, <3>2, <3>4, <3>5, SocketGrows
    <3>7. chan'[SERVER][t] = old \o list
      BY <1>2, <2>6 DEF r
    <3> QED
      BY <1>1, <2>11, <3>1, <3>3, <3>6, <3>7
  <2>15. \A u \in Threads : u # t => chan'[SERVER][u] = chan[SERVER][u]
    BY <1>2, <2>6
  <2> QED
    BY <1>1, <1>4, <1>5, <1>6, <2>14, <2>15, GoodThread
<1> QED
  BY <1>8, <1>9

(* A place of the rounds that are left, before and after n entries are taken. *)
Left(p, q, y, z, m, n, w, d, e) ==
  /\ p \in Nat /\ q \in Nat /\ y \in Nat /\ z \in Nat /\ m \in Nat /\ n \in Nat /\ w \in Nat
  /\ w < m /\ p + m <= y /\ z <= p /\ z = q + n
  /\ d = p - q + 1 /\ e = p - z + 1

Shifted(q, y, n, w, d, e) ==
  e + w \in Nat /\ e + w >= 1 /\ e + w <= (y - q) - n /\ n + (e + w) = d + w

(* Where it is found among what is left. *)
LEMMA LeftShifted ==
  ASSUME NEW p, NEW q, NEW y, NEW z, NEW m, NEW n, NEW w, NEW d, NEW e,
         Left(p, q, y, z, m, n, w, d, e)
  PROVE  Shifted(q, y, n, w, d, e)
BY DEF Left, Shifted

(* The matrix of a round is taken from those on their way. *)
LEMMA SocketShrinks ==
  ASSUME inst \in Instances, NEW t \in Threads, NEW s, NEW r, NEW c, NEW o, NEW b,
         o = TakenAt(t, s), b = SentAt(t, c), TakenAt(t, r) = NextOtId(t, o),
         Point(t, o), Point(t, b), o < OtLim(t), NextOtId(t, o) <= b,
         NEW f, IsSeq(f), Len(f) = Bits(t, b) - Bits(t, o), GoodSocket(t, s, c, f),
         NEW n, n = CodeWordBits * ProcessedOTs(t, o)
  PROVE  /\ Holds(SubSeq(f, 1, n), 1, t, o)
         /\ GoodSocket(t, r, c, SubSeq(f, n + 1, Len(f)))
<1>1. PICK v : v = NextOtId(t, o)
  OBVIOUS
<1>2. /\ n \in Nat \ {0} /\ Bits(t, o) \in Nat /\ Bits(t, v) \in Nat /\ Bits(t, v) = Bits(t, o) + n
  BY <1>1, BitsNext
<1>3. /\ o \in Nat /\ v \in Nat /\ o < v /\ Point(t, v)
  <2>1. o \in Nat
    BY DEF Point
  <2> QED
    BY <1>1, <2>1, Round, PointNext
<1>4. Bits(t, b) \in Nat /\ Bits(t, v) <= Bits(t, b)
  BY <1>1, <1>3, BitsGrow
<1>5. Len(f) \in Nat /\ n <= Len(f)
  <2>1. PICK x, y : x = Bits(t, b) /\ y = Bits(t, o)
    OBVIOUS
  <2>2. x \in Nat /\ y \in Nat /\ y + n <= x /\ Len(f) = x - y /\ n \in Nat
    BY <1>2, <1>4, <2>1
  <2> QED
    BY <2>2
<1> DEFINE rcv == SubSeq(f, 1, n)
           rest == SubSeq(f, n + 1, Len(f))
<1>6. /\ \A i \in 1 .. n : rcv[i] = f[i]
      /\ \A i \in 1 .. Len(f) - n : rest[i] = f[n + i]
  BY <1>2, <1>5, PartsAt
<1> HIDE DEF rcv, rest
<1>7. Holds(rcv, 1, t, o)
  <2>1. Holds(f, 1, t, o)
    <3>1. Bits(t, o) - Bits(t, TakenAt(t, s)) + 1 = 1
      BY <1>2
    <3>2. o < b
      <4>1. b \in Nat
        BY DEF Point
      <4> QED
        BY <1>1, <1>3, <4>1
    <3>3. o <= o
      BY <1>3
    <3>4. Holds(f, Bits(t, o) - Bits(t, TakenAt(t, s)) + 1, t, o)
      BY <1>3, <3>2, <3>3 DEF GoodSocket
    <3> QED
      BY <3>1, <3>4
  <2>2. \A w \in 0 .. CodeWordBits * ProcessedOTs(t, o) - 1 : rcv[1 + w] = f[1 + w]
    <3>1. ASSUME NEW w \in 0 .. n - 1 PROVE rcv[1 + w] = f[1 + w]
      <4>1. 1 + w \in 1 .. n
        BY <1>2
      <4> QED
        BY <1>6, <4>1
    <3> QED
      BY <3>1
  <2> QED
    BY <1>3, <2>1, <2>2, HeldMoved, Zenon
<1>8. ASSUME NEW x \in Nat, Point(t, x), v <= x, x < b
      PROVE  Holds(rest, Bits(t, x) - Bits(t, v) + 1, t, x)
  <2>1. /\ Bits(t, x) \in Nat /\ CodeWordBits * ProcessedOTs(t, x) \in Nat \ {0} /\ x < OtLim(t)
        /\ Bits(t, x) + CodeWordBits * ProcessedOTs(t, x) <= Bits(t, b)
    BY <1>8, BitsAbove
  <2>2. Bits(t, v) <= Bits(t, x)
    BY <1>3, <1>8, BitsGrow
  <2>3. PICK d, e, m : /\ d = Bits(t, x) - Bits(t, o) + 1 /\ e = Bits(t, x) - Bits(t, v) + 1
                       /\ m = CodeWordBits * ProcessedOTs(t, x)
    OBVIOUS
  <2>4. Holds(f, d, t, x)
    <3>1. TakenAt(t, s) <= x
      BY <1>3, <1>8
    <3> QED
      BY <1>8, <2>3, <3>1 DEF GoodSocket
  <2>5. ASSUME NEW w \in 0 .. m - 1 PROVE rest[e + w] = f[d + w]
    <3>1. PICK p, q, y, z : p = Bits(t, x) /\ q = Bits(t, o) /\ y = Bits(t, b) /\ z = Bits(t, v)
      OBVIOUS
    <3>2. p \in Nat /\ q \in Nat /\ y \in Nat /\ z \in Nat /\ p + m <= y /\ z <= p /\ z = q + n
          /\ d = p - q + 1 /\ e = p - z + 1 /\ m \in Nat /\ Len(f) = y - q /\ n \in Nat
      BY <1>2, <1>4, <2>1, <2>2, <2>3, <3>1
    <3>3. w \in Nat /\ w < m
      BY <2>5, <3>2
    <3>4. e + w \in Nat /\ e + w >= 1 /\ e + w <= (y - q) - n /\ n + (e + w) = d + w
      <4>1. Left(p, q, y, z, m, n, w, d, e)
        BY <3>2, <3>3, Zenon DEF Left
      <4>2. Shifted(q, y, n, w, d, e)
        BY <4>1, LeftShifted, Zenon
      <4> QED
        BY <4>2, Zenon DEF Shifted
    <3>5. e + w \in 1 .. Len(f) - n
      <4>1. PICK l : l = e + w
        OBVIOUS
      <4>2. l \in 1 .. (y - q) - n
        BY <3>2, <3>4, <4>1
      <4> QED
        BY <3>2, <4>1, <4>2
    <3> QED
      BY <1>6, <3>4, <3>5
  <2>6. \A w \in 0 .. CodeWordBits * ProcessedOTs(t, x) - 1 : rest[e + w] = f[d + w]
    BY <2>3, <2>5
  <2>7. Holds(rest, e, t, x)
    BY <2>1, <2>4, <2>6, HeldMoved, Zenon
  <2> QED
    BY <2>3, <2>7
<1>9. GoodSocket(t, r, c, rest)
  BY <1>1, <1>8, Zenon DEF GoodSocket
<1> QED
  BY <1>7, <1>9 DEF rcv, rest

(* A round of the server: it takes the matrix of the client's round and its masks are what
   they should be. *)
LEMMA ServerRoundGood ==
  ASSUME IInv, Underway, GInv, NEW t \in Threads, ServerRound(t)
  PROVE  GInv'
<1> DEFINE self == th[SERVER][t]
           o == self.ot_id
           need == Awaited(t, o)
           f == chan[SERVER][t]
           rcv == SubSeq(f, 1, need)
           jobs == ServerJobs(rcv, o, ProcessedOTs(t, o), OtLen(t, o))
           rest == SubSeq(f, need + 1, Len(f))
<1>1. /\ inst' = inst /\ main' = main /\ self.st = "ready" /\ o < OtLim(t) /\ Len(f) >= need
      /\ chan' = Put(chan, SERVER, t, rest) /\ out' = out /\ UNCHANGED <<raced, hashBuf>>
  BY Zenon DEF ServerRound, UnchangedMain, Put
<1>2. /\ inst \in Instances /\ Asleep /\ Channels /\ ThreadOK(SERVER, t, self) /\ KeysOK
      /\ SERVER \in Party /\ CLIENT \in Party /\ SERVER # CLIENT
  BY Parties DEF IInv, KeyInv, BaseInv, Together, ThreadsOK
<1>3. Changed(SERVER, t, "hash", o, jobs, 1, self.snd)
  BY <1>1, <1>2, ServerRoundIs, BecomesChanged
<1>4. /\ th'[SERVER][t].st = "hash" /\ th'[SERVER][t].ot_id = o /\ th'[SERVER][t].jobs = jobs
      /\ \A q \in Party, u \in Threads : (q # SERVER \/ u # t) => th'[q][u] = th[q][u]
  BY <1>3, Zenon DEF Changed
<1>5. Point(t, o) /\ o \in Nat
  BY <1>1, <1>2 DEF ThreadOK, Point
<1>6. main[SERVER] \notin ServerBase /\ keySeeds = ServerKeys
  <2>1. main[SERVER] \notin ServerBase
    BY <1>1, <1>2, Awake
  <2> QED
    BY <1>2, <2>1 DEF KeysOK
<1>7. PICK a, b, v : a = o /\ b = SentAt(t, th[CLIENT][t]) /\ v = NextOtId(t, o)
  OBVIOUS
<1>8. TakenAt(t, th[SERVER][t]) = a /\ TakenAt(t, th'[SERVER][t]) = v
  BY <1>1, <1>4, <1>7 DEF TakenAt, Active
<1>9. a <= b /\ Len(f) = Bits(t, b) - Bits(t, a)
  BY <1>6, <1>7, <1>8, UnderwayParts DEF ThreadUnderway
<1>10. Point(t, a) /\ Point(t, b) /\ a \in Nat /\ b \in Nat
  <2>1. Point(t, b)
    BY <1>7, AtPoints
  <2> QED
    BY <1>5, <1>7, <2>1 DEF Point
<1>11. need \in Nat \ {0} /\ need = CodeWordBits * ProcessedOTs(t, o) /\ Bits(t, a) \in Nat
  <2>1. need = CodeWordBits * ProcessedOTs(t, o)
    BY DEF Awaited
  <2> HIDE DEF need, o
  <2> QED
    BY <1>1, <1>2, <1>5, <1>7, <2>1, BitsNext
<1>12. IsSeq(f) /\ Len(f) \in Nat
  BY <1>2, SeqFacts DEF Channels
<1>13. v <= b
  <2> HIDE DEF need, f
  <2>1. a = b => Len(f) = 0
    BY <1>9, <1>11
  <2>2. a # b
    BY <1>1, <1>11, <2>1
  <2>3. a < b
    BY <1>9, <1>10, <2>2
  <2> QED
    BY <1>2, <1>7, <1>10, <2>3, PointAbove
<1>14. IsSeq(rest)
  <2> HIDE DEF f, need
  <2>1. need <= Len(f)
    BY <1>1, <1>11, <1>12
  <2> QED
    BY <1>11, <1>12, <2>1, TakenOff
<1>15. \A q \in Party, u \in Threads : chan'[q][u] = IF q = SERVER /\ u = t THEN rest ELSE chan[q][u]
  <2> HIDE DEF rest
  <2> QED
    BY <1>1, <1>2, <1>14, ChannelPlaced
<1>16. th'[CLIENT][t] = th[CLIENT][t]
  BY <1>2, <1>4
<1>17. /\ DOMAIN raced' = Party
       /\ inst.threads = 1 => \A q \in Party : ~ raced'[q] /\ CopiesOwn(th'[q][0], hashBuf'[q])
  <2>1. \A q \in Party : th'[q][0].st = "copy" => th'[q][0] = th[q][0]
    <3>1. 0 \in Threads
      BY <1>2, Sizes
    <3> QED
      BY <1>4, <3>1
  <2> QED
    BY <1>1, <1>2, <2>1, StillAlone
<1>18. ASSUME Level <= 128
       PROVE  /\ GoodJobs(SERVER, th'[SERVER][t])
              /\ GoodSocket(t, th'[SERVER][t], th'[CLIENT][t], chan'[SERVER][t])
              /\ \A q \in Party : ~ raced'[q] => GoodMasks(q, out'[q])
  <2>1. /\ GoodSocket(t, th[SERVER][t], th[CLIENT][t], chan[SERVER][t])
        /\ \A q \in Party : ~ raced[q] => GoodMasks(q, out[q])
    BY <1>6, <1>18 DEF GInv, MasksGood
  <2>2. PICK s, r, c : s = th[SERVER][t] /\ r = th'[SERVER][t] /\ c = th[CLIENT][t]
    OBVIOUS
  <2>3. /\ a = TakenAt(t, s) /\ b = SentAt(t, c) /\ TakenAt(t, r) = NextOtId(t, a)
        /\ Point(t, a) /\ Point(t, b) /\ a < OtLim(t) /\ NextOtId(t, a) <= b
        /\ IsSeq(f) /\ Len(f) = Bits(t, b) - Bits(t, a) /\ GoodSocket(t, s, c, f)
        /\ need = CodeWordBits * ProcessedOTs(t, a)
    <3> HIDE DEF need, f, o
    <3>1. GoodSocket(t, s, c, f)
      BY <2>1, <2>2 DEF f
    <3> QED
      BY <1>1, <1>7, <1>8, <1>9, <1>10, <1>11, <1>12, <1>13, <2>2, <3>1
  <2>4. Holds(rcv, 1, t, a) /\ GoodSocket(t, r, c, rest)
    <3> HIDE DEF need, f
    <3> QED
      BY <1>2, <2>3, SocketShrinks, Zenon
  <2>5. GoodSocket(t, th'[SERVER][t], th'[CLIENT][t], chan'[SERVER][t])
    <3> HIDE DEF rest
    <3> QED
      BY <1>2, <1>15, <1>16, <2>2, <2>4
  <2> HIDE DEF rcv, o
  <2>6. /\ NextOtId(t, o) = o + OtLen(t, o) /\ o + OtLen(t, o) <= nOTs /\ OtLen(t, o) \in Nat
    BY <1>1, <1>2, <1>5, RoundSizes
  <2>7. ASSUME NEW n \in 1 .. Len(jobs)
        PROVE  n \in 1 .. StartingPos(SERVER)[o + OtLen(t, o)] - StartingPos(SERVER)[o]
    <3>1. JobsOK(SERVER, jobs, o, o + OtLen(t, o))
      BY <1>2, <1>5, <2>6, ServerJobsOK
    <3>2. DOMAIN jobs = 1 .. Len(jobs)
      BY <3>1, SeqFacts DEF JobsOK
    <3>3. DOMAIN jobs = 1 .. StartingPos(SERVER)[o + OtLen(t, o)] - StartingPos(SERVER)[o]
      BY DEF ServerJobs
    <3> QED
      BY <3>2, <3>3
  <2>8. GoodJobs(SERVER, th'[SERVER][t])
    <3> SUFFICES ASSUME NEW n \in 1 .. Len(jobs), jobs[n].cell # NoCell
                 PROVE  IsMask(SERVER, jobs[n].cell, Hashed(jobs[n]))
      <4> HIDE DEF jobs
      <4> QED
        BY <1>4 DEF GoodJobs
    <3>1. n \in 1 .. StartingPos(SERVER)[o + OtLen(t, o)] - StartingPos(SERVER)[o]
      BY <2>7
    <3>2. PICK job : job = jobs[n]
      OBVIOUS
    <3>3. job = ServerJobs(rcv, o, ProcessedOTs(t, o), OtLen(t, o))[n]
      BY <3>2
    <3>4. Holds(rcv, 1, t, o)
      BY <1>7, <2>4
    <3>5. IsMask(SERVER, job.cell, Hashed(job))
      BY <1>1, <1>2, <1>5, <1>6, <1>18, <3>1, <3>3, <3>4, ServerRows
    <3> QED
      BY <3>2, <3>5
  <2> QED
    BY <1>1, <2>1, <2>5, <2>8
<1>19. \A u \in Threads : u # t => chan'[SERVER][u] = chan[SERVER][u]
  BY <1>2, <1>15
<1>20. /\ inst' = inst /\ main' = main
       /\ \A q \in Party, u \in Threads : (q # SERVER \/ u # t) => th'[q][u] = th[q][u]
  BY <1>1, <1>4
<1> HIDE DEF self, o, need, f, rcv, jobs, rest
<1> QED
  BY <1>2, <1>17, <1>18, <1>19, <1>20, GoodThread

(* The end of a thread. *)
LEMMA EndThreadGood ==
  ASSUME IInv, GInv, NEW p \in Party, NEW t \in Threads, EndThread(p, t)
  PROVE  GInv'
<1> DEFINE s == th[p][t]
<1>1. /\ inst' = inst /\ main' = main /\ chan' = chan /\ s.st = "ready" /\ Asleep
      /\ out' = out /\ UNCHANGED <<raced, hashBuf>> /\ inst \in Instances
      /\ CLIENT \in Party /\ SERVER \in Party /\ CLIENT # SERVER
  BY Parties DEF EndThread, UnchangedMain, IInv, KeyInv, BaseInv, Together
<1>2. Changed(p, t, "ended", s.ot_id, s.jobs, s.pos, s.snd)
  BY <1>1, EndThreadIs, BecomesChanged
<1>3. /\ th'[p][t].st = "ended" /\ th'[p][t].ot_id = s.ot_id
      /\ \A q \in Party, u \in Threads : (q # p \/ u # t) => th'[q][u] = th[q][u]
  BY <1>2 DEF Changed
<1>4. GoodJobs(p, th'[p][t]) /\ GoodSnd(t, th'[p][t])
  BY <1>3 DEF GoodJobs, GoodSnd, Active
<1>5. /\ SentAt(t, th'[p][t]) = SentAt(t, th[p][t])
      /\ TakenAt(t, th'[p][t]) = TakenAt(t, th[p][t])
  BY <1>1, <1>3 DEF SentAt, TakenAt, Active
<1>6. /\ TakenAt(t, th'[SERVER][t]) = TakenAt(t, th[SERVER][t])
      /\ SentAt(t, th'[CLIENT][t]) = SentAt(t, th[CLIENT][t])
  <2>1. CASE p = SERVER
    BY <1>1, <1>3, <1>5, <2>1
  <2>2. CASE p # SERVER
    BY <1>1, <1>3, <1>5, <2>2, Parties
  <2> QED
    BY <2>1, <2>2
<1>7. /\ DOMAIN raced' = Party
      /\ inst.threads = 1 => \A q \in Party : ~ raced'[q] /\ CopiesOwn(th'[q][0], hashBuf'[q])
  <2>1. \A q \in Party : th'[q][0].st = "copy" => th'[q][0] = th[q][0]
    <3>1. 0 \in Threads
      BY <1>1, Sizes
    <3> QED
      BY <1>3, <3>1
  <2> QED
    BY <1>1, <2>1, StillAlone
<1>8. ASSUME Level <= 128
      PROVE  /\ main[SERVER] \notin ServerBase =>
                  GoodSocket(t, th'[SERVER][t], th'[CLIENT][t], chan'[SERVER][t])
             /\ \A q \in Party : ~ raced'[q] => GoodMasks(q, out'[q])
  <2>1. /\ main[SERVER] \notin ServerBase =>
             GoodSocket(t, th[SERVER][t], th[CLIENT][t], chan[SERVER][t])
        /\ \A q \in Party : ~ raced[q] => GoodMasks(q, out[q])
    BY <1>8 DEF GInv, MasksGood
  <2> QED
    BY <1>1, <1>6, <2>1, SocketStays
<1> HIDE DEF s
<1> QED
  BY <1>1, <1>3, <1>4, <1>7, <1>8, GoodThread

(* A step that leaves the threads and what is under way to them where they are. *)
LEMMA GoodStays ==
  ASSUME IInv, GInv, inst' = inst, th' = th, chan' = chan, out' = out, UNCHANGED <<raced, hashBuf>>,
         main'[SERVER] \in ServerBase <=> main[SERVER] \in ServerBase
  PROVE  GInv'
<1>1. inst \in Instances
  BY DEF IInv, KeyInv, BaseInv, Together
<1>2. /\ DOMAIN raced' = Party
      /\ inst.threads = 1 => \A q \in Party : ~ raced'[q] /\ CopiesOwn(th'[q][0], hashBuf'[q])
  BY <1>1, StillAlone
<1>3. ASSUME Level <= 128 PROVE MasksGood
  BY <1>3 DEF GInv
<1> QED
  BY <1>2, <1>3, GoodNext DEF MasksGood

(* The steps before the extension: no thread has begun. *)
LEMMA BaseGood ==
  ASSUME IInv, GInv, BaseStep
  PROVE  GInv'
<1>1. /\ Together /\ Asleep /\ inst \in Instances /\ CLIENT \in Party /\ SERVER \in Party
      /\ SERVER # CLIENT /\ th' = th /\ out' = out /\ UNCHANGED <<raced, hashBuf>>
  BY Parties DEF IInv, KeyInv, BaseInv, Together, BaseStep
<1>2. inst' = inst
  BY DEF BaseStep, BaseNext, SeedNext, SendSeed, ReceiveSeed, SendPoints, ReceiveKeys, AnswerPoints
<1>3. main[CLIENT] \in ClientBase
  <2>1. main[SERVER] \in ServerBase => main[CLIENT] \in ClientBase
    BY <1>1 DEF Together
  <2>2. \/ \E p \in Party : main[p] \in {"start", "seed"}
        \/ main[CLIENT] \in {"base", "keys"}
        \/ main[SERVER] = "base"
    BY DEF BaseStep, BaseNext, SeedNext, SendSeed, ReceiveSeed, SendPoints, ReceiveKeys, AnswerPoints
  <2> QED
    BY <2>1, <2>2, Parties DEF ClientBase, ServerBase
<1>4. ASSUME NEW t \in Threads PROVE SentAt(t, th[CLIENT][t]) = MyStartPos(t)
  <2>1. ~ Begun(CLIENT)
    BY <1>3 DEF Begun, ClientBase
  <2>2. th[CLIENT][t].st = "none"
    BY <1>1, <2>1 DEF Asleep
  <2> QED
    BY <2>2 DEF SentAt
<1>5. ASSUME NEW t \in Threads, NEW s, NEW f PROVE GoodSocket(t, s, th[CLIENT][t], f)
  <2>1. MyStartPos(t) \in Nat
    BY <1>1, Part
  <2>2. \A o \in Nat : Point(t, o) => ~ (o < SentAt(t, th[CLIENT][t]))
    BY <1>4, <2>1 DEF Point
  <2> QED
    BY <2>2, Zenon DEF GoodSocket
<1>6. /\ DOMAIN raced' = Party
      /\ inst.threads = 1 => \A q \in Party : ~ raced'[q] /\ CopiesOwn(th'[q][0], hashBuf'[q])
  BY <1>1, StillAlone
<1>7. ASSUME Level <= 128 PROVE MasksGood
  BY <1>7 DEF GInv
<1> QED
  BY <1>1, <1>2, <1>5, <1>6, <1>7, GoodNext DEF MasksGood

(* The loops over the threads. *)
LEMMA MainGood ==
  ASSUME IInv, GInv, NEW p \in Party, MainStep(p)
  PROVE  GInv'
<1>1. /\ inst \in Instances /\ main \in [Party -> States] /\ Asleep /\ MainOK /\ InRange
      /\ CLIENT \in Party /\ SERVER \in Party /\ CLIENT # SERVER
  BY Parties DEF IInv, KeyInv, BaseInv, Together
<1>2. /\ inst' = inst /\ chan' = chan /\ out' = out /\ UNCHANGED <<raced, hashBuf>>
      /\ main[p] \in {"create", "mark", "wait"} /\ main'[p] \in {"create", "mark", "wait", "done"}
      /\ \A q \in Party : q # p => main'[q] = main[q]
  BY <1>1 DEF MainStep, NoOTs, CreateThread, MarkRunning, WaitThread
<1>3. main'[SERVER] \in ServerBase <=> main[SERVER] \in ServerBase
  BY <1>2, Parties DEF ServerBase
<1>4. CASE CreateThread(p)
  <2> DEFINE t == idx[p]
             s == th[p][t]
  <2>1. t \in Threads
    <3>1. idx[p] \in Nat /\ idx[p] < inst.threads /\ inst.threads \in Nat
      BY <1>1, <1>2, Sizes DEF InRange
    <3> QED
      BY <3>1 DEF Threads
  <2>2. Changed(p, t, "ready", MyStartPos(t), s.jobs, s.pos, s.snd)
    BY <1>1, <1>2, <1>4, <2>1, CreateThreadIs, BecomesChanged
  <2>3. s.st = "none"
    <3>1. ~ Created(p, t)
      <4>1. t \in Nat /\ main[p] = "create"
        BY <1>1, <1>4 DEF InRange, CreateThread
      <4> QED
        BY <4>1 DEF Created
    <3> QED
      BY <1>1, <2>1, <3>1 DEF MainOK
  <2>4. /\ th'[p][t].st = "ready" /\ th'[p][t].ot_id = MyStartPos(t)
        /\ \A q \in Party, u \in Threads : (q # p \/ u # t) => th'[q][u] = th[q][u]
    BY <2>2 DEF Changed
  <2>5. /\ TakenAt(t, th'[p][t]) = TakenAt(t, th[p][t])
        /\ SentAt(t, th'[p][t]) = SentAt(t, th[p][t])
    BY <2>3, <2>4 DEF TakenAt, SentAt, Active
  <2>6. ~ Active(th'[p][t])
    BY <2>4 DEF Active
  <2> HIDE DEF s, t
  <2>7. /\ DOMAIN raced' = Party
        /\ inst.threads = 1 => \A q \in Party : ~ raced'[q] /\ CopiesOwn(th'[q][0], hashBuf'[q])
    <3>1. 0 \in Threads
      BY <1>1, Sizes
    <3>2. \A q \in Party : th'[q][0].st = "copy" => th'[q][0] = th[q][0]
      BY <2>4, <3>1
    <3> QED
      BY <1>1, <1>2, <3>2, StillAlone
  <2>8. ASSUME Level <= 128
        PROVE  /\ \A q \in Party, u \in Threads : GoodJobs(q, th'[q][u])
               /\ \A u \in Threads : GoodSnd(u, th'[CLIENT][u])
               /\ main'[SERVER] \notin ServerBase =>
                    \A u \in Threads : GoodSocket(u, th'[SERVER][u], th'[CLIENT][u], chan'[SERVER][u])
               /\ \A q \in Party : ~ raced'[q] => GoodMasks(q, out'[q])
    <3>1. MasksGood
      BY <2>8 DEF GInv
    <3>2. ASSUME NEW q \in Party, NEW u \in Threads PROVE GoodJobs(q, th'[q][u])
      <4>1. CASE q = p /\ u = t
        BY <2>6, <4>1 DEF GoodJobs
      <4>2. CASE q # p \/ u # t
        <5>1. th'[q][u] = th[q][u] /\ GoodJobs(q, th[q][u])
          BY <2>4, <3>1, <4>2 DEF MasksGood
        <5> QED
          BY <5>1
      <4> QED
        BY <4>1, <4>2
    <3>3. ASSUME NEW u \in Threads PROVE GoodSnd(u, th'[CLIENT][u])
      <4>1. CASE CLIENT = p /\ u = t
        BY <2>6, <4>1 DEF GoodSnd
      <4>2. CASE CLIENT # p \/ u # t
        <5>1. th'[CLIENT][u] = th[CLIENT][u] /\ GoodSnd(u, th[CLIENT][u])
          BY <1>1, <2>4, <3>1, <4>2 DEF MasksGood
        <5> QED
          BY <5>1
      <4> QED
        BY <4>1, <4>2
    <3>4. ASSUME NEW u \in Threads
          PROVE  /\ TakenAt(u, th'[SERVER][u]) = TakenAt(u, th[SERVER][u])
                 /\ SentAt(u, th'[CLIENT][u]) = SentAt(u, th[CLIENT][u])
      <4>1. TakenAt(u, th'[SERVER][u]) = TakenAt(u, th[SERVER][u])
        <5>1. CASE p = SERVER /\ u = t
          BY <2>5, <5>1
        <5>2. CASE ~ (p = SERVER /\ u = t)
          BY <1>1, <2>4, <5>2
        <5> QED
          BY <5>1, <5>2
      <4>2. SentAt(u, th'[CLIENT][u]) = SentAt(u, th[CLIENT][u])
        <5>1. CASE p = CLIENT /\ u = t
          BY <2>5, <5>1
        <5>2. CASE ~ (p = CLIENT /\ u = t)
          BY <1>1, <2>4, <5>2
        <5> QED
          BY <5>1, <5>2
      <4> QED
        BY <4>1, <4>2
    <3>5. ASSUME main'[SERVER] \notin ServerBase, NEW u \in Threads
          PROVE  GoodSocket(u, th'[SERVER][u], th'[CLIENT][u], chan'[SERVER][u])
      <4>1. GoodSocket(u, th[SERVER][u], th[CLIENT][u], chan[SERVER][u])
        BY <1>3, <3>1, <3>5 DEF MasksGood
      <4> QED
        BY <1>2, <3>4, <4>1, SocketStays
    <3>6. \A q \in Party : ~ raced'[q] => GoodMasks(q, out'[q])
      BY <1>2, <3>1 DEF MasksGood
    <3> QED
      BY <3>2, <3>3, <3>5, <3>6
  <2> QED
    BY <1>2, <2>7, <2>8, GoodNext
<1>5. CASE ~ CreateThread(p)
  <2>1. th' = th
    BY <1>5 DEF MainStep, NoOTs, MarkRunning, WaitThread
  <2> QED
    BY <1>2, <1>3, <2>1, GoodStays
<1> QED
  BY <1>4, <1>5

(* Every step keeps the masks what they should be. *)
LEMMA GoodStep == IInv /\ Underway /\ GInv /\ [Next]_vars => GInv'
<1> SUFFICES ASSUME IInv, Underway, GInv, [Next]_vars PROVE GInv'
  OBVIOUS
<1>1. ASSUME NEW p \in Party, NEW t \in Threads, ThreadStep(p, t) PROVE GInv'
  <2>1. CASE p = CLIENT /\ ClientRound(t)
    BY <2>1, ClientRoundGood
  <2>2. CASE p = SERVER /\ ServerRound(t)
    BY <2>2, ServerRoundGood
  <2>3. CASE HashInto(p, t)
    BY <2>3, HashIntoGood
  <2>4. CASE CopyOut(p, t)
    BY <2>4, CopyOutGood
  <2>5. CASE EndRound(p, t)
    BY <2>5, EndRoundGood
  <2>6. CASE EndThread(p, t)
    BY <2>6, EndThreadGood
  <2> QED
    BY <1>1, <2>1, <2>2, <2>3, <2>4, <2>5, <2>6 DEF ThreadStep
<1>2. CASE UNCHANGED vars
  BY <1>2, GoodStays DEF vars, baseVars
<1> QED
  BY <1>1, <1>2, BaseGood, MainGood DEF Next

(* At the start there is nothing to be wrong. *)
LEMMA InitGood == Init => GInv
<1> SUFFICES ASSUME Init PROVE GInv
  OBVIOUS
<1>1. /\ inst \in Instances /\ main = [p \in Party |-> "start"]
      /\ th = [p \in Party |-> [t \in Threads |-> Idle]]
      /\ out = [p \in Party |-> [e \in 0 .. NMasks(p) - 1 |-> <<>>]]
      /\ raced = [p \in Party |-> FALSE]
  BY Zenon DEF Init, BaseInit, SeedInit, Threads
<1>2. /\ CLIENT \in Party /\ SERVER \in Party /\ 0 \in Threads /\ main[SERVER] = "start"
  BY <1>1, Parties, Sizes
<1>3. \A p \in Party, t \in Threads : th[p][t] = Idle
  BY <1>1
<1>4. Idle.st = "none"
  BY DEF Idle
<1>5. Alone /\ DOMAIN raced = Party
  BY <1>1, <1>2, <1>3, <1>4 DEF Alone, CopiesOwn
<1>6. \A p \in Party : \A e \in 0 .. NMasks(p) - 1 : out[p][e] = <<>>
  BY <1>1
<1>7. MasksGood
  BY <1>2, <1>3, <1>4, <1>6 DEF MasksGood, GoodJobs, GoodSnd, GoodMasks, Active, ServerBase
<1> QED
  BY <1>5, <1>7 DEF GInv

(* The masks decide: with keys of at most AES_BYTES bytes, and with one thread or without
   a digest copied after another thread had hashed, the mask of the server for a value and
   the mask of the client for its element of a bin are the same exactly when the value is
   in that bin and the code words of the two agree where the server's choice bits are set.
   The thread that hashes a mask, the round it falls in and the socket its matrix came
   over make no difference. *)
THEOREM MasksDecideMembership == Spec => []MasksAgree
<1>1. Spec => []IInv
  BY Invariant
<1>2. Spec => []Underway
  <2>1. IInv /\ Underway /\ [Next]_vars => Underway'
    BY UnderwayStep
  <2>2. Init => Underway
    BY InitUnderway
  <2> QED
    BY <1>1, <2>1, <2>2, PTL DEF Spec
<1>3. Spec => []GInv
  <2>1. IInv /\ Underway /\ GInv /\ [Next]_vars => GInv'
    BY GoodStep
  <2>2. Init => GInv
    BY InitGood
  <2> QED
    BY <1>1, <1>2, <2>1, <2>2, PTL DEF Spec
<1>4. Spec => []AllJoined
  BY ReturnsJoined
<1>5. IInv /\ GInv /\ AllJoined => MasksAgree
  BY GoodAgree
<1> QED
  BY <1>1, <1>3, <1>4, <1>5, PTL

================================================================================
