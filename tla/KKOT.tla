---------------------------------- MODULE KKOT ----------------------------------
(***************************************************************************)
(* The OT extension as the OT-based protocol uses it                       *)
(* (src/util/ot/kk-ot-extension.cpp): after the common seed and the base   *)
(* OTs the CLIENT runs KKOTExtRcv::receive and the SERVER KKOTExtSnd::send,*)
(* each in threads that go through their part of the OTs in rounds of at   *)
(* most NUMOTBLOCKS blocks, thread t of the one over socket t to thread t  *)
(* of the other.  There is one OT for each bin; the client evaluates it at *)
(* the value in its bin, the server at every value in its own.             *)
(*                                                                         *)
(* A bit of a matrix is the set of the unknown bits that are xored into    *)
(* it: bits of the AES streams, and One for a code bit that is set.  A     *)
(* mask is the row it is hashed from and the number that is hashed along.  *)
(***************************************************************************)
EXTENDS NaorPinkas, BitMatrix

CONSTANTS
  AesBits,          \* AES_BITS, which is also REGISTER_BITS of typedefs.h
  Code,             \* what Encode returns for a value: the positions that are set
  Wrap              \* 2 to the width of the numbers of OTs

(* An instance also has the sizes, and for each party a table and the number of its
   values that each bin has.  The client's table has one value per bin, a dummy one for
   an empty bin; the server's are one behind the other.  The code words' length is a power
   of two (512 in the code), else their matrices could not be transposed in place. *)
ASSUME TablesOK ==
  /\ AesBits \in Nat \ {0} /\ Wrap \in Nat
  /\ \E k \in 1 .. 30 : CodeWordBits = Power(k)
  /\ CodeWordBits % RegBits = 0 /\ CodeWordBits % AesBits = 0
  /\ \A i \in Instances :
       /\ i.nOTs \in Nat /\ i.threads \in Nat \ {0} /\ i.numOTBlocks \in Nat \ {0}
       /\ i.count \in [Party -> [0 .. i.nOTs - 1 -> Nat]]
       /\ \A b \in 0 .. i.nOTs - 1 : i.count[CLIENT][b] \in {0, 1}
       /\ (i.threads + 1) * (i.nOTs + AesBits) < Wrap
  /\ \A v \in DOMAIN Code : Code[v] \subseteq 0 .. CodeWordBits - 1

VARIABLES
  idx,        \* idx[p]: loop variable i of p's main thread
  th,         \* th[p][t]: thread t of p
  running,    \* running[p][t]: m_bRunning of thread t of p
  hashBuf,    \* hashBuf[p]: sha_hash_buf of p's crypto object
  out,        \* out[p]: p's masks
  raced       \* raced[p]: a mask was copied after another thread had hashed

baseVars == <<inst, main, chan, prfKey, keySeeds, keySeedMtx>>

vars == <<baseVars, idx, th, running, hashBuf, out, raced>>

nOTs == inst.nOTs

Threads == 0 .. inst.threads - 1

Idle == [st |-> "none", ot_id |-> 0, jobs |-> <<>>, pos |-> 0, snd |-> <<>>]

(* m_vStartingPosForBin, with the total behind it. *)
StartingPos(p) ==
  LET f[i \in 0 .. nOTs] == IF i = 0 THEN 0 ELSE f[i - 1] + inst.count[p][i - 1] IN f

NMasks(p) == StartingPos(p)[nOTs]

Init ==
  /\ BaseInit
  /\ idx = [p \in Party |-> 0]
  /\ th = [p \in Party |-> [t \in Threads |-> Idle]]
  /\ running = [p \in Party |-> [t \in Threads |-> FALSE]]
  /\ hashBuf = [p \in Party |-> <<>>]
  /\ out = [p \in Party |-> [e \in 0 .. NMasks(p) - 1 |-> <<>>]]
  /\ raced = [p \in Party |-> FALSE]

(***************************************************************************)
(* The part of a thread.                                                   *)
(***************************************************************************)

PadToMultiple(x, y) == CeilDivide(x, y) * y

(* numOTs that send and receive give to each thread. *)
MyNumOTs == CeilDivide(PadToMultiple(nOTs, AesBits), inst.threads)

MyStartPos(t) == t * MyNumOTs

(* The same after it is cut off: an unsigned difference, which wraps for a thread that
   starts behind the last OT. *)
CutNumOTs(t) == (Lesser(MyNumOTs + MyStartPos(t), nOTs) - MyStartPos(t)) % Wrap

OtLim(t) == (MyStartPos(t) + CutNumOTs(t)) % Wrap

(* Buffers for whole blocks only. *)
BufferBlocksFloor(p, t) ==
  Lesser(inst.numOTBlocks,
         (IF p = CLIENT THEN CutNumOTs(t) ELSE MyNumOTs) \div CodeWordBits)

(* The blocks that the buffers are made for: the client's after the cut, the server's
   before it. *)
BufferBlocks(p, t) ==
  Lesser(inst.numOTBlocks,
         CeilDivide(IF p = CLIENT THEN CutNumOTs(t) ELSE MyNumOTs, CodeWordBits))

(* processed_ot_blocks of the round that starts at ot_id, and its OTs: all columns of
   its matrix, and those that are wanted. *)
Blocks(t, ot_id) == Lesser(inst.numOTBlocks, CeilDivide(OtLim(t) - ot_id, CodeWordBits))

ProcessedOTs(t, ot_id) == Blocks(t, ot_id) * CodeWordBits

OtLen(t, ot_id) == Lesser(OtLim(t) - ot_id, ProcessedOTs(t, ot_id))

(***************************************************************************)
(* The matrices.                                                           *)
(***************************************************************************)

One == <<>>

(* Bit c of the AES stream that starts at the counter ot_ctr. *)
Prg(key, ot_ctr, c) == {key \o <<ot_ctr + (c \div AesBits), c % AesBits>>}

Encode(v, k) == IF k \in Code[v] THEN {One} ELSE {}

(* BuildMatrices: T, one row for each base OT, from the first of its keys. *)
MatrixT(ot_ctr, columns) ==
  [b \in 0 .. CodeWordBits * columns - 1 |->
     Prg(keySeedMtx[2 * (b \div columns)], ot_ctr, b % columns)]

(* GenerateChoiceCodes for one block: the code words of its OTs as columns. *)
ChoiceCodes(ot_id, left) ==
  EklundhBitTranspose(
    [b \in 0 .. CodeWordBits * CodeWordBits - 1 |->
       IF b \div CodeWordBits < left
       THEN Encode(inst.table[CLIENT][ot_id + (b \div CodeWordBits)], b % CodeWordBits)
       ELSE {}],
    CodeWordBits, CodeWordBits)

(* What the client sends: the second streams, T, and the code words. *)
MatrixSnd(ot_id, columns, ot_len) ==
  LET ncolumns == CeilDivide(ot_len, CodeWordBits) * CodeWordBits
      codes == [d \in 0 .. CeilDivide(ot_len, CodeWordBits) - 1 |->
                  ChoiceCodes(ot_id + d * CodeWordBits, ot_len - d * CodeWordBits)]
      k(b) == b \div ncolumns
      c(b) == b % ncolumns
  IN [b \in 0 .. CodeWordBits * columns - 1 |->
        Xor(Xor(Prg(keySeedMtx[2 * (b \div columns) + 1], ot_id, b % columns),
                Prg(keySeedMtx[2 * (b \div columns)], ot_id, b % columns)),
            codes[c(b) \div CodeWordBits][k(b) * CodeWordBits + (c(b) % CodeWordBits)])]

(* BuildMatrix: the server's rows, from the keys it has and what it received. *)
MatrixQ(rcv, ot_ctr, columns) ==
  [b \in 0 .. CodeWordBits * columns - 1 |->
     LET k == b \div columns
     IN Xor(Prg(keySeeds[k], ot_ctr, b % columns), IF k \in inst.U THEN rcv[b + 1] ELSE {})]

Row(m, j) == [k \in 0 .. CodeWordBits - 1 |-> m[j * CodeWordBits + k]]

(* The hash calls of a round, in order: where the mask goes and what is hashed.  The
   client's mask of an empty bin goes to a dummy buffer, NoCell. *)
NoCell == -1

(* The number of the bin instead of the number of the mask. *)
ClientCellOfBin(i) == IF inst.count[CLIENT][i] > 0 THEN i ELSE NoCell

ClientCell(i) == IF inst.count[CLIENT][i] > 0 THEN StartingPos(CLIENT)[i] ELSE NoCell

ClientJobs(ot_id, columns, ot_len) ==
  LET T == EklundhBitTranspose(MatrixT(ot_id, columns), CodeWordBits, columns)
  IN [n \in 1 .. ot_len |->
        [cell |-> ClientCell(ot_id + n - 1), row |-> Row(T, n - 1), ctr |-> ot_id + n - 1]]

(* The value number e of the server is in this bin. *)
BinOf(e) == CHOOSE i \in 0 .. nOTs - 1 :
              StartingPos(SERVER)[i] <= e /\ e < StartingPos(SERVER)[i + 1]

(* The row without the code word of the value. *)
ServerRowPlain(Q, j, e) == Row(Q, j)

ServerRow(Q, j, e) ==
  [k \in 0 .. CodeWordBits - 1 |->
     Xor(Q[j * CodeWordBits + k],
         IF k \in inst.U THEN Encode(inst.table[SERVER][e], k) ELSE {})]

ServerJobs(rcv, ot_id, columns, ot_len) ==
  LET Q == EklundhBitTranspose(MatrixQ(rcv, ot_id, columns), CodeWordBits, columns)
      first == StartingPos(SERVER)[ot_id]
  IN [n \in 1 .. StartingPos(SERVER)[ot_id + ot_len] - first |->
        LET i == BinOf(first + n - 1)
        IN [cell |-> first + n - 1, row |-> ServerRow(Q, i - ot_id, first + n - 1), ctr |-> i]]

(***************************************************************************)
(* The main threads: send and receive.                                     *)
(***************************************************************************)

(* An extension of no OT returns at once. *)
NoOTs(p) ==
  /\ main[p] = "create" /\ nOTs = 0
  /\ main' = [main EXCEPT ![p] = "done"]
  /\ UNCHANGED <<inst, chan, prfKey, keySeeds, keySeedMtx, idx, th, running, hashBuf, out, raced>>

(* CThread::Start, whose assignment to m_bRunning comes after the thread exists. *)
CreateThread(p) ==
  /\ main[p] = "create" /\ nOTs > 0
  /\ th' = [th EXCEPT ![p][idx[p]].st = "ready", ![p][idx[p]].ot_id = MyStartPos(idx[p])]
  /\ main' = [main EXCEPT ![p] = "mark"]
  /\ UNCHANGED <<inst, chan, prfKey, keySeeds, keySeedMtx, idx, running, hashBuf, out, raced>>

MarkRunning(p) ==
  /\ main[p] = "mark"
  /\ running' = [running EXCEPT ![p][idx[p]] = TRUE]
  /\ IF idx[p] + 1 < inst.threads
     THEN idx' = [idx EXCEPT ![p] = @ + 1] /\ main' = [main EXCEPT ![p] = "create"]
     ELSE idx' = [idx EXCEPT ![p] = 0] /\ main' = [main EXCEPT ![p] = "wait"]
  /\ UNCHANGED <<inst, chan, prfKey, keySeeds, keySeedMtx, th, hashBuf, out, raced>>

(* A Wait that does not join. *)
MayReturnUnjoined(p, t) == TRUE

(* CThread::Wait returns at once when m_bRunning is false, else pthread_join does when
   the thread has ended. *)
MayReturn(p, t) == ~ running[p][t] \/ th[p][t].st = "ended"

WaitThread(p) ==
  /\ main[p] = "wait"
  /\ MayReturn(p, idx[p])
  /\ idx' = [idx EXCEPT ![p] = @ + 1]
  /\ main' = [main EXCEPT ![p] = IF idx[p] + 1 < inst.threads THEN "wait" ELSE "done"]
  /\ UNCHANGED <<inst, chan, prfKey, keySeeds, keySeedMtx, th, running, hashBuf, out, raced>>

(***************************************************************************)
(* The worker threads: OTReceiverRoutine and OTSenderRoutine.              *)
(***************************************************************************)

UnchangedMain == UNCHANGED <<inst, main, prfKey, keySeeds, keySeedMtx, idx>>

(* The client builds its matrices. *)
ClientRound(t) ==
  LET self == th[CLIENT][t]
      columns == ProcessedOTs(t, self.ot_id)
      ot_len == OtLen(t, self.ot_id)
  IN /\ self.st = "ready" /\ self.ot_id < OtLim(t)
     /\ th' = [th EXCEPT ![CLIENT][t] =
                 [self EXCEPT !.st = "hash", !.pos = 1,
                              !.jobs = ClientJobs(self.ot_id, columns, ot_len),
                              !.snd = MatrixSnd(self.ot_id, columns, ot_len)]]
     /\ UnchangedMain /\ UNCHANGED <<chan, running, hashBuf, out, raced>>

(* A server that waits for as much as a full round has. *)
AwaitedFull(t, ot_id) == CodeWordBits * inst.numOTBlocks * CodeWordBits

Awaited(t, ot_id) == CodeWordBits * ProcessedOTs(t, ot_id)

(* The server waits for the matrix of the round and builds its own. *)
ServerRound(t) ==
  LET self == th[SERVER][t]
      columns == ProcessedOTs(t, self.ot_id)
      n == Awaited(t, self.ot_id)
  IN /\ self.st = "ready" /\ self.ot_id < OtLim(t)
     /\ Len(chan[SERVER][t]) >= n
     /\ th' = [th EXCEPT ![SERVER][t] =
                 [self EXCEPT !.st = "hash", !.pos = 1,
                              !.jobs = ServerJobs(SubSeq(chan[SERVER][t], 1, n), self.ot_id,
                                                  columns, OtLen(t, self.ot_id))]]
     /\ chan' = [chan EXCEPT ![SERVER][t] = SubSeq(@, n + 1, Len(@))]
     /\ UnchangedMain /\ UNCHANGED <<running, hashBuf, out, raced>>

Hashed(job) == <<job.row, job.ctr>>

(* hash_ctr: the digest is written to the buffer of the crypto object ... *)
HashInto(p, t) ==
  LET self == th[p][t]
  IN /\ self.st = "hash" /\ self.pos <= Len(self.jobs)
     /\ hashBuf' = [hashBuf EXCEPT ![p] = Hashed(self.jobs[self.pos])]
     /\ th' = [th EXCEPT ![p][t].st = "copy"]
     /\ UnchangedMain /\ UNCHANGED <<chan, running, out, raced>>

(* ... and copied to its place. *)
CopyOut(p, t) ==
  LET self == th[p][t]
      job == self.jobs[self.pos]
  IN /\ self.st = "copy"
     /\ out' = [out EXCEPT ![p] =
                  IF job.cell = NoCell THEN @ ELSE [@ EXCEPT ![job.cell] = hashBuf[p]]]
     /\ raced' = [raced EXCEPT ![p] = @ \/ hashBuf[p] # Hashed(job)]
     /\ th' = [th EXCEPT ![p][t].st = "hash", ![p][t].pos = @ + 1]
     /\ UnchangedMain /\ UNCHANGED <<chan, running, hashBuf>>

NextOtId(t, ot_id) == ot_id + OtLen(t, ot_id)

(* The end of a round; the client sends its matrix only then. *)
EndRound(p, t) ==
  LET self == th[p][t]
  IN /\ self.st = "hash" /\ self.pos > Len(self.jobs)
     /\ th' = [th EXCEPT ![p][t] = [Idle EXCEPT !.st = "ready",
                                                !.ot_id = NextOtId(t, self.ot_id)]]
     /\ chan' = IF p = CLIENT
                THEN [chan EXCEPT ![SERVER][t] =
                        @ \o [n \in 1 .. Cardinality(DOMAIN self.snd) |-> self.snd[n - 1]]]
                ELSE chan
     /\ UnchangedMain /\ UNCHANGED <<running, hashBuf, out, raced>>

(* ThreadMainHandler after ThreadMain. *)
EndThread(p, t) ==
  /\ th[p][t].st = "ready" /\ th[p][t].ot_id >= OtLim(t)
  /\ th' = [th EXCEPT ![p][t].st = "ended"]
  /\ running' = [running EXCEPT ![p][t] = FALSE]
  /\ UnchangedMain /\ UNCHANGED <<chan, hashBuf, out, raced>>

MainStep(p) == NoOTs(p) \/ CreateThread(p) \/ MarkRunning(p) \/ WaitThread(p)

ThreadStep(p, t) ==
  \/ p = CLIENT /\ ClientRound(t)
  \/ p = SERVER /\ ServerRound(t)
  \/ HashInto(p, t)
  \/ CopyOut(p, t)
  \/ EndRound(p, t)
  \/ EndThread(p, t)

BaseStep == BaseNext /\ UNCHANGED <<idx, th, running, hashBuf, out, raced>>

(* Both calls have returned. *)
Returned == \A p \in Party : main[p] = "done"

Next ==
  \/ BaseStep
  \/ \E p \in Party : MainStep(p)
  \/ \E p \in Party : \E t \in Threads : ThreadStep(p, t)
  \/ Returned /\ UNCHANGED vars

Spec == Init /\ [][Next]_vars

(* Some runnable thread runs.  Nothing more is needed, since no thread can go on for
   ever by itself. *)
FairSpec == Spec /\ WF_vars(Next)

(***************************************************************************)
(* Properties.                                                             *)
(***************************************************************************)

(* The types; a mask is written to a place of its party's array (HashValues). *)
TypeOK ==
  /\ inst \in Instances
  /\ main \in [Party -> {"start", "seed", "base", "keys", "create", "mark", "wait", "done"}]
  /\ \A p \in Party :
       /\ idx[p] \in 0 .. inst.threads
       /\ DOMAIN out[p] = 0 .. NMasks(p) - 1
       /\ \A t \in Threads :
            /\ th[p][t].st \in {"none", "ready", "hash", "copy", "ended"}
            /\ \A n \in DOMAIN th[p][t].jobs :
                 th[p][t].jobs[n].cell \in (0 .. NMasks(p) - 1) \cup {NoCell}

(* The mask of the client's bin i and the e-th of the server are the same iff e is in
   bin i and the code words of the two values agree where the server's choices are set,
   as the code words of equal values do. *)
SameMasksFor(i, e) ==
  (out[CLIENT][StartingPos(CLIENT)[i]] = out[SERVER][e]) <=>
     /\ BinOf(e) = i
     /\ Code[inst.table[CLIENT][i]] \cap inst.U = Code[inst.table[SERVER][e]] \cap inst.U

MasksDecide ==
  \A e \in 0 .. NMasks(SERVER) - 1, i \in 0 .. nOTs - 1 :
    inst.count[CLIENT][i] > 0 => SameMasksFor(i, e)

(* When both calls have returned their masks decide which values are common, for keys of
   AES_BYTES bytes, unless a thread copied a digest that another one had replaced
   (sha_hash_buf is one per crypto object); with one thread that does not happen. *)
MasksAgree ==
  (Returned /\ Level <= 128 /\ (inst.threads = 1 \/ \A p \in Party : ~ raced[p])) => MasksDecide

(* The same for every number of threads, as the parameter numThreads of send and receive
   promises. *)
MasksAgreeInThreads == (Returned /\ Level <= 128) => MasksDecide

(* What the rounds of thread t from ot_id a up to ot_id b send. *)
Sent(t, a, b) ==
  LET f[o \in 0 .. Wrap] ==
        IF o >= b THEN 0
        ELSE CodeWordBits * ProcessedOTs(t, o) + f[o + OtLen(t, o)]
  IN f[a]

(* What is on the way to a thread of the server is exactly what its rounds up to the
   client's will ask for, and every round fits into the buffers that were made before the
   first one: the two threads cut their part into the same rounds though they compute
   their limits and buffers differently. *)
NothingLeftOver ==
  \A t \in Threads :
    /\ \A p \in Party :
         th[p][t].st = "hash" => Blocks(t, th[p][t].ot_id) <= BufferBlocks(p, t)
    /\ LET c == th[CLIENT][t]
           s == th[SERVER][t]
       IN (main[SERVER] \notin {"start", "seed", "base"} /\ c.st # "none") =>
            Len(chan[SERVER][t]) =
              Sent(t, IF s.st = "none" THEN MyStartPos(t)
                      ELSE IF s.st \in {"hash", "copy"} THEN NextOtId(t, s.ot_id) ELSE s.ot_id,
                   c.ot_id)

(* send and receive return when all threads have ended, though m_bRunning is written by
   both threads without a lock (thread.h:122, 151), and every mask is written then. *)
AllJoined ==
  \A p \in Party : main[p] = "done" =>
    /\ \A t \in Threads : nOTs > 0 => th[p][t].st = "ended"
    /\ \A e \in DOMAIN out[p] : out[p][e] # <<>>

(* Both calls return. *)
Terminates == <>Returned
================================================================================
