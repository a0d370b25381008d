# A TLA+ development of OPEN-PSI

OPEN-PSI computes the intersection of two sets that belong to two processes,
SERVER (role 0) and CLIENT (role 1), connected by TCP. `psi.exe` and `demo.exe`
choose one of four protocols: naive hashing, server-aided, Diffie-Hellman, and the
one based on oblivious transfer (OT). A separate program, `cpet_psi`, finds points
that are near each other, with homomorphic encryption.

This directory holds TLA+ modules translated from `src/src`, configurations that
check them with TLC, and proofs that TLAPS checks. `PROJECT.json` lists for each
definition the source lines it stands for. Lines below are those of the commit in
`src/`. The build that is modelled is the default one: assertions are compiled in,
`USE_LUBY_RACKOFF` is defined, and `ENABLE_STASH`, `DOUBLE_TABLE`, `TEST_UTILIZATION`
and `VERIFY_OT` are not.

## 1. Inventory

| Component | State | Operations | Interacts with | What is hard | What makes it correct |
|---|---|---|---|---|---|
| Cuckoo hashing (`hashing/cuckoo.cpp`) | entries of all elements, table of pointers, `hash_table`, `nelesinbin`, `perm` | generate entries in threads; insert with evictions; scan | called by the OT protocol's client; addresses from hashElement | chunks of threads; long eviction walks, cut off after `neles` rounds; an entry dropped | each entry in at most one bin, one of its own; what is lost is reported; `perm` numbers the masks |
| Simple hashing (`hashing/simple_hashing.cpp`) | per thread a table of bins with a common size | insert three values per element, double the bins, merge | called by the OT protocol's server | values are written before the test for a full bin; merge of tables without separators | no write outside of the memory; the counts cut the result into its bins; every element is in its bins |
| Hash addressing (`hashing/hashing_util.h`) | `hs_t`: lengths and tables of random words | init_hashing_state, hashElement, domain_hashing | both hash tables | roundings of logarithms, bytes behind the element, masks of bits | a function of the element; different elements do not share bin and value |
| Task partition (`util/typedefs.h` and its uses) | none | `ceil_divide`, logarithms, chunk borders | everything with threads | more threads than elements, rounding | chunks are disjoint and cover the set |
| Parallel tasks (`util/helpers.h`, run_task) | slices, permutation, input and output arrays | psi_hashing_function, sym_encrypt, asym_encrypt | naive, server-aided and Diffie-Hellman protocol | threads in one array without a lock, in place | each element is processed once and stored in its place |
| Exchange and intersection helpers (`util/helpers.h`) | masks, match array | exchange_information, snd_and_rcv, find_intersection, create_result | the same protocols | both parties send at once over bounded buffers; the lookup key is one aliased variable | agreement on parameters; no deadlock; exact result |
| Naive protocol (`naive-hashing/naive-psi.cpp`) | hashes of both | naivepsi | helpers | as above | both get the intersection |
| Diffie-Hellman protocol (`pk-based/dh-psi.cpp`) | masks with one exponent or both | dhpsi | helpers, public-key arithmetic | order of the masks that come back | the client gets the intersection or its size |
| OT-based protocol (`ot-based/ot-psi.cpp`) | tables, masks, received masks, matches | otpsi, otpsi_client, otpsi_server, oprg_*, send_masks, receive_masks, otpsi_find_intersection | both hash tables, OT extension | two tables that must address alike; masks numbered three ways; collisions | the client gets the intersection without what its table lost |
| KK OT extension (`util/ot/kk-ot-extension.cpp`) | keys of the base OTs, matrices per thread and round, masks | send, receive and their routines | base OT, sockets, codes, bit matrices, the crypto object's hash buffer | lockstep of threads over separate sockets; an unsigned difference that may wrap (79, 364); digests through one buffer | both sides cut their part into the same rounds; masks are equal exactly for equal values in one bin |
| Naor-Pinkas base OT (`util/ot/naor-pinkas.cpp`) | points, hashes, AES keys | Sender, Receiver, InitAESKey | OT extension | keys cut out of one stream of hash bytes, on one side one per OT, on the other two | the receiver has the chosen keys |
| Server-aided protocol (`server-aided/sapsi.cpp`) | the clients' sets of masks, the table of common ones | server_routine, compute_intersection, client_routine | helpers, crypto, connections | clients that are missing, gone or twice there; results that nobody looks at; parameters in the place of others (bench_psi.cpp:82) | every answered client gets the intersection |
| Sockets and connections (`util/socket.h`, `util/connection.cpp`) | socket lists | connect, listen, Send, Receive | all protocols | connections numbered by arrival (54); `connect` gives up, `listen` fails, `Receive` returns 0 when the partner is gone (236), and nobody looks | sockets are in the order of arrival, none twice, none lost |
| Threads (`util/thread.h`) | `m_bRunning` of a thread | Start, Wait, the end of ThreadMain | OT extension | `m_bRunning` is written by two threads without a lock (122, 151) | Wait returns after the end of the thread |
| Crypto (`util/crypto/crypto.cpp`) | keys, seed, one hash buffer | hash, encrypt, gen_rnd_perm, gen_common_seed | all protocols | the hash buffer is shared by threads (262, 268) | both parties have one seed; a permutation is one |
| Bit vectors (`util/cbitvector.cpp`) | bytes | EklundhBitTranspose; copy and set bits at offsets | OT extension | transposition in registers whose lanes are not in the order of bits, wide matrices; bits that end up in two bytes | equals the plain transposition, the plain copy |
| Command line (`util/parse_options.cpp`) | index into argv, the options seen | parse_options | main programs | an unknown option is looked at for ever (28), a value is read behind the last argument (40) | well-formed command lines are read as written; ends |
| Main programs (`mains/`) | parameters, files | bench_psi, psi_demo, test_psi | all | parameters that differ between the processes | - |
| Fuzzy PSI (`cpet_psi/`) | range and value, a trie of prefixes | distribute, genRepStringA, genRepStringB, matching | SEAL library | centered modulus; a trie that merges and deletes while it is filled and read | the vectors match iff they are closer than the threshold |
| Public-key arithmetic, block cipher, codes | numbers | wrappers, generated tables | - | - | not control logic |

## 2. Plan

The order is by what the result of the program rests on.

| Step | Modules | Status |
|---|---|---|
| 1 | `TaskPartition`, `CuckooHashing` and the abstract `LossyStore` it implements | done, proved |
| 2 | `SimpleHashing`, `RunTask` | done, proved |
| 3 | `ComparePSI`: naive and Diffie-Hellman protocol of two processes | done, proved |
| 4 | `HashAddress`, and `OTPSI`, which composes it with `CuckooHashing` and `SimpleHashing` | done, proved |
| 5 | `CommonSeed`, `NaorPinkas`, `BitMatrix` and `KKOT`, which extends them: the OT extension from the seed to the masks; `BitVector` | done, proved |
| 6 | `ParseOptions`, `Connection` and `ServerAided`, which composes them: processes from their command lines to their results | done, proved |
| 7 | `FuzzyPSI`: trie, string representations and match | done, checked |
| 8 | Proofs about the modules of steps 2 to 7 | steps 2 to 6 done |

In the column "proved" means every safety property that the runs check, for all values of
the constants; section 5 has the arguments. Theorems still worth proving: `TypeOK` and
`RepresentsRange` of `FuzzyPSI`, which have the centered numbers and the shape of the trie.

## 3. The modules

### TaskPartition

Operators: `CeilDivide`, `Power`, `ceil_log2`, `floor_log2`, and the borders of the chunk
that thread t of k gets of n elements, computed by product (both hash tables) and by
adding up (run_task). They are used by everything below.

### CuckooHashing, LossyStore

`cuckoo_hashing`. The variables have the names of the code's: `entry` is the array
`cuckoo_entries`, `table` the array of pointers `cuckoo_table`, an index standing for
a pointer. `fed`, `evicted` and `iter` are the loop variable of the insertion loop and
the local variables of `insert_element`.

| Action | Code |
|---|---|
| `GenCuckooEntry(t)` | one round of the loop in thread t (`gen_cuckoo_entries`) |
| `JoinTasks` | pthread_join |
| `BeginInsert`, `Place`, `Evict`, `GiveUp` | one call of `insert_element`: the start, a round that finds an empty bin, one that takes a victim's bin, the end of the loop with its message |
| `BeginScan`, `ScanBin`, `Return` | the copy into `hash_table`, `nelesinbin`, `perm` |

`hash` is chosen in `Init`: what hashElement returns is arbitrary here. The value of
an element is its index. `LossyStore` says what the table promises to its
caller: at every moment the elements it keeps fit into bins of their own, an
insertion costs at most one of them, and exactly what is kept is delivered.

### SimpleHashing

`simple_hashing`. `bins[t][b]` are the values in bin b of thread t's table, `room` the
memory each has, `maxbinsize` what the code judges by. `InsertValue(t)` is one round of
the loop over the hash functions in `insert_element`, with `increase_max_bin_size` in
the same step because the thread's table is its own; `CopyBin` is one round of the
merge. Every thread begins at the first element (110), as in the code.

### RunTask

`run_task` with its three worker functions. A round of a worker is two steps, `Load`
and `Store`, since other threads run between them. A cell of an array says which
element it comes from and how often it was processed. In place, input and output
are one array, and are written as one.

### ComparePSI

`naivepsi` and `dhpsi` between two processes, each with its main thread and the sender
thread of `snd_and_rcv`. The channels are FIFO with room for `Capacity` messages: TCP
as the program sees it. A mask is an element with the set of exponents it has. `low`
gives the 32 bits that find_intersection compares: all keys of its hash table are the
address of one variable, so `g_int64_equal` compares that with itself.

`run_task` is taken by its contract here (its own module shows when it holds).

### HashAddress, OTPSI

`HashAddress` has the operators of hashElement on bytes: `Address` for the three bins and
`Value` for what is stored, as functions of the memory in which the element lies. A
read beyond an element finds its neighbour (`ByteAt`). The widths are constants
(`ByteBits`, `WordBytes`, `TableRows`; 8, 4 and 2^16 in the code), which keeps the
arithmetic and makes small instances possible. A byte has two bits at least
(`HashAddressOK`). A set in memory (`SetInMemory`) has elements of one length, none
twice: it is a set. Sums and powers are recursive functions, not
operators, so that they can be proved about.

`OTPSI` runs `CuckooHashing` as the client's table and `SimpleHashing` as the server's,
with `hash` computed by `HashAddress`, then the protocol:

| Action | Code |
|---|---|
| `ClientHashing`, `ServerHashing` | any step of the table modules |
| `Oprg` | oprg_client and oprg_server: a joint step, the OT extension blocks each until both run it |
| `SendMask`, `ReceiveMask`, `JoinReceiver` | send_masks, the thread receive_masks, its join |
| `Query` | a round of the query loop of otpsi_find_intersection |
| `CreateResult` | the end of the call |

A mask is named by the bin and the value that the OPRG computes it from. A mask's
bin on the server is read from `nelesinbin`, as the OT extension does. `lookup` says
whether masks are longer than eight bytes (then the rest is compared, too) and whether
the 32 bits of the lookup collide. The result is put in order by `Ascending` of `ResultOrder`,
which `ComparePSI` uses as well: the qsort of create_result_from_matches in helpers.h. It
names the ascending sequence instead of computing it; TLC and the provers both can evaluate that.

The common seed, that is, the same tables `hf` on both sides, is taken as given here
(`CommonSeed` shows it), and so is the hashing of long elements into a smaller domain.
Both tables are filled by one thread here; what more threads do is the subject of the
table modules. `NBins` is the same on both sides: the parties do not exchange epsilon, and
with different values they would run different numbers of OTs; that is listed as a hazard.

### CommonSeed, NaorPinkas, BitMatrix, BitVector, KKOT

What `Oprg` of `OTPSI` does in one step, in detail. The first two modules have the main
threads' exchange over socket 0, `KKOT` goes on with their variables.

| Action | Code |
|---|---|
| `SendSeed`, `ReceiveSeed` | gen_common_seed: random words sent, received, xored; init_prf_state |
| `SendPoints`, `AnswerPoints`, `ReceiveKeys` | NaorPinkas::Sender (first half), NaorPinkas::Receiver, Sender (second half), with the key set-up of InitAESKey |
| `NoOTs`, `CreateThread`, `MarkRunning`, `WaitThread` | send and receive with CThread::Start and Wait; Start in two steps, since the new thread runs before `m_bRunning` is set |
| `ClientRound`, `ServerRound` | BuildMatrices with GenerateChoiceCodes; the reception and BuildMatrix |
| `HashInto`, `CopyOut` | one hash_ctr of HashValues: the digest into the buffer of the crypto object, and from there to the mask |
| `EndRound`, `EndThread` | the client's Send at the end of a round; ThreadMainHandler |

Secrets are symbolic. A seed word and a bit of a matrix are the set of the random bits
that are xored into them, so that equality is equality for all random values; a group
element is its exponent (`Pow` and `Div` are what set_pow and set_div do to it); a
hash is its preimage; ECC::Encode is a constant function `Code`. Lengths are real: a key is cut out of the hash stream word by word, as
InitAESKey does it by AES_BYTES, and a level of 192 bits agrees on three words of a key of
which AES-256 reads four. `stray` says whether the memory behind them differs.

`BitMatrix` translates EklundhBitTranspose with its swaps of lanes and registers. Indices of
bits are those of GetBit; `Lane` is where a bit is in a little-endian register.
`BitVector` has the copying and xoring of bytes and of bits at any offset, by the shifts
and masks of the code, and what they promise bit by bit. Both are operators without state;
`MCKKOT` checks them as assumptions (`Transposes`, `CopiesBits`) for several widths.

The number of OTs of a thread is cut off with an unsigned difference (`CutNumOTs`), which
wraps for a thread that starts behind the last OT; `OtLim` adds the start again modulo the
same power, so the two cancel. `Blocks`, `ProcessedOTs` and `OtLen` are the round's sizes
in the code's order of computation; the client makes its buffers after the cut and the
server before it (`BufferBlocks`).

### ParseOptions, Connection, ServerAided

`ParseOptions` has the loop of parse_options as operators over a record, and the option
tables of both programs. `Connection` has connect (with its retries), listen (bind, and
one accept per step) and what Send and Receive do when the partner has ended.
`ServerAided` composes both to processes of `bench_psi` and `psi_demo`:

| Action | Code |
|---|---|
| `ReadOption`, `ExitWithUsage`, `AcceptOptions` | a round of the loop; its refusal; the assertions behind it |
| `Listen`, `Accept`, `Connect` | listen and connect of connection.cpp |
| `Elements` | create or read the elements |
| `ReceiveSizes`, `ReceiveSet`, `Compute`, `AnswerNext`, `ServerDone` | server_routine |
| `Start`, `SendMasks`, `ReceiveAnswer` | client_routine |

Where a failure leaves a variable without a value, the step has several outcomes: some
value, or the end of the process. A second Send to a closed connection may end the
sender. As in the code, `bench_psi` passes its number of clients where ttppsi has the number
of threads, and its cardinality flag where ttppsi has the number of clients
(bench_psi.cpp:82), so that its server serves no client, and one with `-y`; and `psi_demo`
without `-r` has a role of any number. The clients' key is a constant of the
program, so that nothing is agreed on.

### FuzzyPSI

`Distribute` computes the sender's range and the receiver's value, `InsertNext` is a round
of genRepStringA with all of Trie::insert (merging of siblings up to the root, and
deletion), `EnterChild`, `PutOut`, `Descend` and `Ascend` are the rounds of genRepStrVec,
which deletes the trie as it reads it, `Compare` is the comparison with
genRepStringB; the wild card that it first writes over the terminator of its string
(DASetAug.cpp:60) changes none of the strings. A node of the trie is the sequence of bits that leads to it. The encryption
is exact arithmetic modulo the plaintext modulus; noise_flooding adds a multiple of it.

## 4. The runs

| Run | Distinct states | Question |
|---|---|---|
| `cuckoo` | 113,895 | Four elements, five bins (epsilon 1.2), all eviction walks for six address triples that repeat and crowd bins; one thread, three, and six of which some have nothing |
| `simple_hashing` | 34,560 | Four elements, three bins; twelve values can go to one bin that has memory for nine, so that tables grow; one to three threads, one of them idle |
| `simple_hashing_threads` | violation | several threads insert all elements |
| `run_task` | 3,138 | Three elements, each worker function, one, two and four threads, all permutations, all interleavings of reads and writes |
| `compare_psi` | 12,484 | Both protocols, sets with none, one or both elements common, an empty set, command lines that differ, buffers for one mask |
| `otpsi` | 13,176 | Two elements a side, from bytes to the result, buffers for two masks |
| `otpsi_plaintext` | violation | the comparison of test_psi.cpp:90 |
| `otpsi_boundary` | violation | the same with 16 bins for bytes of four bits |
| `kkot` | 44,926 | Five OTs in rounds of one block of four and of two, four choices of the server, bins with none, one and two values; two and three threads, some without an OT; no OT at all; keys of every level |
| `kkot_threads` | violation | what `numThreads` promises (kk-ot-extension.h:78) |
| `server_aided` | 104,806 | 13 sets of four command lines and files: two clients and a late one, a missing file, both programs mixed, two connections of one client, and command lines that are incomplete, unknown or repeat options |
| `fuzzy_psi` | 57,165 | Vectors closer and farther than four thresholds, modulo 41, for every random number, so that the range is at every place |

What the passing runs show:

* `cuckoo`: an entry is never read before it was written, nor written from
  another element (`EntriesReady`); an entry is in one bin at most and in one of its
  own (`PlacementSound`); every element fed is in the table, carried, or paid for by
  one message (`NothingLostSilently`); the k-th entry of `perm` belongs to the
  k-th mask (`PermNumbersMasks`); the table implements `LossyStore`; it returns.
* `simple_hashing`: before every write the bin has memory (`BinsFit`), the
  result array is filled exactly (`ResultFits`) and cut correctly by the counts
  (`ResultGrouped`), the first thread's elements are in it (`FirstChunkStored`).
* `run_task`: no index leaves the arrays, no two permuting threads write one
  cell, and with one thread or elements behind pointers each element is processed
  exactly once; in any other call nothing behind the first slice ever is
  (`ProcessedByPointer`).
* `compare_psi`: parties that go on agree on protocol and length; the masks that come
  back are in the order they were sent in; the result is exact if no two compared
  words collide; both end, whatever blocks.
* `otpsi`: under `Determined` (hashElement reads nothing but the element), `Separated`
  (no other element or dummy with the same bin and value) and `LookupExact` (no
  collision of masks), the client's result is exactly what is common and was not lost
  by the cuckoo table, in order and without duplicates (`ResultExact`), and the match
  array holds (`MatchesInBounds`). Without `Separated` wrong elements may come in, but
  none is hidden (`FalseMatchesOnlyAdd`). Both calls return (`Terminates`). The
  instances have states of each kind: an element that is lost, both common elements
  found, a false match beside a true one, dummies, an element too short to be read
  alone.

* `kkot`: both parties have the same key for the hash functions, and of each base OT the
  server has the key of its choice (`SharedKeysAgree`; not at 192 bits if the memory behind
  the seed differs, and above 128 bits not for every base OT, which is part of the property). A thread's matrices on their way
  are what its partner will ask for, and fit into its buffers (`NothingLeftOver`). When
  both calls have returned every thread has ended and every mask is written (`AllJoined`),
  and the mask of a value of the client equals one of the server exactly when bin and
  code word (at the chosen places) do (`MasksAgree`), unless a digest was overwritten.
  Both return. The same run checks the transposition for registers of one and two bytes,
  and reading and writing bits at every offset and in every length of short vectors.
* `server_aided`: well-formed command lines are read as written (`ReadAsWritten`). Sockets
  and queue hold the connections in the order of their arrival, none twice and none lost
  (`SlotsInOrder`). A client that gets an answer reports elements that all served clients
  have, once each; and all of these, if no client failed and no two elements of the
  first one share the first word of their masks (`ResultExact`). Everybody with known options gets to its connections, and when
  the server has all its connections, of different clients, everybody ends (`Terminates`).
  The conditions are what the code needs: it hangs for an unknown option, for a
  connection that nobody opens, and when two connections of one client take both places.
* `fuzzy_psi`: at all times the strings in the trie and those put out cover the range
  inserted so far, each number once, with no two siblings left (`RepresentsRange`); the
  vectors match exactly when the squared distance is less than that of the
  threshold and the range does not wrap around, for which the code has no answer
  ("Not implemented yet", `MatchExact`).

What the violations show, each a statement of the repository that the code does
not keep:

* `EveryElementStored`: each thread of simple_hashing starts at the first element
  (simple_hashing.cpp:110); with two or more threads the rest of the set is never
  inserted.
* `AsPlaintext`: the value that stands for an element does not contain all of
  the element: (L ^ h) % nbins is not injective, R = 0 equals the dummy, and up
  to three bits of the last byte are erased. Elements of the client that the server
  does not have may be in the result.
* `NoneMissing`: with exactly 2^8 or 2^16 bins (213 elements on the client's side)
  the value takes in a byte of the next element in memory, and common elements of
  more than four bytes are not found.
* `MasksAgreeInThreads`: the threads of a party hash into one buffer of its crypto object
  (crypto.cpp:262) and copy from it later; between the two another thread may
  overwrite it, and common elements then have different masks.

Two properties say what happens where the code does not do what its callers count on:
`ProcessedByPointer` that several threads on elements of fixed length, which all start at
the first element (helpers.h:125, 171, 203), never get behind the first slice, and
`SharedKeysAgree` that the keys of base OTs differ above level 128, as AES_BYTES is not the
length of a key there (kk-ot-extension.h:30). Other properties have conditions where they
would not hold: `MasksAgree` is about levels up to 128 and about digests that no other thread
has overwritten; `ResultExact` of `OTPSI` is about elements of a word or more. For shorter
ones hashElement reads bytes of the neighbour, and the number of bits by which hs->mask is
shifted wraps when the element and the address have more than 32 bits together
(hashing_util.h:116: three bytes, and more than 2^8 bins), so that a few bits of R, or one,
stand for the element. `maskbitlen` has that shift, modulo the width of a word as the
processor takes it; the tables of the runs are too small for it. `CollisionFree` leaves out masks that agree in 32 bits, which
are counted twice and may overrun the array before the assertion of helpers.h:296. The
field `pos` of a cuckoo entry is not updated when a victim's bin is taken (cuckoo.cpp:218),
against the comment of cuckoo.h:38; it only steers the walk.

### Bounds

The sets have one to four elements (13 in `otpsi_boundary`, which reaches 16
bins). That suffices for what can go wrong: three entries for two bins make a
walk that is cut off, four values more than a bin's memory make it grow, two
matches for one place overrun the array. More elements lengthen the walks but bring
no new action. Threads: one, a number that divides the set unevenly, and more than
there are chunks. Channels hold one or two masks, so each sender blocks. In `otpsi`
bytes have four bits and words two bytes; then 16 bins correspond to 256. No counter
needs a cap: all loops are bounded by the code.

In `kkot` a code word has four bits (512 in the code), AES blocks and registers two (128 and
64), so that a block has two registers a row and a round of two blocks is a wide
matrix; five OTs are a full round and one that is cut. `Wrap` is 256 for 2^32: larger than
any sum, as the code's is, so that only differences wrap. The group has order 23. The
channels are unbounded: the client only sends there, and the server always reads.
In `server_aided` connect tries twice (1000 times) and a process has at most two sockets; the
queue of five is never full with three clients. In `fuzzy_psi` strings have six bits (41) and
the modulus is 41 (a prime of 40 bits); thresholds 1 to 4 (182) give ranges of up to
16 numbers, which merge over four levels.

### Fairness

`FairSpec` of each module has weak fairness for each thread or process: the
operating system schedules every runnable thread, and a blocking `Receive`,
`Send` or `pthread_join` returns when what it waits for is there. No strong fairness is
needed or assumed. In `CuckooHashing` it is one condition per generating thread and one
for the caller; in `ComparePSI` one for each party's main thread and one for its
sender thread; in `OTPSI` one per process and one for the joint step. Crashes
and lost connections are not modelled in those: TCP neither loses nor reorders, and
the code does not handle a partner that goes away.

In `KKOT` and `ServerAided` weak fairness of the next-state relation as a whole is enough: no
process or thread can take steps for ever, so that each one that can run does when the
others have stopped. (The loop over an unknown option changes nothing: it has no step.)

Deadlock is checked in all passing runs but `server_aided`: the end of a call is an
explicit stuttering step (`Returned`, `Ended`), so that stopping anywhere else is an error. In
`server_aided` processes really wait for ever, for connections that nobody opens.

## 5. The proofs

The proof modules extend the modules they are about. The constants' assumptions are
the named `ASSUME`s of these modules (positive sizes and numbers of threads, addresses
that are bins, model values that are no numbers), which TLC evaluates in the runs. The
theorems hold for every number of elements, bins, threads, OTs and blocks, every hash
function, every permutation and every size of the buffers.

* `TaskPartitionProofs`: the chunks of k threads cover all n elements
  (`ChunksCover`) and are disjoint (`ChunksDisjoint`), for all n and k > 0. The
  argument: t = e \div ceil(n/k) is the chunk of e, and less than k. It has also what the
  others need of running sums (`Offset` of the merge, `StartingPos` of the bins): that the
  recursive function exists (`SumsExist`) and adds up (`RunningSumsAre`), and that it
  grows. The induction is by a least counterexample (`Least`, from the well-founded order
  of Nat), since no theorem with an operator as its parameter can be used. Two more groups
  of lemmas are about what every module computes with: powers of two and the two logarithms
  (`LogOfPower`, remainders and quotients of digits), and `Ascending`, that it exists, is in
  order and has the same values.
* `CuckooHashingProofs`: the inductive invariant `IInv` has the types, `Generated` (a
  thread has written the entries of its chunk up to its loop variable), `EntriesReady`,
  `PhaseOK` (what phases say about the insertion loop) and `PlacementSound`. `Generated`
  is what makes `EntriesReady` inductive: at the join every thread has reached its
  end, and `ChunksCover` gives the thread of each element. `PlacementSound` needs
  `EntriesReady`, since the bins are read from the entries, and that the carried entry
  is in no bin. `CuckooImplementsStore` adds `ScanOK`: `perm` lists what is in the bins
  before `scan`. A step of the walk maps to a stutter, since the elements in the
  table together with the carried one stay the same; `Place` maps to `Settle`,
  `GiveUp` to `Drop`, `Return` to `Deliver`. `Storable` in the abstract state is
  witnessed by the table itself, with one free choice for the carried element.
  `NoSilentLoss` is an equation of cardinalities (`Account`): `Evict` swaps an element of
  the table with the carried one, `GiveUp` turns the carried one into a message.
  `MasksAreNumbered` is one too (`Numbered`): the length of `perm` is the number of occupied
  bins before `scan`, and the entry of a bin is behind those of the bins before it.
* `SimpleHashingProofs`: `IInv` has the types, `Started` (no thread is before its start)
  and `RoomOf`: every bin's memory is `maxbinsize`, and strictly more than what it
  holds. This gives `BinsFit`: the initial size is positive and doubling is strict.
  For the merge `RInv` counts: the values in the bins of a table are as many as the rounds
  that the thread has done (`TableOf`, `Counts`), at the join three times the elements of
  its chunk; the result array has as many cells (`Layout`, by running sums over bins);
  and each bin between its borders has what was copied into it (`BinMerged`). An empty
  table of a thread without elements adds nothing, which is why the count is exact.
  `DummiesAreRepeats` says of a dummy that two hash functions of one element meet in its bin,
  so that the other side's elements do not find it by chance elsewhere; `OTPSIProofs` needs it.
* `OTPSIProofs`: the two tables are runs of the two modules (`TablesAreRun`; the proof modules
  are instantiated as `CP` and `SP`), so that all that is proved of them holds here: `perm` and
  `nelesinbin` give the bin and the owner of each mask (`ClientTable`, `ServerTable`). On top of
  these is `Protocol`. `InputsOK`: the addresses are computed from the bytes, and with one set
  of tables on both sides, which is why equal elements have equal bins. `ControlOK`: the parties
  leave the OPRG evaluation together, with both tables ready. `MasksOK`: masks are computed
  from the finished tables and do not change while they are sent. `StreamOK`: what
  was received and what is in the connection are the masks sent, in their order, so that the
  p-th received one is the server's p-th for every size of the buffers. `SearchOK`: the matches
  are the owners of the matched masks among those queried so far, and if elements can be told
  apart, no owner twice. The last is the crux: an element of the client may meet one of the
  server in three bins, but its mask is of one bin only, and there the server has a value once
  for each element, with a dummy for every further time; two matches with one owner would be one
  value twice in one bin.
  Hence there are at most `neles` matches and the array is large enough
  (`ArrayIsRoomEnough`, `TypeCorrect`). `NoneIsHidden` goes the other way: a common element
  that the cuckoo table kept has a mask, in a bin of its own; the server's thread has put the
  same value in the same bin (values are functions of the element under `Determined`);
  that mask is received and matched. So `MixUpsOnlyAdd`, without `Separated`, and
  `ResultIsIntersection`: an element that was found has a value in common with one of the server
  in one bin, and by `Separated` it is that element.
* `RunTaskProofs`: `RoundsOK` bounds the loop variables, and `Progress` says for the sound
  calls what the finished rounds have left in the arrays and that
  unfinished ones are untouched. `IndicesStayInside` needs only the slices' facts
  (`SliceFacts`); `SoundCallsProcessAll` uses that slices cover the set, and for the other
  calls `FirstSliceOnly`: what is read, held and written is of the loop's round, and no slice
  is longer than the first.
  `OneWriterPerCell` adds `Written`, who has written which cell: a permutation is one to one
  and the slices are disjoint, so that no cell gets a second writer.
* `ComparePSIProofs`: what a party sends in a whole run is one word of masks: its own in the
  order of its permutation and, from the Diffie-Hellman server, the answer. `Out` and `In`
  count what of it was sent and received, and what is in the channel is the part between
  (`Stream`). Thus `got` is a prefix of the other's word, whatever the two threads of
  each side have done, and `MasksAreLinedUp` is that prefix at the end. `Doubled` says the
  answer's masks have both exponents, at the places they came from unless only the
  cardinality is asked for; `Matched` that `matches` has no element twice and exactly those
  found so far. `ParametersAreAgreed` is `Handshake`: the first word of each channel is
  the other's parameters. A result is put in order by `Ascending`, of which the order lemmas of
  `TaskPartitionProofs` say that it exists and keeps the elements.
* `KKOTProofs`, in five parts.
  - `KeysAreShared`: `Together` relates where the two main threads are, `Socket0` says which
    words are on their way over socket 0 at each pair of places, and `KeysOK` what was
    agreed. The rest is arithmetic: of OT k the server has alpha * pK[k] modulo the
    group's order, and the client's two candidates differ by the second point, one of them
    being that product for the server's choice. The key of an OT is cut at the same
    place of the same stream on both sides, if levels do not exceed the 128 bits at which
    the numbers of OTs and of keys coincide. Above them `LongKeysDiffer` compares the first
    words of the first two base OTs' keys: they come from different places of a hash, or
    from different hashes, unless the client's two elements are one.
  - `ReturnsJoined`: `Start` creates the thread first and sets `m_bRunning` then, so the
    thread may end in between. `MainOK` says which threads were created, marked and joined
    at each place of the main thread's loops, and that a marked thread whose
    `m_bRunning` is false has ended: the flag is written true only before the join. With
    `ThreadsOK` (a thread is at a `Point`, a multiple of the round's size from its
    start, or at its end) and `MasksOK` (what is behind it is `Written`, and so are the jobs
    of this round before `pos`) all masks are written when all have ended; that each
    mask is in the chunk of some thread is again the cover of chunks.
  - `NothingIsLeftOver`: `Underway` says that a socket holds the bits of the rounds between
    the place up to which the client has sent and the one up to which the server has taken.
    Both are points of the same thread, so the server's next round finds all of its bits
    or waits, and at the end both are the end. `Bits` computes the amount from the two
    places, and `SentFrom`, the recursive function that the property uses, is shown to
    exist and to agree with it (`ChainExists`).
  - `TransposesEveryWidth`: EklundhBitTranspose is the plain transposition for every height that
    is a power of two and at least a register, and for every number of square blocks beside each
    other. One level exchanges bit i of a bit's row number with bit i of its column number.
    Inside of registers (`LanesExchanged`) columns are mirrored in each byte, since GetBit counts from
    the most significant bit and lanes from the least: below the eighth lane the exchange goes the
    other way round, which is why the code has two forms of the mask; above it whole bytes
    move. Between registers (`RegistersExchanged`) the same bit is one of the register's number.
    All levels together (`Crossed`, by induction over levels) exchange all bits of the row
    number with the low ones of the column number, that is, they transpose each square
    block where it stands; the copy at the end puts the blocks one below the other
    (`StackedFrom`, `StackedSource`).
  - `MasksDecideMembership`: `GInv` says of everything that a thread has before it what it is.
    `GoodJobs`: a hash call that has a cell is about a row of the base OTs' streams (`RowOf`,
    which depends on the round, the OT and the value alone and not on who computes it).
    `GoodSnd` and `GoodSocket`: the matrix that a client's thread has built, and those on their
    way to the server's, hold for base OT k and OT j the two streams and the bit of the code
    word (`SentBit`), each at the place that `Bits` gives its round. `GoodMasks`: what is
    written is the mask of its cell. `Alone`: a single thread copies the digest that it has
    computed. The socket's part is why `GInv` is not inductive without `Underway`: only if
    the bits that are left over are none does the server's next round begin where the client's
    did. `TransposesEveryWidth` turns the columns of both sides into rows, and what is left is
    `Xor`: where the server chose zero it has the client's stream, where it chose one the
    client's stream and the code word, so that its row differs from the client's by the
    code words' difference (`ClientRows`, `ServerRows`, `NoDifference`). Rows are compared inside of one OT and one round: an OT is
    in one round only (`RoundsUnique`), and a cell in one bin (`OneBin`). `Level <= 128` is needed as in
    `KeysAreShared`: beyond it not all base OTs have one key on both sides. The code
    words may be any; what their distance gives is not part of the property.

* `ServerAidedProofs`, in three parts. They assume of the command lines what `SetupsOK` says
  (bench_psi has a socket at least and the elements that it is told to draw), of masks that
  different elements have different ones (`MaskOK`), of the network what `Connection` says.
  - `SlotsAreInOrder`: `NInv` has the shape of the command line's state (`ArgsOK`: what is
    left of argv, and that the numbers which decide on sockets and clients are
    defaults or given) and of the sockets (`SocketOK`: a client's k-th is its k-th connection
    or none, the listener has server ends only). A step makes a connection (`Connecting`)
    or leaves all of them (`Moves`); accepting moves one from the queue behind those in the
    sockets, so that `Arrivals` stays, and connecting appends one with a number higher than
    those of its process.
  - `OptionsAreRead`: `Begins` says that the argument at k is not the value of an option. In a
    well-formed command line a round begins at such a place and ends at the next one
    (`RoundIsRight`); so what has been read is what is `Written` before it (`ReadUpTo`).
  - `TypeCorrect` and `ResultIsExact`: `ProtocolInv` adds what the processes know of each
    other. `WordsOK`: a client's words that a living server has not taken are those on their
    way, in their order, as `Word` computes it from both sides' places. `SetsOK`: what the
    server has at a place are the masks of that place's client if it sent them, else the
    client is gone. `AnswersOK`: what is on its way to a client is the answer for its own
    place. `WaitOK` is what makes these inductive: who sent its masks does not end before it
    is told unless the server has ended, and the server passes over only those that have
    ended, so that Receive gets nothing exactly from a client whose words nobody has sent.
    `ToldOK` is what a client made of its answer. The rest is `IntersectionIs`: the hash table
    that compute_intersection builds keeps, of masks with one first word, the last one of the
    first client, and of these the entries that all sets have, whatever the number of
    clients that are served (none, one or two).

Only model-checked: reading and writing bits at offsets (`CopiesBits`), and everything about
`FuzzyPSI`. There `RepresentsRange` and `MatchExact` are about strings that a
merge up to the root builds, an induction over the depth of a trie and over folds of TLC's
modules, which has no proof here. Out of the prover's reach: liveness under fairness
(`Returns`, `Terminates`), and `ENABLED`.

## 6. Not modelled

* Public-key arithmetic, AES, hash functions and BCH codes, and the table of code words:
  numbers and tables without control state, symbolic or constants in the modules.
* The homomorphic encryption of `cpet_psi` (the SEAL library).
* The rest of CBitVector: its template accessors and printing, SetBitsToZero, XORRepeat, GetInt
  and others that nothing in this program calls.
* Hashing into a smaller domain (domain_hashing), and the stash, which is off in this build.
* CLock, CEvent and Kill of thread.h: no protocol uses them.
* A number of bins per party (a different epsilon on both sides), failing pthread_create or
  malloc, partners that go away in the protocols for two parties (`ServerAided` has them).
* test_psi, timing and printing; files are contents by name.
