# Verification of npsi_my

This directory holds TLA+ models of the multi-party private set intersection
program in this repository, the TLC configurations that check them, and TLAPS
proofs. `PROJECT.json` links every definition to the source lines it models,
every property to the run that checks it and to a plausible bug the run
catches.

## 1. The system

The program lets n parties, each with a set of items, compute the intersection
of all sets. Party n-1 is the leader and learns the result. Every two parties
share channels (`cryptoTools/Network`). Each pair runs base OTs (`libOTe`), a
batched OPRF over hashed bins and a programmable OPRF (`libOPRF`), through
which the parties deal shares of zero. A client XORs what it received and
sends the sum on to the leader through one more OPPRF; an item is in the
intersection iff the sums cancel. The protocols themselves are the functions of
`frontend/OtBinMain.cpp`.

### Components

| component | state | operations | interaction |
|---|---|---|---|
| Channel I/O (`BtChannel`, `BtSocket`, `BtIOService::dispatch/sendOne/receiveOne`) | two strands, two queues, a TCP handle, byte counters, promises | asyncSend, send, asyncRecv, recv, close, resetStats | user threads post to strands; io_service threads run strand handlers and completions |
| Connection lifecycle (`BtAcceptor`, `BtEndpoint`, `BtIOService`) | acceptors, map of socket promises by tag, channels of an endpoint, done promises | start, addChannel, removeChannel, stop, accept/handshake handlers | a connecting endpoint sends its name as first message; the acceptor hands the socket over through a promise |
| Multi-party protocol `tparty` (`frontend/OtBinMain.cpp`) | payload vectors per slot, OPPRF endpoints per pair, threads per phase | base OT phase, hashing, OPRF phase, secret-sharing phase, leader phase | pairwise OPPRFs over channels; threads joined between phases |
| Other parties of that file: `party`, `party3`, `aug_party`, `user_server`, `party2` | as above | the same phases with other roles: a ring, or clients that all send to the last party | as above |
| Hashing (`CuckooHash`, `SimpleHash`, `binSet`) | bins, stashes, hash values | hashing2Bins, insertBatch, insertStashBatch | threads insert batches concurrently, two barriers |
| Table OPPRF (`OPPRFSender/Receiver`, `TableOpprf*`, `BaseOPRFs`) | masks per bin, positions, rows of slots | init, getOPRFkeys, sendSS, recvSS, getPos, getMask | consumes OPRF values, one message per 16 bins |
| Polynomial / Bloom filter OPPRF, plain OPRF | as above with another encoding | as above | as above |
| KKRT OPRF (`KkrtNcoOt*`) | T matrices, correction index | init, encode, zeroEncode, sendCorrection, recvCorrection | receiver encodes, then sends the correction rows the sender needs, by pointer |
| Other OT extensions, Naor-Pinkas base OT | generators, matrices; threads sharing one message | init, encode, send, receive, check | channels, promises |
| Older PSI protocols (`libPSI`: Beta, Dcw, DcwR, DKT, Rr16 with AKN) | their own bins and filters; promises, countdowns and shared vectors | init, sendInput | one thread for each channel; not called by the executable |
| MPSC queue | linked list with two ends | push, pop | no user in the repository |
| Common utilities, primitives, front end, tests | | | |

`OPPRFSender.cpp` and `OPPRFReceiver.cpp` at the root of the repository are old
copies that no CMake target builds; `libPSI_TestsVS`, the makefiles and the
libraries are generated or wrappers.

### What is hard, and what makes each component correct

- Channel I/O: a completion handler runs outside the strand, its pop is
  dispatched back and races with pushes. Correct when no queue stalls, messages
  arrive in order and whole, a close leaves nothing that touches freed memory,
  stack promises outlive their use, and matching programs terminate.
- Lifecycle: handshakes, `addChannel` and shutdown run in several threads; a
  promise may be kept twice or never. Correct when both ends of a name get the
  two ends of one connection, and when every `stop()` returns if the users
  close their channels.
- Multi-party protocol: each client runs up to n pairwise protocols in
  parallel, as sender, receiver or both. Correct when the roles of the two
  sides of each pair fit for all n and t, every payload slot is written exactly
  once, no set of parties waits in a cycle, and the shares cancel exactly on
  common items.
- Hashing: correct when each item is in exactly one cuckoo bin or in the stash,
  in a bin one of its hashes names, and in every simple bin the other side may
  look in.
- OPPRF: correct when a programmed item yields its programmed value, and when
  both sides agree on the number of bins, the width of rows and chunk borders.
- KKRT: correct when the sender never encodes a row whose correction has not
  come, both sides number rows alike, and the rows lent to the network stay.
- OT extensions and PSI protocols: messages carry no tag, so both sides must agree
  on every loop; threads share vectors whose ranges must fit together, and publish
  them by promises and countdowns; `asyncSend` of a pointer lends memory that
  must stay; a challenge must come after all that it challenges.

## 2. The plan

In this order, most important behaviour first:

1. `FifoPipe`, `BtSocketIO`, `BtSocketIO_proofs`: the channel everything runs
   on. Built. Left: `resetStats`.
2. `Roles`, `TParty`, `IdealPsi` and their proofs: the slots and roles of
   `tparty` for every n and t, the parallel phases over abstract pairwise OPPRFs,
   and what they promise. Built.
3. `Rendezvous`, `Lifecycle`: `BtAcceptor`, `BtEndpoint` and `BtIOService`, and
   what they promise. Built. Left: a refused bind, a second start of an endpoint,
   names used again.
4. `Hashing`: insertion by several threads and the agreement of the two tables.
   Built. Left: the tables of bit positions (`mNumBits`).
5. `Steps` and `Session` over `OtSessions`, `OprfSessions`, `PsiSessions` and
   `PartySessions`: every protocol function of the libraries as a program of
   messages, shared memory and waits; `Orders` and `Session_proofs`: what the
   programs alone tell of every run. Built. Left: the values (what an OPRF, an
   encoding or a check computes), Beta with several channels.
6. The search of bit positions (`BaseOPRFs`), Shamir shares, the MPSC queue.

Theorems, in order of value. Proved: the channel, with its refinement; the
lifecycle, with its refinement; the threads, types, message order and lent
corrections of `tparty`, and its refinement: the shares cancel; all invariants of
`Hashing`; all invariants of `Session`, for any programs, from conditions on the
programs. Next:

- The conditions of `Session_proofs` for programs of any size, one loop at a time.

## 3. What is modelled

### FifoPipe

The promise of `Channel.h`: an ordered reliable pipe in each direction, which an
end may leave. Three actions, on the histories `sent`, `got` and `left`.

### BtSocketIO

One connected pair of channels. End `e` has one user thread that runs a program
`todo[e]` of calls and then `close()`, the way the repository uses channels.

| TLA+ | code |
|---|---|
| `sendStrand`, `recvStrand` | handlers posted to `mSendStrand`, `mRecvStrand` by `dispatch` |
| `mSendQueue`, `mRecvQueue` | the deques of `BtSocket`; an operation holds its type, number, length and a flag (has a promise / fixed-size buffer) |
| `writing`, `reading` | progress of `async_write`/`async_read` for the front, up to the pop it dispatches |
| `wire` | what the two kernels buffer, in parts (length header, body), at most `WireCap` |
| `kept` | promises fulfilled, and whether with a value or an empty exception |
| `pc` | the user thread: running, blocked in send/recv, closing, closed; or the process dead after a handler threw |
| `sent`, `got`, `recvs` | histories |
| `stats` | the four counters |

The actions are the calls (`Send`, `Recv`, `Return`, `Close`, `CloseReturn`),
the strand handlers (`PushSend`, `PushRecv`, `PopSend`, `PopRecv`), the
asynchronous steps (`Write`, `WriteDone`, `ReadHeader`, `ReadBody`), the errors
(`ReadFails`, `WriteFails`: a throw out of `io_service::run`) and the network's
`Reset`. `dispatch` of a pop from a completion may run before or after waiting
pushes, so `PopSend` and `PushSend` simply interleave. Operators named after a
bug (`StartsAlways`, `StopsEarly`, `CloseSendTwice`, `OnlySendsClosed`,
`FulfilledEarlier`, `UnchargedIfSync`) are not used by the specification; they are
the wrong variants `PROJECT.json` substitutes to show that each property can
fail.

Abstractions: payloads are identified by the number of the message and its
length; partial reads and writes within a part are not visible to handlers and
are left out; lengths are small numbers, so the truncation to `u32` and the width
of the counters are not modelled; `resetStats` is not modelled; connections
are already established.

### Rendezvous

The promise of `Network`: a host and a client that name each other get the two
ends of one connection, each only once.

### Lifecycle

Services, endpoints and channels of all processes of a program, from `start` to
the return of `BtIOService::stop`. The constants `Endpoint` and `Channel` say
what the program starts and adds; `Stops` says when it calls `stop`.

| TLA+ | code |
|---|---|
| `svc`, `running` | how far `BtIOService::stop` is; whether `io_service::run` is still in its threads |
| `ep`, `done` | `BtEndpoint::start` and `stop`; `mDoneProm` |
| `listening`, `halted`, `accepting`, `ended` | the handle of a `BtAcceptor`, `mStopped`, the pending accept, `mStoppedPromise` |
| `backlog`, `shake`, `named` | connections of the kernel; how far the handlers have read a client's names; whether they were sent |
| `proms`, `stale` | `mSocketPromises`; who is in an unlocked lookup while the map grows |
| `user`, `slot`, `socket` | where the thread that uses a channel is, the future it waits for, the socket it got |
| `mChannels`, `before` | the lists of the endpoints, and who precedes a channel of the same local name |
| `dead` | a promise kept twice, a future taken twice, or undefined behaviour |

`addChannel` is `Connect` at a client, and `Ask`, `TakeFuture`, `GetSocket` at a
host, as the mutex of the acceptor is released in between. A handshake is
`Accept`, `Accepted` (which accepts again first), `ReadHeader`, `ReadBody`
and `HandOver`. `close` is `Close`, `Drain`, `Remove` and `Unlock`: the promise of
the endpoint is kept with the mutex still held. `BtIOService::stop` is
`StopService`, `Halt` and `CloseHandle` for each acceptor, `Destroy`, `Await` and
`JoinThreads`. `IoThreads`, a conjunct of every step, ends the io threads as soon
as the service has no work left, which is what `io_service::run` does.

Abstractions: `start` of an endpoint is one step; a connect that is refused tries
again, so it is modelled as waiting for the acceptor (the code gives up after ten
million attempts); of the traffic of a channel only the message with the names
and the two operations of `close` are seen. A lookup that races with growth of the
map is undefined in C++: the model lets it find the entry or miss it, and
`Growth` gives the sizes at which that happens. `Faults` lets a first message be
cut short or a connection be reset before it has sent its names. The assumptions
say how programs use the library: one service listens on a port, each channel
has one counterpart and its own names. A process that dies ends the behaviour.

### Roles

Pure operators: for n parties, threshold t and party p, the threads that `tparty`
starts in a phase. `tSS` is the number of neighbours a client deals to,
`prevIdx`/`nextIdx` the ring positions, `isDual`, `num_threads` and
`is_in_dual_area` the arithmetic that decides which neighbours are both, and a
thread is a record of slot, peer, payload and role. `FillSlots` says that each
slot of `pThrds` is assigned once: assigning twice or joining an empty slot ends
the process.

### TParty

All parties run `tparty` at once, for `Trials` trials.

| TLA+ | code |
|---|---|
| `phase[p]` | where the main thread is: before a trial, joining the threads of a phase, or through; `dead` after a wrong slot |
| `threads[p]` | the threads of the phase with the rounds they have left |
| `chan[p][q]` | messages from p to q, in the order sent (module `FifoPipe`) |
| `recvPay`, `sum` | `recvPayLoads`, `sendPayLoads[ttParties]` |
| `output` | the leader's intersections, one for each trial |

The actions of the main thread are `BeginTrial`, `InitDone`, `OprfDone`,
`ShareDone`, `LeaderDone` and `Finished`; each joins the threads of a phase and
starts those of the next. `RunRound` lets a thread wait for one message, if its
round awaits one, and send one, if it replies. The rounds are those of
`OPPRFSender`/`OPPRFReceiver` in both directions: base OT points and keys, IKNP
matrices, KKRT corrections, share tables.

Abstractions: the chunks of 16 bins, and the matrices of one OT extension, are one
message each, since both sides loop over the same number of them. A 128-bit block
is the set of random atoms whose XOR it is, so two independent blocks never
collide (the code accepts a collision with probability 2^-40). The OPPRF is ideal:
the programmed value for an item of the sender, fresh randomness for another.
Items are the data of both the payloads and the bins; hashing is in `Hashing`, what
the pairwise functions really exchange in `OprfSessions`. `Usable(n, t)` excludes two parties with t = 0, where the one client
would have to be its own neighbour.

### IdealPsi

The promise of the whole protocol: every trial outputs the intersection.

### Hashing

One call of `binSet::hashing2Bins`. The threads share out the items by index; each
puts a batch into the simple bins (`InsertSimple`), then works on the cuckoo
bins with the arrays of `CuckooHash::Workspace`.

| TLA+ | code |
|---|---|
| `case` | the call: items, threads, `mOpt`, the hash values, `mBinCount` of both tables |
| `simple`, `cuckoo`, `mStashIdxs` | the bins, normal ones before stash ones, and what did not fit |
| `w[t]` | `curInputIdxs`, `curHashIdxs`, `oldVals` and `tryCount` of `insertBatch` |
| `pc[t]` | where a thread is: `Read` and `Write` are the two halves of `exchange` of one bin, `Again` the compaction of what was evicted, `EndBatch` and `EndStash` the ends of the loop |
| `insertRemaining`, `insertStashRemaining` | the countdowns of the two barriers, `Arrive`, `Pass`, `ArriveStash`, `PassStash` |
| `roomy` | bins whose result vectors were resized by the last loop |
| `raced` | two threads have been inside `exchange` on one bin, or inside the resize of `mOprfs`, at a time |

`THREAD_SAFE_CUCKOO` is not defined, so `exchange` reads and writes a bin without a
lock; programs do call `hashing2Bins` with several threads (`OtBinMain.cpp:940`,
`nPSI.cpp:750`, `OPPRF_Tests.cpp:219`). The model lets two exchanges overlap: one of
the items is lost or doubled, and `Conserved` is stated of behaviours in which that
has not happened.

### Steps, Session and the programs

Every protocol function of `libOTe`, `libOPRF` and `libPSI` is straight-line code:
which messages it sends, which rows it touches and whom it waits for depends on
sizes, not on values. It is therefore a sequence of steps, and a function that calls
another one the concatenation of both.

| step | code |
|---|---|
| `Send`, `Lend` | `asyncSend` of a container that moves away, or of a pointer into memory that stays with the caller |
| `SyncSend`, `Close` | `send` and `close`, which return when everything is written |
| `Recv` | `recv` into memory of a fixed length, or into a container |
| `Signal`, `Await` | `set_value` and `get` of a promise, countdowns, start and join of threads |
| `Read`, `Write`, `Same`, `Locked`, `Free` | rows of shared memory: read, stored, stored with a value all threads agree on, stored under a lock, destroyed |

`Session` runs one program for each thread of each party over ordered channels
(`wire`), which is what `BtSocketIO` shows of the network. `Post`, `Take`, `Flush`,
`Tell`, `Wait`, `Touch` and `Release` are the steps; `filled` holds the cells
with a value, `tally` how often each promise was signalled.

- `OtSessions`: Naor-Pinkas with its helper threads, IKNP, KOS, LzKos, KosDot (rows
  in super blocks, messages of several super blocks, the check over all rows and
  the extra ones), KKRT (encoding, corrections by pointer), OOS, and the cut and
  choose of AKN.
- `OprfSessions`: `init`, `getOPRFkeys`, `sendSS` and `recvSS` of `OPPRFSender` and
  `OPPRFReceiver` in one and in both directions, in loops of `stepSize` bins, with
  table, polynomial (per bin or per hash) and Bloom filter hints and plain values.
- `PsiSessions`: Beta, Dcw, DcwR, DKT and Rr16, one thread for each channel. Rr16
  posts the receive of a commitment before its OTs and waits for it after them
  (`RrPosted`, a thread that ends with the future); receives that are posted behind
  it on the channel come after it (`Meanwhile`).
- `PartySessions`: `party`, `party3`, `aug_party`, `user_server` and `party2`: one
  thread for each other party in each phase.
- `SessionCases` puts the programs together the way the callers and unit tests do.
- `Orders` derives from the programs of a case which steps come before which in
  every run: a thread takes its steps in turn, an `Await` comes after each signal
  without which there are too few (`Awaited`), and a chain of these orders the sends
  and the receives of a direction, if the threads that share it take turns
  (`InLine`). Then the number of a send in its direction (`Rank`) says which receive
  gets its message (`Pairs`), and a `SyncSend` comes after the receives of everything
  sent before it (`Flushed`). `Waits` are chains of waits only, `Links` of all three
  kinds; `Ordered` says that a step is taken before another is reached. On these rest
  the conditions of the theorems below, which name no state.

Abstractions: what an OT, a polynomial, a filter or a check computes is not seen,
nor draws from the generators. A row is one cell, whatever its width; a length counts
blocks or rows, enough to see two sides of a loop disagree. A receive
takes its message only if the length fits: otherwise the io service drops it (see
`bt_mismatch`). In `PartySessions` the pairwise functions of three parties are
cut down to the messages that open each phase, with the full ones in `party2`;
setting up and stopping connections is in `Lifecycle`. Loops that start one
thread and join it at once are written in line.

## 4. What the runs check

| run | question | bounds |
|---|---|---|
| `bt_any` | any two programs of up to 2 calls each, of every kind | `MaxCalls` 2, one message length, 2 parts in the kernels |
| `bt_matching` | programs that match call by call, and programs that exchange batches: do both ends finish and nobody die? | `MaxCalls` 2 steps (up to 4 calls in an exchange), kernels buffer 1 part |
| `bt_mismatch` | does a receive of the wrong length throw? | one call each, lengths 1 and 2 |
| `tparty_small` | one whole trial with base OTs, all interleavings, with liveness | n = 2, 3 with every t and every set of holders of one item; n = 4, t = 1 with all holding it |
| `tparty_trials` | do consecutive trials give the right outputs with parties a trial apart, and previous, next and dual partners at one client? | n = 4, every t, held by all or all but one; n = 5, t = 2, held by all but client 1; 2 trials, without base OTs |
| `life_many` | are two hosts on one port with equal channel names kept apart, do names lead sockets to their counterparts, and does everything shut down, whatever the order? | two services, four endpoints, a channel and a thread each |
| `life_faulty` | what survives faults, lost lookups and an early `stop`? | two endpoints, two channels with crossed names, one thread each; growth at size 2 |
| `life_early` | does `BtIOService::stop` wait for the endpoints? | as `life_faulty` without faults, stop at any time |
| `session_all` | do all protocol functions fit their counterparts, messages, memory and threads? | the cases of `SessionCases`, below |
| `session_points` | does DKT wait for the threads it gives pointers to? | two channels, three items |
| `hash_all` | are items neither lost nor doubled, do both tables agree, does the call end? | 4 items, 5 + 2 bins, batches of 2, 4 rounds; 1, 2 and 6 threads |
| `hash_index` | is an item decoded with the hints made of its own bin? | as `hash_all` |

`bt_any` checks the queues (`QueueDriven`), order and integrity
(`FifoDelivery`, `ImplementsPipe`), closing (`CleanClose`), lifetimes
(`StackPromiseAlive`, `SendFlushes`) and the counter of outstanding bytes
(`OutstandingExact`). Two calls and the close give three operations on a queue,
one in progress, one queued and one still on the strand, which is every
combination the start conditions distinguish. One part per header and body with
capacity 2 lets a message be wholly or half in the kernel; capacity 1, in
`bt_matching`, blocks a writer between header and body.

`bt_mismatch` is a violation: the code passes `std::current_exception()`
outside a catch block, so the promised exception is empty and `recv` returns
normally.

The `life` runs take their programs from `src/libPSI_Tests/BtChannel_Tests.cpp`
and `tparty`, scaled down to two channels at an endpoint, or two endpoints at a
port: enough for one to be handed over, added or closed while the other is in any step,
for an acceptor to be accepting while another handshake is under way, and for the
last close and the close before it to meet `stop`. `life_many` checks that a
socket goes where its names say (`ImplementsRendezvous`), that open channels have
io threads (`ServedWhileOpen`), that no promise is kept twice and no deleted
acceptor used (`NeverTerminated`) and that all calls return (`AllDown`). Each channel
has a thread of its own there, so `AllDown` says nothing of programs that add their
channels one after the other in orders that do not fit (`BtEndpoint.cpp:94`): a
cycle of such waits takes three parties, which is too many for this model.
`life_faulty` checks that a channel is freed by its own close (`InUseKept`),
that the promise of `Endpoint::stop` means an empty endpoint (`DoneMeansEmpty`)
and that no handler outlives its acceptor (`NoOrphans`).

`life_early` is a violation: `stop` gives the worker up before it waits for the
endpoints, so the io threads return while idle channels are open, the
operations of a later `close` are never run, and `stop` waits for ever. With the
endpoints stopped first, as `life_many` does, it returns.

Three defects are in the model but kept out of the runs whose properties they
break, by empty `Faults` and `Growth`: a connection reset before its names, or
whose names come in two reads, is not dropped (`BtAcceptor.cpp:103` and `:113`
continue if there is no error *or* the count is wrong), and a lookup that
misses its entry leaves `addChannel` waiting for ever. Two more uses are
excluded by assumptions: names used a second time (`MatchingAssumption`), and two channels
of an endpoint with one local name, of which `removeChannel`, which compares only
that, may free the wrong one (`LocalNamesAssumption`). `CutAssumption` says that what
is left of a message with names is no channel's name.

The `tparty` runs check that no party dies (`NoCrash`), that threads keep to their
own channel and payload (`ThreadsDisjoint`), that a thread never reads a message
meant for another step though nothing in the message says so (`KindsMatch`),
that the corrections KKRT sends by pointer are read before their owner frees them
at the end of a trial (`CorrectionsDelivered`), that the outputs are the
intersections (`ImplementsPsi`) and that all finish (`AllFinish`). One item is
enough because items do not interact: the payload of an item depends on its
holders only. Three parties have the smallest ring, whose two clients are dual
partners; with four, t = 1 has a previous and a next one and no dual, t = 2 only
dual ones and a dual area that wraps around; five with t = 2 is the first with all
three kinds. An item held by all, or by all but one, are the cases closest to a
wrong answer. `tparty_trials` checks `ImplementsPsi` and for deadlock; in
`tparty_small` `AllFinish` takes its place. That `KindsMatch` holds across trials
too is proved.

`session_all` runs every program to its end in every interleaving of its threads. It
checks that a receive gets the message meant for it, in the length it asks for
(`RightMessage`), that nothing is left over (`Drained`), that memory lent to the
network is not touched before it is written (`BuffersKeptElsewhere`), that what a
thread reads has been computed and waited for (`FilledElsewhere`), that two threads
never touch one row at a time unless both read it or store the same
(`NoRaceElsewhere`), that the seed of a check is sent after all that it is to check
(`ChallengeLast`), and that all functions return (`AllReturn`). `InOrder` says of each
case of which a step is taken that it meets the conditions of the theorems of `Session_proofs`, with the same
exceptions as below, so the theorems apply to the programs of the repository;
`Level` in `MCSession` gives the levels for `Grounded`. The sizes are the
smallest at which the loops have their cases: blocks of 2 rows, super blocks of 2,
messages of 2 super blocks, with row counts below one super block, exactly
one, and more than one message; bins with none, one and two entries, more than one
chunk of bins, and a stash; 3 items for 2 threads, so that shares are unequal; 2
threads a channel pair; 3 parties, the smallest ring, with 2 trials where one trial
could meet the next (`party`, the largest, and `user_server` have one).

Three properties are stated of all cases but some, which break them in the code:
`AknBfMPsiSender` (Rr16), and Beta with base OTs given by its caller, lend variables of
`init` and may return before they are written out; Rr16 with two channels hashes all
items into one buffer; DKT with two channels hands out pointers to local points.
The last is `session_points`, a violation: the test of DKT uses two channels and
asks for the whole intersection, and thread 0 may end before the other has copied the
points. The other two contradict no statement of the repository and are listed as
hazards.

Two things are outside the cases. The AKN sender waits for ever if nothing is
opened in the range of a thread (section 6); the samples open something in each. And
Beta runs with one channel, so a barrier of two threads (`OtBinMPsiSender.cpp:340`) is met
in the programs of Dcw and Rr16 only.

`hash_all` checks that each item is at exactly one place while it is evicted,
carried and stashed (`Conserved`), that the simple bin of the same number lists it
(`Counterpart`), that every used bin has room for its results (`RoomForResults`)
and that no thread stays at a barrier (`Ends`). Five kinds of hash rows collide in
all ways: four items with equal rows overflow three bins and fill the stash, and
with equal stash rows overflow that too, which ends the process. More threads
than items give empty ranges, a batch of 2 gives a thread two batches.

`hash_index` is a violation: for polynomial and Bloom filter hints the sender files a
value under the first hash that leads to a bin, counting those of the stash after the
others, while the receiver takes the number of the hash in its own cuckoo bin, which
counts from 0 in the stash and may be a later one. Such an item is decoded with the
hints made of other values.

Deadlock is not checked in the `bt` runs: both ends stop after `close`, and programs
that do not match block for ever by design.

Fairness of `bt_matching`: each user thread, each strand and each chain of
completions is weakly fair. The io_service has worker threads that take any ready
handler, and strands are FIFO, so a handler that stays ready is run. Failures and
resets are not fair.

Fairness of the `life` runs is that of the whole system: some step is taken while
one can be. It is enough because each step can be taken only a bounded number of
times, so no actor can be passed over for ever: while it can go on, the behaviour
cannot end, and it cannot be infinite without it. Two kinds of step are choices in
the code: the calls of `close` and `stop`, which programs of the repository always make.
Deadlock is checked in `life_many`; in `life_early` `AllDown` takes its place, and in
`life_faulty` a dead process stops.

Fairness of the `session` and `hash` runs is of the same kind: a program is a finite
sequence, and the steps of a hashing thread are bounded by its batches and rounds, so
an unfair scheduler could only stop altogether. `AllReturn` and `Ends` say that there
is then always a step, which takes the place of the check for deadlock.

Fairness of `tparty_small`: the main thread of each party, and its protocol
threads together, are weakly fair. They are system threads that only wait for
messages, which arrive, and for joins; a thread has finitely many rounds and a phase
waits for all of them, so fairness to their union runs each one to its end.

## 5. What is proved

### The channel

`BtSocketIO_proofs` and `BtUser_proofs`, for every set `Plans` of programs and every
`WireCap` > 0 (`PlansAssumption`, `WireCapAssumption`): `TypeCorrect`,
`QueuesDriven`, `FifoDelivered`, `ClosesClean`, `PromisesAlive`, `SendsFlush`,
`PipeImplemented`, `OutstandingCounted` and, for balanced programs, `NeverFails`. The invariants come in layers, each proved with the ones below it,
with one lemma for each action:

1. `CoreInv`. `QueueDriven` is not inductive alone: a push behind a close on the
   queue, or a close reached by a pop with something behind it, would leave a queue
   non-empty and idle, because `sendOne` starts nothing after a close.
   `SendCloseLast` and `RecvCloseLast` add that a close is the last operation of its
   side, in the strand, in the queue, and once its promise is kept.
2. `FifoInv`. The operations of a side are numbered consecutively through strand,
   queue and what was popped (`SendChain`, `RecvChain`), so are the two parts of each
   message through the kernels to the reader (`WireChain`), and each carries the
   length of its message (`SendSizes`, `HeaderRead`). Hence the part a read finds is
   the one it needs, which is `FifoDelivery`; and a close that reached the front of
   both queues has everything behind it, which is `CleanClose`.
3. `StackInv`. A send whose write has not completed is unfulfilled, and a synchronous
   one is the last of its thread, which waits for it. So its promise, on the stack of
   `send()`, is there, and nothing is left of it once `send()` returns.
4. `PlanInv`: what an end has still to do is the end of one of the `Plans`. It is what
   the refinement needs: `Ideal` is `FifoPipe` with `sent`, `got` and the ends
   that are closed, and every action but `Send`, the completion of a receive
   and the end of `close` is a stutter.
5. `OutstandingInv`: `OutstandingExact`, and that a close carries no bytes, as its
   pop charges nothing. The bytes of a queue are a recursive function of a
   length (`BytesUpTo`). The induction theorems of the library cannot be used, so each
   induction is an argument about a least counterexample, which exists because `<` on
   the naturals is well-founded (`Smallest`): the function meets its equation
   (`BytesCounted`), depends on the sizes alone (`SameSteps`), and a push adds and a
   pop takes off one size (`BytesOfMore`, `BytesOfRest`).
6. `MatchInv`, if in each of the `Plans` an end receives as many messages as the other
   sends (`Balanced`, which says nothing of their order and lengths). What an end has
   sent and will send is what the other has received and will receive (`Count`). A
   close is numbered behind all sends and, once fulfilled, all of them were popped.
   So when an end is closed nothing of its peer is unread (`NothingUnread`), and a
   read still to come finds its part on the wire (`ReadSucceeds`). The
   hypothesis is what `MatchingAssumption` evaluates for the programs of
   `bt_matching`. Programs that are not balanced do fail, as `bt_any` has them.

### The lifecycle

`Lifecycle_proofs`, for any services, endpoints, channels and programs that satisfy
the assumptions of the module: `TypeCorrect`, `ChannelsKept`, `DoneWhenEmpty`,
`AcceptorsUnused`, `ChannelsServed` (if `Stops` is not "early"), `NeverPunished`
(if `Growth` and `Faults` are empty) and `PairsConnected`. All but one rest on
`LifeInv`. Its parts need each other:

- `ConnectionInv`: a connection is in the backlog, accepted or in a handshake, at one
  place only; without it a socket could be filed twice.
- `FiledInv`: an entry of `mSocketPromises` holds a socket whose names are the tag it
  is under (or what was left of them); this makes a socket go to its counterpart.
- `SlotInv`: who was told that an entry is there finds it, and an added host has
  the socket filed under its tag.
- `ListInv`: the list of an endpoint is exactly its channels in use, each found by
  its name.
- `DoneMeansEmpty`, `StopInv`, `AcceptorInv`: the order of the shutdown, from the
  channels through the endpoints and acceptors to the io threads.

`NeverPunished` adds `OnceInv`: without faults and lost lookups a tag has one
entry, and only its host takes the future. With faults or growth the statement is
false, which is why the two hypotheses are there. `PairsConnected` maps `Lifecycle` to
`Rendezvous`: connected clients, hosts with their sockets, and who is leaving.

### The multi-party protocol

`Roles_proofs`, for every n and t with `Usable(n, t)`: every slot has exactly one
thread (`SlotsFilled`), a client has one thread for each peer (`OnePerPeer`), the
two sides of a pair have opposite roles (`RolesMatch`), and each payload is
received by one thread (`PayloadsApart`, `PayloadsFilled`). The argument: on the ring
a remainder is at most one subtraction (`ModRing`), so the neighbours and the ends
of the dual area have closed forms, and the neighbour at distance k + 1 is dual iff
k + 1 + tSS >= nSS, seen from either side (`DualNext`, `DualPrev`). Hence the threads
of a client are a function of the slot (`ThreadAt`, `ClientThreadsAt`) from which
the theorems are read off.

`TParty_proofs`, for every `Inputs` and `Trials` (`InputsAssumption`,
`TrialsAssumption`), hence for every n, every t and every sets:

- `NeverDead` and `ThreadsApart` (`NoCrash`, `ThreadsDisjoint`) follow from
  `SpecInv`: the threads of a party are threads of its phase with some suffix of
  their rounds, at most one for each slot, and awaiting a share only in a receiving
  role. `ThreadsDisjoint` alone is not inductive: it says nothing of where the threads
  of the next phase come from, nor of what a round leaves to await.
- `TypeCorrect` (`TypeOK`) from `SpecType`, with `TrialInv`: blocks are made of atoms of
  the trials so far, and the leader has an output for each trial it ended.
- `SpecFlow`: `FlowInv` is an invariant. For two parties that talk, the kinds
  on the way followed by what the sender has still to send are what the receiver has
  still to read, up to one full trial, and neither is more than a trial ahead. It rests
  on two facts about the roles: two sides of a pair have opposite roles
  (`RolesMatch`), and for opposite roles what one side sends in a phase is what
  the other reads in it (`PairStreams`), although the phases themselves are
  entered at different times.
- `KindsMatched` (`KindsMatch`): the first message on the way is the first kind awaited,
  which `FlowInv` says for two parties in one trial, and for a party one trial behind as
  well.
- `CorrectionsSafe` (`CorrectionsDelivered`): a party that has joined the threads of
  its last phase awaits nothing, so by `FlowInv` its peers have sent all they send in
  this trial, and a party sends its last message only after it has read all
  corrections (`SentAll`). For a peer that has gone on to the next trial, `WaitInv`
  says that nothing of the trial before is left.

`TPartyPsi_proofs`, under the same assumptions: `PsiImplemented`
(`ImplementsPsi`), each trial outputs the intersection. The outputs say nothing of how
they come about, so the invariant, `ValueInv` in `TParty` (`ValuesKept`), follows the
shares from where they are drawn to the leader. TLC checked it on three and four
parties before it was proved. Its parts:

- `SumInv`: until its share phase is joined, the sum of a client is what it dealt for each
  item, and after that, for each item it holds, its `Total`: what it dealt and what it
  was given.
- `ShareInv`: a share on the way is the one of the trial in which it is read, and is
  under way to a party that is a trial behind only if that party still awaits it.
- `RecvInv`: a thread that awaits no share any more has filled its payload with what
  `Given` says its peer gives: what that peer programmed if it holds the item, and
  otherwise an OPPRF atom.
- `SendInv`: a thread that has yet to send a share sends one it deals to its peer, or, as a
  client in the last phase, the sum to the leader.

`ShareInv` needs `FlowInv`: a share is read in the trial it was sent for only because
nothing of another step or trial comes before it. When the leader adds up what it
received for an item of its own, it adds up what the clients gave. If all parties hold
the item, that is the totals of the clients, and each share occurs in exactly two of
them: in that of the client that dealt it and that of the client it was dealt to
(`Roles_proofs`: opposite roles, one payload for each peer); so nothing is left. If a
client does not hold it, an OPPRF atom of that client, drawn for the leader or for
a client it deals to, occurs once; so something is left.

### Hashing

`Hashing_proofs`, for every number of items, sizes, hash values and threads
(`SizesAssumption`, `CasesAssumption`): `TypeCorrect`, `RoomMade`,
`CounterpartListed`, `ItemsConserved` and `AloneConserved`. The invariant is `IInv`,
the conjunction of six at the end of `Hashing`, each proved with those before it:

1. `TypeInv`: what a thread has in its hand fits its place in the loop. It has read
   as many bins as it is done with, each with a hash index of the tables it works on.
   `FromCovers` and `FromApart`: the parts `t * m / threads` of the threads cover
   the numbers below `m` and do not overlap.
2. `BarrierInv`: each countdown is the number of threads that have not passed it,
   so it neither wraps nor opens early. Behind the first barrier all items are
   inserted and only thread 0 has a stash in its hand; behind the second nobody
   writes bins any more, and the two tables have the same size.
3. `RoomInv`: the bins of a thread at its end have their room, which stays true as
   the bins do not change any more. When all have ended, the parts cover all bins.
4. `SeenInv`: everything in the cuckoo bins, in a hand or in the stash has been
   listed in the simple bins, and each cuckoo bin is one that its item hashes to with
   the index it holds. So the item has an entry there, the one of its least index.
5. `ExchangeInv`: before a race, a bin holds at the write what was read from it.
6. `PlaceInv`: before a race, the places of an item are a set of one. `Moved` reduces
   each action to what thread t can reach (`Here`): the action either leaves the
   places of an item or moves its only one. `Again` and `EndBatch` need that `Evicted`
   returns the entries that were not empty one to one (`EvictedListed`). That is
   induction over the places of a batch; it goes through the least-number
   principle (`LeastNat`), obtained from the well-foundedness of inclusion of finite
   sets, as an induction theorem cannot be cited here.

`Conserved` supposes that no two threads have been inside one exchange at once, which
the code does not prevent. `AloneConserved` removes that for calls with one thread.

### The protocol functions

`Session_proofs` is about any cases and programs whose steps are of the kinds of
`Steps` (`FiniteAssumption`, `StepAssumption`). It shows that conditions on the
programs, in `Orders`, make each property of `Session` true in every interleaving.

| theorem | condition on the programs | property in every run |
|---|---|---|
| `TypeCorrect` | `Sized`: no negative lengths | `TypeOK` |
| `MessagesRight` | `InLine`, and `Matched`: the nth send and the nth receive of a direction agree | `RightMessage` |
| `NothingLeft` | `Balanced`: as many receives as sends | `Drained` |
| `ChallengesLast` | `InLine`, and `Committed`: by `Links`, the commitment comes first | `ChallengeLast` |
| `BuffersSafe` | `InLine`, and `Spared`: a store to lent memory comes before the send, or after the receive | `BuffersKept` |
| `ReadsFilled` | `Supplied`: each read waits for a store, and frees wait for the read | `FilledBeforeUse` |
| `RaceFree` | `Guarded`: of two conflicting accesses one waits for the other | `NoRace` |
| `NeverStuck` | `InLine`, `Matched`, and `Grounded`: there are levels such that each step waits for lower ones only | `GoesOn` |

`BuffersSafeElsewhere`, `ReadsFilledElsewhere` and `RaceFreeElsewhere` state three of
them with the exceptions of section 4 (`LentCases`, `PointCases`, `SharedCases`): if
every case is `Orderly`, which `InOrder` checks, then the properties that
`session_all` checks hold in every run.

The invariant is `OrderInv` (theorem `Invariance`), the conjunction of:

1. `TypeInv`, which also says that every message under way is one that some send of
   the case sends.
2. `CountInv`: promises and directions hold exactly what the counters of the threads
   say: as many signals as such steps were taken, and as many messages as sends
   without a receive. Without it, a wait that is over would say nothing about
   who signalled.
3. `WaitInv`: no one is past an `Await` with a signal missing that it cannot do
   without: the remaining ones would be too few (`CountInv`, and cardinalities).
   `JoinedFollowed` extends this to chains.
4. `TurnInv`: the jth message under way is that of the send whose rank is j more than
   the number of receives so far, less one. With `RankHere` (the rank of the next
   step of a direction is the number of those over) and `RankPast`, it tells which
   message a receive gets, although messages carry no tag.
5. `FlushInv`: a `SyncSend` returns on an empty direction, so the receives of what was
   sent before it are over (`RankFuture`).
6. `StoreInv`: what was stored is there, unless a thread freed it that the storing one
   did not wait for.

`NeverStuck` takes the threads that have not returned and, of the levels of
their next steps, a least one (`Smallest`). Everything lower is over
(`StillToCome`), so what the step waits for is there (`LowestReady`). That a thread
can go on as long as one has not returned is what `AllReturn` needs besides fairness
and the finiteness of programs; that step is left to TLC.

The conditions are about finite sets of steps, and `InOrder` evaluates them for all
cases of `SessionCases`. They fail exactly where the code is wrong or needs its
caller's help: `Spared` for Rr16 and for Beta with base OTs from its caller, `Guarded`
for Rr16 and DKT with two channels, `Supplied` for DKT with two channels. What TLC
then adds for the other cases is a check of the argument; what the theorems add is
that the conclusions depend on nothing but these orders.

### What is only model-checked

The conditions of `Session_proofs`, for the sizes of `SessionCases` (`InOrder`): to
prove them for every size takes an induction over the program of each function. And
the liveness properties (`BothClose`, `AllReturn` and the others), which are out of the
prover's reach.

## 6. What is not modelled

Cryptographic strength, timing and formatting are out of scope for good, and so are
the primitives, the containers and the command line. Of the protocols, what a function
computes from its rows is not modelled: the algebra of the OT extensions and their
checks, the group of Naor-Pinkas and DKT, interpolation and the garbled filter, and
the search for bit positions that tell the OPRF values of a bin apart (`BaseOPRFs`),
whose data is 128-bit blocks. Beta with several channels is left out: `init` leaves
OT objects unset there, its batches overrun, and nothing calls it so. The MPSC queue
has no user, and `insert` and `find` of `CuckooHash` no caller.

Of modelled components are left out: `resetStats` and a second user thread of a
channel; a refused bind, a second start of an endpoint and names used twice;
lengths above 32 bits. No program of the repository does any of these.

Disagreements met while modelling that are not findings, as no statement of the
repository contradicts them: the AKN receiver sends its choice buffer only if it is
not empty (`AknOtReceiver.cpp:186`) while the sender always receives one;
on a permutation that is not valid Rr16 keeps a promise twice, which throws
(`AknBfMPsiSender.cpp:226` and `:233`; the outcomes of all checks are left out);
`random_shuffle` at line 248 there shuffles an empty range; in DKT the receiver
makes the points of every item of `inputPoints.back()` (`DktMPsiReceiver.cpp:208`), a
value the model does not see; the leader of `party` uses the object of another pair (`OtBinMain.cpp:614`); and two runs
of `user_server` at a time share their generators.
