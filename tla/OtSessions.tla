----------------------------- MODULE OtSessions -----------------------------
(***************************************************************************)
(* The oblivious transfer protocols of libOTe as programs of steps: the    *)
(* base OTs of Naor and Pinkas, the extensions IKNP, KOS, LzKos and KosDot *)
(* (1 of 2), KKRT and OOS (1 of N) and the cut and choose of AKN (k of N). *)
(* What is kept of the data is which rows of which array a function reads  *)
(* and stores, in which order relative to its messages, and how long these *)
(* are.                                                                    *)
(***************************************************************************)
EXTENDS Steps, FiniteSets

CONSTANTS blkSize,          \* rows of a block, 128 in the code
          superBlkSize,     \* blocks of a super block, 8 in the code
          commStepSize,     \* super blocks of one message, 512 in the code
          statSecParam,     \* rows that OOS opens, 40 in the code
          byteSize,         \* bits of a byte
          choiceBuffSize    \* bits that AKN opens in one message, 4096 in the code

OtAssumption ==
  /\ {blkSize, superBlkSize, commStepSize, statSecParam, byteSize, choiceBuffSize}
       \subseteq Nat \ {0}
  /\ blkSize % byteSize = 0 /\ choiceBuffSize % byteSize = 0
ASSUME OtAssumption
-----------------------------------------------------------------------------
(* Naor-Pinkas: n base OTs on channel c, with numThreads helpers each.     *)

\* Bug: the rows that are left over belong to nobody.
EqualShares(t, n, numThreads) == t * (n \div numThreads)

\* The range of n rows that thread t of numThreads works on
Start(t, n, numThreads) == (t * n) \div numThreads
Share(array, t, n, numThreads) ==
  Cells(array, Start(t, n, numThreads), Start(t + 1, n, numThreads))

NpName(c, role) == <<c.me, role, c.tag>>
Local(c, name) == <<c.me, name, c.tag>>

\* A receive that was posted, and for which threads wait with its future
AsyncRecv(c, role, kind, n) ==
  Await(Append(NpName(c, role), "go"), 1)
    \o Recv(c, kind, n) \o Write(Cells(NpName(c, role), 0, n)) \o Signal(Append(NpName(c, role), "recvFuture"))

NpReceive(c, n, numThreads) ==
  LET r == NpName(c, "npReceive") IN
  Launch(r) \o Await(Append(r, "PK0Prom"), numThreads)
    \o Read(Cells(Local(c, "sendBuff"), 0, n)) \o Send(c, "PK0s", n)
    \o Join(r, numThreads)

NpReceiveThread(c, messages, n, numThreads, t) ==
  LET r == NpName(c, "npReceive") IN
  Thread(r, Await(Append(r, "recvFuture"), 1) \o Read(Cells(r, 0, 2))
              \o Write(Share(Local(c, "sendBuff"), t, n, numThreads))
              \o Signal(Append(r, "PK0Prom"))
              \o Write(Share(messages, t, n, numThreads)))

NpSend(c, n, numThreads) ==
  LET r == NpName(c, "npSend") IN
  Write({Cell(Local(c, "pC"), 0)}) \o Send(c, "C", 2) \o Write({Cell(Local(c, "pC"), 0)})
    \o Launch(r) \o Join(r, numThreads)

\* Every thread computes every message, not a share of them.
NpSendThread(c, messages, n) ==
  LET r == NpName(c, "npSend") IN
  Thread(r, Read({Cell(Local(c, "pC"), 0)}) \o Await(Append(r, "recvFuture"), 1)
              \o Read(Cells(r, 0, n)) \o Same(Cells(messages, 0, n)))

\* The helpers of both calls, as programs to be added to those of a case
NpReceiveHelpers(c, messages, n, numThreads) ==
  [t \in {Append(NpName(c, "npReceive"), i) : i \in 0 .. numThreads} |->
     IF t[4] = numThreads THEN AsyncRecv(c, "npReceive", "C", 2)
                          ELSE NpReceiveThread(c, messages, n, numThreads, t[4])]
NpSendHelpers(c, messages, n, numThreads) ==
  [t \in {Append(NpName(c, "npSend"), i) : i \in 0 .. numThreads} |->
     IF t[4] = numThreads THEN AsyncRecv(c, "npSend", "PK0s", n)
                          ELSE NpSendThread(c, messages, n)]
-----------------------------------------------------------------------------
(* Extensions that turn base OTs into OTs for rows lo .. hi - 1 of an      *)
(* array, a super block of rows at a time.                                 *)

Blocks(n) == RoundUp(n, blkSize) \div blkSize
Rows == blkSize * superBlkSize

\* Super blocks of the passive protocol; the others have room for the rows
\* that the consistency check opens, and so one more when it is needed.
IknpSuperBlocks(n) == (Blocks(n) + superBlkSize - 1) \div superBlkSize
KosSuperBlocks(n)  == (Blocks(n) + superBlkSize) \div superBlkSize

\* Rows of the messages in super block k, and of the extra blocks behind them
RowsOf(array, k, lo, hi, pass) ==
  {[cell EXCEPT ![5] = pass] : cell \in Cells(array, lo + k * Rows, Least(lo + (k + 1) * Rows, hi))}
Behind(x) == Least(blkSize, IF x < 0 THEN 0 ELSE x)
ExtraOf(extra, k, lo, hi, pass) ==
  {[cell EXCEPT ![5] = pass] : cell \in Cells(extra, Behind(k * Rows - (hi - lo)), Behind((k + 1) * Rows - (hi - lo)))}

Message(step, cols) == step * superBlkSize * cols
Extra(array, lo) == <<array[1], "extraBlocks", Append(array[3], lo)>>

\* A pass over a group of columns transposes the rows of super block k;
\* those behind the messages are the extra blocks.
Transposed(array, k, lo, hi, pass) ==
  Write(RowsOf(array, k, lo, hi, pass) \cup ExtraOf(Extra(array, lo), k, lo, hi, pass))

SenderRows(c, array, lo, hi, numSuperBlocks, stepSize, cols) ==
  Loop(0, numSuperBlocks, LAMBDA k :
    When(k % stepSize = 0, Recv(c, "u", Message(Least(numSuperBlocks - k, stepSize), cols)))
      \o Loop(0, cols, LAMBDA pass : Transposed(array, k, lo, hi, pass)))

\* The buffer of u goes out when its last super block is complete.
ReceiverRows(c, array, lo, hi, numSuperBlocks, stepSize, cols) ==
  LET first(k) == (k \div stepSize) * stepSize
      step(k)  == Least(numSuperBlocks - first(k), stepSize)
      Full(k)  == k + 1 = first(k) + step(k) IN
  Loop(0, numSuperBlocks, LAMBDA k :
    Loop(0, cols, LAMBDA pass :
      When(pass = cols - 1 /\ Full(k), Send(c, "u", Message(step(k), cols)))
        \o Transposed(array, k, lo, hi, pass)))

\* All rows of all passes: what the hash, the check and the caller read
AllRows(array, lo, hi, cols) == {[cell EXCEPT ![5] = p] : cell \in Cells(array, lo, hi), p \in 0 .. cols - 1}
Checked(array, lo, hi, cols) ==
  Read(AllRows(array, lo, hi, cols)) \o Read(AllRows(Extra(array, lo), 0, blkSize, cols))

\* The check of KOS: the receiver commits itself to a seed before it sends
\* anything, both reveal their seeds, and the receiver proves its rows right.
TheSeed(c, array, lo) == {Cell(<<c.me, "seed", Append(array[3], lo)>>, 0)}
SenderCommit(c, array, lo) == Recv(c, "commit", 1)
ReceiverCommit(c, array, lo) == Write(TheSeed(c, array, lo)) \o Lend(c, "commit", 1, TheSeed(c, array, lo))
\* Bug: the seed is a local of the block that sends it.
FreesEarly(c, array, lo, hi, cols) ==
  Write(TheSeed(c, array, lo)) \o Lend(c, "seed", 1, TheSeed(c, array, lo)) \o Free(TheSeed(c, array, lo))
    \o Recv(c, "opening", 1) \o Checked(array, lo, hi, cols) \o Recv(c, "correlation", 3 * cols)
SenderCheck(c, array, lo, hi, cols) ==
  Write(TheSeed(c, array, lo)) \o Lend(c, "seed", 1, TheSeed(c, array, lo)) \o Recv(c, "opening", 1)
    \o Checked(array, lo, hi, cols)
    \o Recv(c, "correlation", 3 * cols) \o Free(TheSeed(c, array, lo))
ReceiverCheck(c, array, lo, hi, cols) ==
  Recv(c, "seed", 1) \o Send(c, "opening", 1)
    \o Checked(array, lo, hi, cols)
    \o Send(c, "correlation", 3 * cols) \o Free(TheSeed(c, array, lo))

IknpSendRows(c, array, lo, hi) ==
  SenderRows(c, array, lo, hi, IknpSuperBlocks(hi - lo), commStepSize, 1)
IknpSendHash(array, lo, hi) == Read(AllRows(array, lo, hi, 1))
IknpReceiveRows(c, array, lo, hi) ==
  ReceiverRows(c, array, lo, hi, IknpSuperBlocks(hi - lo), commStepSize, 1)
IknpReceiveHash(array, lo, hi) == Read(AllRows(array, lo, hi, 1))

IknpSend(c, array, lo, hi)    == IknpSendRows(c, array, lo, hi) \o IknpSendHash(array, lo, hi)
IknpReceive(c, array, lo, hi) == IknpReceiveRows(c, array, lo, hi) \o IknpReceiveHash(array, lo, hi)

KosSendRows(c, array, lo, hi) ==
  SenderCommit(c, array, lo)
    \o SenderRows(c, array, lo, hi, KosSuperBlocks(hi - lo), commStepSize, 1)
KosSendCheck(c, array, lo, hi) == SenderCheck(c, array, lo, hi, 1)
KosReceiveRows(c, array, lo, hi) ==
  ReceiverCommit(c, array, lo)
    \o ReceiverRows(c, array, lo, hi, KosSuperBlocks(hi - lo), commStepSize, 1)
KosReceiveCheck(c, array, lo, hi) == ReceiverCheck(c, array, lo, hi, 1)

\* KosDot has up to 256 columns and transposes them in two passes.
KosDotSendRows(c, array, lo, hi) ==
  SenderCommit(c, array, lo)
    \o SenderRows(c, array, lo, hi, KosSuperBlocks(hi - lo), commStepSize, 2)
KosDotSendCheck(c, array, lo, hi) == SenderCheck(c, array, lo, hi, 2)
KosDotReceiveRows(c, array, lo, hi) ==
  ReceiverCommit(c, array, lo)
    \o ReceiverRows(c, array, lo, hi, KosSuperBlocks(hi - lo), commStepSize, 2)
KosDotReceiveCheck(c, array, lo, hi) == ReceiverCheck(c, array, lo, hi, 2)

\* LzKos sends each super block in a message of its own.
LzKosSendRows(c, array, lo, hi) ==
  SenderCommit(c, array, lo)
    \o SenderRows(c, array, lo, hi, KosSuperBlocks(hi - lo), 1, 1)
LzKosSendCheck(c, array, lo, hi) == SenderCheck(c, array, lo, hi, 1)
LzKosReceiveRows(c, array, lo, hi) ==
  ReceiverCommit(c, array, lo)
    \o ReceiverRows(c, array, lo, hi, KosSuperBlocks(hi - lo), 1, 1)
LzKosReceiveCheck(c, array, lo, hi) == ReceiverCheck(c, array, lo, hi, 1)

LzKosSend(c, array, lo, hi) == LzKosSendRows(c, array, lo, hi) \o LzKosSendCheck(c, array, lo, hi)
LzKosReceive(c, array, lo, hi) == LzKosReceiveRows(c, array, lo, hi) \o LzKosReceiveCheck(c, array, lo, hi)
-----------------------------------------------------------------------------
(* Extensions whose rows are encoded one by one: table is the array of T,  *)
(* of which row i is used for the i-th call of encode.                     *)

Named(table, name) == [table EXCEPT ![2] = name]

KkrtSendInit(table, n) == Write(Cells(Named(table, "mT"), 0, RoundUp(n, blkSize)))
KkrtReceiveInit(table, n) == Write(Cells(Named(table, "mT0"), 0, n) \cup Cells(Named(table, "mT1"), 0, n))

\* The receiver folds its word into the row, and sends the rows from where
\* they are; the sender needs them to evaluate a word of its own.
KkrtReceiveEncode(table, rows) ==
  LET at(name) == CellsAt(Named(table, name), rows) IN
  Read(at("mT0") \cup at("mT1")) \o Write(at("mT1") \cup at("encoded"))
KkrtSendCorrection(c, table, from, count) ==
  Read(Cells(Named(table, "encoded"), from, from + count))
    \o Lend(c, "correction", count, Cells(Named(table, "mT1"), from, from + count))
KkrtRecvCorrection(c, table, from, count) ==
  Recv(c, "correction", count) \o Write(Cells(Named(table, "mCorrectionVals"), from, from + count))
KkrtSendEncode(table, rows) ==
  Read(CellsAt(Named(table, "mT"), rows) \cup CellsAt(Named(table, "mCorrectionVals"), rows))
\* An item that is missing takes a row all the same.
KkrtZeroEncode(table, rows) == KkrtReceiveEncode(table, rows)

\* The objects, and with them what was lent of their rows, are destroyed.
KkrtDestroyed(table, n) == Free(Cells(Named(table, "mT0"), 0, n) \cup Cells(Named(table, "mT1"), 0, n))

\* OOS has statSecParam rows more, for random words that hide the answer of
\* the receiver to the challenge of the sender.
OosRows(n) == RoundUp(n + statSecParam, blkSize)
OosSendInit(table, n) == Write(Cells(Named(table, "mT"), 0, OosRows(n)))
OosReceiveInit(table, n) ==
  Write(Cells(Named(table, "mT0"), 0, OosRows(n)) \cup Cells(Named(table, "mT1"), 0, OosRows(n)))
OosReceiveEncode(table, rows) == KkrtReceiveEncode(table, rows)
OosSendEncode(table, rows) == KkrtSendEncode(table, rows)

OosSeed(table) == {Cell(Named(table, "seed"), 0)}
\* Bug: the challenge goes out before the answer is fixed.
ChallengesFirst(c, table, done) ==
  Write(OosSeed(table)) \o Lend(c, "oosSeed", 1, OosSeed(table))
    \o KkrtRecvCorrection(c, table, done, statSecParam)
OosSendChallenge(c, table, done) ==
  KkrtRecvCorrection(c, table, done, statSecParam)
    \o Write(OosSeed(table)) \o Lend(c, "oosSeed", 1, OosSeed(table))
OosSendSums(table, done) == KkrtSendEncode(table, 0 .. done + statSecParam - 1)
OosSendVerify(c, table) ==
  Recv(c, "tSum", statSecParam) \o Recv(c, "wSum", statSecParam) \o Free(OosSeed(table))
OosSendCheck(c, table, done) ==
  OosSendChallenge(c, table, done) \o OosSendSums(table, done) \o OosSendVerify(c, table)

OosReceiveMasks(c, table, done) ==
  OosReceiveEncode(table, done .. done + statSecParam - 1)
    \o KkrtSendCorrection(c, table, done, statSecParam)
OosReceiveSums(c, table, done) ==
  Recv(c, "oosSeed", 1) \o Read(Cells(Named(table, "encoded"), 0, done + statSecParam))
OosReceiveAnswer(c) == Send(c, "tSum", statSecParam) \o Send(c, "wSum", statSecParam)
OosReceiveCheck(c, table, done) ==
  OosReceiveMasks(c, table, done) \o OosReceiveSums(c, table, done) \o OosReceiveAnswer(c)
-----------------------------------------------------------------------------
(* AKN: total OTs over one channel and thread for each element of chls.    *)
(* The rows in sampled are opened and checked; the others are kept.        *)

\* Bug: two threads meet in the middle of a byte.
NotRounded(t, total, n) == (t * total) \div n
AknStart(t, total, n) == Least(RoundUp((t * total) \div n, blkSize), total)
AknRange(t, total, n) == AknStart(t, total, n) .. AknStart(t + 1, total, n) - 1
\* Bits are stored in bytes; a thread that stores one stores the byte.
Bytes(array, range) == CellsAt(array, {i \div byteSize : i \in range})
\* Bug: the last buffers have a length below zero.
BufferPerBit(opened) == opened
\* Buffers of choice bits that a thread fills and sends
ChoiceBuffs(opened) == (opened + choiceBuffSize - 1) \div choiceBuffSize
Opened(sampled, t, total, n) == Cardinality(sampled \cap AknRange(t, total, n))

AknName(c) == <<c.me, "akn", << >>>>
\* Wait until all n threads have their OTs
AknAllExtended(c, n) ==
  Signal(Append(AknName(c), "extRemaining")) \o Await(Append(AknName(c), "extRemaining"), n)
AknSendRoutine(c, chls, total, sampled, t) ==
  LET n == Len(chls)
      ch == chls[t + 1]
      messages == <<c.me, "mMessages", << >>>> IN
  LzKosSend(ch, messages, AknStart(t, total, n), AknStart(t + 1, total, n))
    \o AknAllExtended(c, n)
    \o When(t = 0, Lend(ch, "cncRootSeed", 1, {Cell(<<c.me, "cncRootSeed", << >>>>, 0)}))
    \o Recv(ch, "choiceBuff", AnyLength)
    \o Write(Bytes(<<c.me, "mSampled", << >>>>, AknRange(t, total, n)))
    \o Loop(1, ChoiceBuffs(Opened(sampled, t, total, n)), LAMBDA i : Recv(ch, "choiceBuff", AnyLength))
    \o Write({Cell(<<c.me, "totalSum", << >>>>, t)})

AknReceiveRoutine(c, chls, total, sampled, t) ==
  LET n == Len(chls)
      ch == chls[t + 1]
      opened == Opened(sampled, t, total, n)
      all(list) == Cells(<<c.me, list, << >>>>, 0, n)
      doneFuture == Await(Append(AknName(c), "remaining"), n) IN
  LzKosReceive(ch, <<c.me, "mMessages", << >>>>, AknStart(t, total, n), AknStart(t + 1, total, n))
    \o (IF t = 0 THEN Recv(ch, "cncRootSeed", 1) \o Write({Cell(<<c.me, "cncGens", << >>>>, 0)}) \o Signal(Append(AknName(c), "cncGenProm"))
                 ELSE Await(Append(AknName(c), "cncGenProm"), 1))
    \o Read({Cell(<<c.me, "cncGens", << >>>>, 0)})
    \o Loop(0, ChoiceBuffs(opened), LAMBDA i :
         Send(ch, "choiceBuff", Least(choiceBuffSize, opened - i * choiceBuffSize)))
    \o Write({Cell(<<c.me, "totalSum", << >>>>, t), Cell(<<c.me, "ZerosOnesList", << >>>>, t)})
    \o Signal(Append(AknName(c), "remaining"))
    \o When(t = 0, doneFuture \o Read(all("totalSum")) \o Send(chls[1], "proof", 1)
                     \o Read(all("ZerosOnesList")) \o Write({Cell(<<c.me, "mOnes", << >>>>, 0)}))
    \o When(t = 1 \/ n = 1, doneFuture \o Read(all("ZerosOnesList")) \o Write({Cell(<<c.me, "mZeros", << >>>>, 0)}))

\* Bug: the proof is not looked at.
SkipsProof(c, chls, total, sampled) ==
  Write({Cell(<<c.me, "cncRootSeed", << >>>>, 0)}) \o Launch(AknName(c))
    \o AknSendRoutine(c, chls, total, sampled, 0)
    \o Join(AknName(c), Len(chls) - 1)

\* What thread 0 of the caller does, and the threads it starts
AknSendInit(c, chls, total, sampled) ==
  Write({Cell(<<c.me, "cncRootSeed", << >>>>, 0)}) \o Launch(AknName(c))
    \o AknSendRoutine(c, chls, total, sampled, 0)
    \o Join(AknName(c), Len(chls) - 1)
    \o Recv(chls[1], "proof", 1) \o Read(Cells(<<c.me, "totalSum", << >>>>, 0, Len(chls)))
    \o Free({Cell(<<c.me, "cncRootSeed", << >>>>, 0)})
AknReceiveInit(c, chls, total, sampled) ==
  Launch(AknName(c)) \o AknReceiveRoutine(c, chls, total, sampled, 0)
    \o Join(AknName(c), Len(chls) - 1)
AknHelpers(c, chls, routine) ==
  [t \in {Append(AknName(c), i) : i \in 1 .. Len(chls) - 1} |-> Thread(AknName(c), routine[t[4]])]
=============================================================================
