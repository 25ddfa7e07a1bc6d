---------------------------- MODULE PsiSessions ----------------------------
(***************************************************************************)
(* The two-party protocols of libPSI as programs of steps: OT-based bins   *)
(* (Beta), Bloom filters with OT (Dcw, DcwR) and with cut and choose       *)
(* (Rr16), and the one on elliptic curves (DKT).  All of them run a thread *)
(* for each channel of chls.  An instance psi of a protocol is a record:   *)
(* n, the size of both sets, and for Beta                                  *)
(*   bins, size   the numbers of bins and of rows of a bin,                *)
(*   place        the sequence of the items of every bin,                  *)
(*   oos          whether OOS is used, and not KKRT,                       *)
(*   given        whether the caller has set base OTs before,              *)
(* for Bloom filters                                                       *)
(*   bf, spots    the length of the filter, and the positions of an item,  *)
(*   total, sampled   the OTs of AKN and those that it opens.              *)
(***************************************************************************)
EXTENDS OprfSessions, TLC

CONSTANTS hashStep,     \* items hashed at once, 128 in the code
          maskBatch,    \* masks that are looked up at once, 32 in the code
          pointStep,    \* points of one message of DKT, 64 in the code
          outputStep    \* hashes of one message of DKT, 512 in the code

PsiAssumption == {hashStep, maskBatch, pointStep, outputStep} \subseteq Nat \ {0}
ASSUME PsiAssumption

Common(chls, name) == Local(chls[1], name)
\* A barrier of all threads, by a countdown and a promise
Barrier(chls, name) == Signal(Append(Common(chls, name), 0)) \o Await(Append(Common(chls, name), 0), Len(chls))
Result(chls) == Locked({Cell(Common(chls, "mIntersection"), 0)})

\* A routine for every channel: on threads of their own, or the first one
\* on the thread of the caller
AllThreads(chls, name) == Launch(Common(chls, name)) \o Join(Common(chls, name), Len(chls))
OnCaller(chls, name, routine) ==
  Launch(Common(chls, name)) \o routine \o Join(Common(chls, name), Len(chls) - 1)
ThreadsFrom(first, chls, name, routine) ==
  [t \in {Append(Common(chls, name), i) : i \in first .. Len(chls) - 1} |->
     Thread(Common(chls, name), routine[t[4]])]

\* Both parties commit themselves to a seed for the hash functions before
\* they reveal it; it is sent from a local variable of init.
Seeds(chls) == {Cell(Common(chls, "comm"), 0), Cell(Common(chls, "myHashSeed"), 0)}
Commitments(chls) ==
  Write(Seeds(chls)) \o Lend(chls[1], "hashCommit", 1, {Cell(Common(chls, "comm"), 0)})
    \o Recv(chls[1], "hashCommit", 1)
Reveal(chls) ==
  Lend(chls[1], "hashSeed", 1, {Cell(Common(chls, "myHashSeed"), 0)}) \o Recv(chls[1], "hashSeed", 1)
-----------------------------------------------------------------------------
(* Beta: each item has one bin, the rows of a bin are OTs of both directions. *)

NcoSendInit(psi, table, n) == IF psi.oos THEN OosSendInit(table, n) ELSE KkrtSendInit(table, n)
NcoReceiveInit(psi, table, n) == IF psi.oos THEN OosReceiveInit(table, n) ELSE KkrtReceiveInit(table, n)

\* The OT objects of the channels: one direction is initialised for a part
\* of the bins on each of some channels, the other one on the rest of them.
OtRows(psi, t, total) == (Start(t + 1, psi.bins, total) - Start(t, psi.bins, total)) * psi.size
BetaSenderTables(chls, psi) ==
  LET numSend == (Len(chls) - 1) \div 2
      numRecv == Len(chls) - 1 - numSend IN
  Loop(0, numSend, LAMBDA i : NcoSendInit(psi, SendTable(chls[i + 1]), OtRows(psi, i + 1, numSend + 1)))
    \o Loop(0, numRecv, LAMBDA i : NcoReceiveInit(psi, RecvTable(chls[i + 1]), OtRows(psi, i, numRecv)))
    \o NcoSendInit(psi, SendTable(chls[1]), OtRows(psi, 0, numSend + 1))
    \o When(numRecv = 0, NcoReceiveInit(psi, RecvTable(chls[1]), OtRows(psi, 0, 1)))
BetaReceiverTables(chls, psi) ==
  LET numRecv == (Len(chls) - 1) \div 2
      numSend == Len(chls) - 1 - numRecv IN
  Loop(0, numRecv, LAMBDA i : NcoReceiveInit(psi, RecvTable(chls[i + 2]), OtRows(psi, i + 1, numRecv + 1)))
    \o Loop(0, numSend, LAMBDA i : NcoSendInit(psi, SendTable(chls[i + 1]), OtRows(psi, i, numSend)))
    \o NcoReceiveInit(psi, RecvTable(chls[1]), OtRows(psi, 0, numRecv + 1))
    \o When(numSend = 0, NcoSendInit(psi, SendTable(chls[1]), OtRows(psi, 0, 1)))

BetaSenderInit(chls, psi) ==
  LET c == chls[1]
      recvBase == Local(c, "recvBaseMsg")
      sendBase == Local(c, "sendBaseMsg")
      count == baseOtCount + gOtExtBaseOtCount IN
  Commitments(chls) \o Reveal(chls)
    \o When(~psi.given,
         NpSend(c, gOtExtBaseOtCount, 2) \o Read(BaseOts(c, "baseMsg", gOtExtBaseOtCount))
           \o KosReceiveRows(c, recvBase, 0, count) \o KosReceiveCheck(c, recvBase, 0, count)
           \o Read(AllRows(recvBase, 0, count, 1))
           \o KosSendRows(c, sendBase, 0, baseOtCount) \o KosSendCheck(c, sendBase, 0, baseOtCount))
    \o BetaSenderTables(chls, psi) \o Free(Seeds(chls))
BetaReceiverInit(chls, psi) ==
  LET c == chls[1]
      sendBase == Local(c, "sendBaseMsg")
      recvBase == Local(c, "kcoSendBase")
      count == baseOtCount + gOtExtBaseOtCount IN
  Commitments(chls) \o Reveal(chls)
    \o When(~psi.given,
         NpReceive(c, gOtExtBaseOtCount, 2) \o Read(BaseOts(c, "kosSendBase", gOtExtBaseOtCount))
           \o KosSendRows(c, sendBase, 0, count) \o KosSendCheck(c, sendBase, 0, count)
           \o Read(AllRows(sendBase, 0, count, 1))
           \o KosReceiveRows(c, recvBase, 0, baseOtCount) \o KosReceiveCheck(c, recvBase, 0, baseOtCount))
    \o BetaReceiverTables(chls, psi) \o Free(Seeds(chls))

ItemsIn(psi, lo, hi) == Loop(lo, hi, LAMBDA b : psi.place[b])
ItemSet(psi, lo, hi) == {ItemsIn(psi, lo, hi)[i] : i \in 1 .. Len(ItemsIn(psi, lo, hi))}
Hashed(chls, items) == CellsAt(Common(chls, "ncoInputBuff"), items)
Masks(chls, items) == CellsAt(Common(chls, "recvMasks"), items)

\* Thread t hashes its items and puts them into their bins, and goes on when
\* all threads have done so.  A batch ends where the whole input does.
BetaHashing(chls, psi, t) ==
  LET start == Start(t, psi.n, Len(chls)) IN
  Loop(0, (Start(t + 1, psi.n, Len(chls)) - start + hashStep - 1) \div hashStep, LAMBDA k :
    LET lo == start + k * hashStep
        batch == lo .. lo + Least(hashStep, psi.n - lo) - 1 IN
    Write(Hashed(chls, batch))
      \o Locked(CellsAt(Common(chls, "mBins"), {b \in DOMAIN psi.place : ItemSet(psi, b, b + 1) \cap batch # {}})))
    \o Barrier(chls, "insertRemaining")

\* All rows of a bin are used, for an item or for none.
BetaReceivePhase(chls, psi, t) ==
  LET c == chls[t + 1]
      binStart == Start(t, psi.bins, Len(chls)) IN
  Chunks(binStart, Start(t + 1, psi.bins, Len(chls)), stepSize, LAMBDA lo, hi :
    LET from == (lo - binStart) * psi.size
        rows == from .. from + (hi - lo) * psi.size - 1 IN
    Read(CellsAt(Common(chls, "mBins"), {b \in lo .. hi - 1 : psi.place[b] # << >>})
           \cup Hashed(chls, ItemSet(psi, lo, hi)))
      \o KkrtReceiveEncode(RecvTable(c), rows) \o Write(Masks(chls, ItemSet(psi, lo, hi)))
      \o KkrtSendCorrection(c, RecvTable(c), from, (hi - lo) * psi.size))

\* The receiver keeps its masks in a map, a batch of them at a time.
InMap(chls, psi, t, from, to) ==
  LET items == ItemsIn(psi, Start(t, psi.bins, Len(chls)), Start(t + 1, psi.bins, Len(chls))) IN
  Write({Cell(Common(chls, "maskMap"), items[j \div psi.size + 1] * psi.size + (j % psi.size)) : j \in from .. to - 1})
Batches(masks) == (masks \div maskBatch) * maskBatch

\* The masks of the items with the numbers done + 1 to next of thread t.  The
\* sender's go to a random place in the buffer; the counter that picks it
\* starts at the number of the first row of the thread.
BetaStore(chls, psi, t, sends, done, next) ==
  LET first == Start(t, psi.bins, Len(chls)) * psi.size IN
  IF sends THEN Read(Cells(Common(chls, "maskPerm"), first + done, first + next))
                  \o Write(Cells(Common(chls, "sendMaskBuff"), first + done, first + next))
           ELSE InMap(chls, psi, t, Batches(done * psi.size), Batches(next * psi.size))

\* Every item is evaluated in all rows of its bin.
BetaSendPhase(chls, psi, t, sends) ==
  LET c == chls[t + 1]
      binStart == Start(t, psi.bins, Len(chls)) IN
  Chunks(binStart, Start(t + 1, psi.bins, Len(chls)), stepSize, LAMBDA lo, hi :
    KkrtRecvCorrection(c, SendTable(c), (lo - binStart) * psi.size, (hi - lo) * psi.size)
      \o KkrtSendEncode(SendTable(c),
           UNION {(b - binStart) * psi.size .. (b + 1 - binStart) * psi.size - 1 :
                    b \in {b \in lo .. hi - 1 : psi.place[b] # << >>}})
      \o Read(Hashed(chls, ItemSet(psi, lo, hi)) \cup Masks(chls, ItemSet(psi, lo, hi)))
      \o BetaStore(chls, psi, t, sends, Len(ItemsIn(psi, binStart, lo)), Len(ItemsIn(psi, binStart, hi))))

BetaRange(chls, psi, t) == OtRows(psi, t, Len(chls))
SenderChecks(chls, psi, t) ==
  When(psi.oos, OosReceiveCheck(chls[t + 1], RecvTable(chls[t + 1]), BetaRange(chls, psi, t))
                  \o OosSendCheck(chls[t + 1], SendTable(chls[t + 1]), BetaRange(chls, psi, t)))
ReceiverChecks(chls, psi, t) ==
  When(psi.oos, OosSendCheck(chls[t + 1], SendTable(chls[t + 1]), BetaRange(chls, psi, t))
                  \o OosReceiveCheck(chls[t + 1], RecvTable(chls[t + 1]), BetaRange(chls, psi, t)))

BetaSendRoutine(chls, psi, t) ==
  LET permDone == Append(Common(chls, "permThrd"), 0) IN
  BetaHashing(chls, psi, t) \o BetaReceivePhase(chls, psi, t)
    \o Await(permDone, 1)
    \o BetaSendPhase(chls, psi, t, TRUE)
    \o SenderChecks(chls, psi, t) \o Barrier(chls, "remainingMasks")
    \o When(t = 0, Read(Cells(Common(chls, "sendMaskBuff"), 0, psi.n))
                     \o Send(chls[1], "masks", psi.n * psi.size))

BetaReceiveRoutine(chls, psi, t) ==
  LET binStart == Start(t, psi.bins, Len(chls))
      masks == Len(ItemsIn(psi, binStart, Start(t + 1, psi.bins, Len(chls)))) * psi.size
      maskProm == Append(Common(chls, "maskProm"), 0) IN
  BetaHashing(chls, psi, t) \o BetaReceivePhase(chls, psi, t)
    \o BetaSendPhase(chls, psi, t, FALSE)
    \o ReceiverChecks(chls, psi, t) \o InMap(chls, psi, t, Batches(masks), masks)
    \o (IF t = 0 THEN Recv(chls[1], "masks", psi.n * psi.size) \o Signal(maskProm) ELSE Await(maskProm, 1))
    \o Read(Cells(Common(chls, "maskMap"), 0, psi.n * psi.size)) \o Result(chls)

BetaSenderInput(chls) == Launch(Common(chls, "perm")) \o AllThreads(chls, "betaSend") \o Join(Common(chls, "perm"), 1)
BetaReceiverInput(chls) == AllThreads(chls, "betaRecv")
BetaSenderHelpers(chls, psi) ==
  ThreadsFrom(0, chls, "betaSend", [t \in 0 .. Len(chls) - 1 |-> BetaSendRoutine(chls, psi, t)])
    @@ (Append(Common(chls, "perm"), 0) :>
          Thread(Common(chls, "perm"), Write(Cells(Common(chls, "maskPerm"), 0, psi.n))
                                         \o Signal(Append(Common(chls, "permThrd"), 0))))
BetaReceiverHelpers(chls, psi) == ThreadsFrom(0, chls, "betaRecv", [t \in 0 .. Len(chls) - 1 |-> BetaReceiveRoutine(chls, psi, t)])
-----------------------------------------------------------------------------
(* Dcw: a garbled Bloom filter that the receiver opens with the OTs of its *)
(* own filter.  DcwR sends a mask for each item in place of the filter.    *)

BfRange(chls, psi, t) == AknRange(t, psi.bf, Len(chls))
Spots(psi, items) == UNION {psi.spots[i] : i \in items}
Mine(chls, psi, t) == Start(t, psi.n, Len(chls)) .. Start(t + 1, psi.n, Len(chls)) - 1
OtMessages(chls) == Common(chls, "otMessages")

\* The OTs of the positions of the filter, a range of them on each channel
DcwSendOts(chls, psi, t) ==
  LET lo == AknStart(t, psi.bf, Len(chls))
      hi == AknStart(t + 1, psi.bf, Len(chls)) IN
  When(lo # hi, KosSendRows(chls[t + 1], OtMessages(chls), lo, hi) \o KosSendCheck(chls[t + 1], OtMessages(chls), lo, hi))
DcwReceiveOts(chls, psi, t) ==
  LET lo == AknStart(t, psi.bf, Len(chls))
      hi == AknStart(t + 1, psi.bf, Len(chls)) IN
  When(lo # hi, Read(Cells(Common(chls, "mRandChoices"), lo, hi))
                  \o KosReceiveRows(chls[t + 1], OtMessages(chls), lo, hi)
                  \o KosReceiveCheck(chls[t + 1], OtMessages(chls), lo, hi))

DcwSenderInit(chls, psi) ==
  LET c == chls[1] IN
  Commitments(chls) \o Reveal(chls)
    \o When(~psi.given, NpReceive(c, gOtExtBaseOtCount, 2) \o Read(BaseOts(c, "kosSendBase", gOtExtBaseOtCount)))
    \o Launch(Common(chls, "dcwSendOts")) \o DcwSendOts(chls, psi, 0)
    \o Write(Cells(Common(chls, "mShares"), 0, psi.bf))
    \o Join(Common(chls, "dcwSendOts"), Len(chls) - 1) \o Free(Seeds(chls))
DcwReceiverInit(chls, psi) ==
  LET c == chls[1] IN
  Commitments(chls) \o Reveal(chls) \o Write(Cells(Common(chls, "mRandChoices"), 0, psi.bf))
    \o When(~psi.given, NpSend(c, gOtExtBaseOtCount, 2) \o Read(BaseOts(c, "baseMsg", gOtExtBaseOtCount)))
    \o Launch(Common(chls, "dcwReceiveOts")) \o DcwReceiveOts(chls, psi, 0)
    \o Join(Common(chls, "dcwReceiveOts"), Len(chls) - 1) \o Free(Seeds(chls))

\* The shares go out masked by the OT messages of the positions that are not
\* in the filter of the receiver.
DcwShares(chls, psi) ==
  LET otCorrection == Cells(Common(chls, "otCorrection"), 0, psi.bf) IN
  Recv(chls[1], "otCorrection", psi.bf) \o Write(otCorrection)
    \o Read(otCorrection \cup Cells(Common(chls, "mShares"), 0, psi.bf) \cup AllRows(OtMessages(chls), 0, psi.bf, 1))
    \o Send(chls[1], "prime", 1) \o Send(chls[1], "shares", psi.bf)
DcwSenderInput(chls, psi) ==
  DcwShares(chls, psi) \o Read(AllRows(OtMessages(chls), 0, psi.bf, 1)) \o Send(chls[1], "garbledBF", psi.bf)
DcwRSenderInput(chls, psi) ==
  DcwShares(chls, psi) \o Write(AllRows(OtMessages(chls), 0, psi.bf, 1))
    \o Read(AllRows(OtMessages(chls), 0, psi.bf, 1)) \o Send(chls[1], "theirMasks", psi.n)

\* Thread t enters its items into the filter; thread 0 corrects the OTs and
\* receives, and then all threads look their items up.
DcwFilter(chls, psi, t) ==
  Same(CellsAt(Common(chls, "bf"), Spots(psi, Mine(chls, psi, t)))) \o Barrier(chls, "hashingsRemaing")
DcwCorrection(chls, psi) ==
  LET shares == Cells(Common(chls, "shares"), 0, psi.bf) IN
  Read(CellsAt(Common(chls, "bf"), Spots(psi, 0 .. psi.n - 1)) \cup Cells(Common(chls, "mRandChoices"), 0, psi.bf))
    \o Send(chls[1], "otCorrection", psi.bf)
    \o Recv(chls[1], "prime", 1) \o Recv(chls[1], "shares", psi.bf)
    \o Write(shares) \o Read(shares \cup AllRows(OtMessages(chls), 0, psi.bf, 1))
DecryptDone(chls) == Append(Common(chls, "decryptDone"), 0)

DcwReceiveRoutine(chls, psi, t) ==
  LET garbledBF == Common(chls, "garbledBF") IN
  DcwFilter(chls, psi, t)
    \o (IF t = 0 THEN DcwCorrection(chls, psi) \o Recv(chls[1], "garbledBF", psi.bf)
                        \o Write(Cells(garbledBF, 0, psi.bf)) \o Signal(DecryptDone(chls))
                 ELSE Await(DecryptDone(chls), 1))
    \o Read(CellsAt(garbledBF, Spots(psi, Mine(chls, psi, t))) \cup CellsAt(OtMessages(chls), Spots(psi, Mine(chls, psi, t))))
    \o Result(chls)

\* One channel only: another one is an exception.
DcwRReceiverInput(chls, psi) ==
  DcwFilter(chls, psi, 0) \o DcwCorrection(chls, psi)
    \o Write(AllRows(OtMessages(chls), 0, psi.bf, 1))
    \o Recv(chls[1], "theirMasks", psi.n)
    \o Read(CellsAt(OtMessages(chls), Spots(psi, 0 .. psi.n - 1))) \o Result(chls)

\* DcwR has copies of the set-up functions.
DcwRSenderInit(chls, psi)   == DcwSenderInit(chls, psi)
DcwRReceiverInit(chls, psi) == DcwReceiverInit(chls, psi)

DcwReceiverInput(chls, psi) == OnCaller(chls, "dcwReceive", DcwReceiveRoutine(chls, psi, 0))
DcwSenderHelpers(chls, psi) == ThreadsFrom(1, chls, "dcwSendOts", [t \in 0 .. Len(chls) - 1 |-> DcwSendOts(chls, psi, t)])
DcwReceiverHelpers(chls, psi) ==
  ThreadsFrom(1, chls, "dcwReceiveOts", [t \in 0 .. Len(chls) - 1 |-> DcwReceiveOts(chls, psi, t)])
    @@ ThreadsFrom(1, chls, "dcwReceive", [t \in 0 .. Len(chls) - 1 |-> DcwReceiveRoutine(chls, psi, t)])
-----------------------------------------------------------------------------
(* Rr16: the OTs come out of the cut and choose of AKN, and the receiver   *)
(* permutes those that are left so that they suit its filter.              *)

\* The receive of the commitment is posted before the OTs are made and waited
\* for behind them; what is received of its channel meanwhile comes after it.
TheirComm(chls) == Common(chls, "theirComm")
TheirCommFutre(chls) == Await(Append(TheirComm(chls), "recvFuture"), 1)
Meanwhile(chls, steps) ==
  LET receives == {i \in DOMAIN steps : steps[i].op = "recv" /\ steps[i].at = chls[1].in}
      first == CHOOSE i \in receives : \A j \in receives : i <= j IN
  SubSeq(steps, 1, first - 1) \o TheirCommFutre(chls) \o SubSeq(steps, first, Len(steps))
RrInit(chls, aknInit) ==
  Write(Seeds(chls)) \o Lend(chls[1], "hashCommit", 1, {Cell(Common(chls, "comm"), 0)})
    \o Launch(TheirComm(chls)) \o Meanwhile(chls, aknInit) \o TheirCommFutre(chls)
    \o Reveal(chls) \o Free(Seeds(chls) \cup {Cell(TheirComm(chls), 0)})
RrSenderInit(chls, psi) == RrInit(chls, AknSendInit(chls[1], chls, psi.total, psi.sampled))
RrReceiverInit(chls, psi) == RrInit(chls, AknReceiveInit(chls[1], chls, psi.total, psi.sampled))
RrPosted(chls) == Append(TheirComm(chls), 0) :> AsyncRecv(chls[1], "theirComm", "hashCommit", 1)

AknRows(chls, psi) == Cells(<<chls[1].me, "mMessages", << >>>>, 0, psi.total)
\* One buffer for the hashes of an item is shared by all threads.
ItemHashes(chls, psi, t) ==
  LET bv == {Cell(Common(chls, "bv"), 0)} IN
  When(Mine(chls, psi, t) # {}, Write(bv) \o Read(bv))

RrSendRoutine(chls, psi, t) ==
  ItemHashes(chls, psi, t)
    \o Read(CellsAt(Common(chls, "permutes"), Spots(psi, Mine(chls, psi, t))) \cup AknRows(chls, psi))
    \o Await(Append(Common(chls, "isValidPerm"), 0), 1)
    \o SyncSend(chls[t + 1], "masks", Cardinality(Mine(chls, psi, t)))
RrSenderInput(chls, psi) ==
  LET permutes == Cells(Common(chls, "permutes"), 0, psi.bf) IN
  Recv(chls[1], "permutes", psi.bf) \o Write(permutes) \o Launch(Common(chls, "rrSend"))
    \o Read(permutes) \o Write(Bytes(<<chls[1].me, "mSampled", << >>>>, 0 .. psi.total - 1))
    \o Signal(Append(Common(chls, "isValidPerm"), 0)) \o Join(Common(chls, "rrSend"), Len(chls))

Done(chls, name) == Append(Common(chls, name), 0)
\* The thread that is through with its masks first merges those of the others.
RrMerge(chls, t, first) ==
  IF t = first THEN Await(Done(chls, "masksProms"), Len(chls) - 1) \o Read(Cells(Common(chls, "localMasks"), 0, Len(chls)))
                      \o Write({Cell(Common(chls, "masks"), 0)}) \o Signal(Done(chls, "mergeDone"))
               ELSE Signal(Done(chls, "masksProms")) \o Await(Done(chls, "mergeDone"), 1)
RrReceiveRoutine(chls, psi, t, first) ==
  LET permutes == Cells(Common(chls, "permutes"), 0, psi.bf)
      localMasks == Common(chls, "localMasks") IN
  ItemHashes(chls, psi, t) \o DcwFilter(chls, psi, t)
    \o (IF t = 0 THEN Read(CellsAt(Common(chls, "bf"), Spots(psi, 0 .. psi.n - 1))
                             \cup {Cell(<<chls[1].me, "mZeros", << >>>>, 0), Cell(<<chls[1].me, "mOnes", << >>>>, 0)})
                        \o Write(permutes) \o Lend(chls[1], "permutes", psi.bf, permutes) \o Signal(Done(chls, "permuteDone"))
                 ELSE Await(Done(chls, "permuteDone"), 1))
    \o Read(permutes \cup AknRows(chls, psi)) \o Write({Cell(localMasks, t)})
    \o RrMerge(chls, t, first)
    \o Recv(chls[t + 1], "masks", AnyLength)
    \o Read({Cell(Common(chls, "masks"), 0)}) \o Result(chls)
RrReceiverInput(chls, psi, first) ==
  OnCaller(chls, "rrReceive", RrReceiveRoutine(chls, psi, 0, first))
    \o Free(Cells(Common(chls, "permutes"), 0, psi.bf))

RrSenderHelpers(chls, psi) ==
  AknHelpers(chls[1], chls, [t \in 1 .. Len(chls) - 1 |-> AknSendRoutine(chls[1], chls, psi.total, psi.sampled, t)])
    @@ RrPosted(chls) @@ ThreadsFrom(0, chls, "rrSend", [t \in 0 .. Len(chls) - 1 |-> RrSendRoutine(chls, psi, t)])
RrReceiverHelpers(chls, psi, first) ==
  AknHelpers(chls[1], chls, [t \in 1 .. Len(chls) - 1 |-> AknReceiveRoutine(chls[1], chls, psi.total, psi.sampled, t)])
    @@ RrPosted(chls) @@ ThreadsFrom(1, chls, "rrReceive", [t \in 0 .. Len(chls) - 1 |-> RrReceiveRoutine(chls, psi, t, first)])
-----------------------------------------------------------------------------
(* DKT: masked points of the items, and proofs about them.  The threads    *)
(* hash the messages of their channels for the challenge of these proofs;  *)
(* thread 0 collects the hashes and hands out pointers to its own objects. *)

Kept(chls, name, t) == <<chls[1].me, name, <<chls[1].tag[1], t>>, "set_value">>
PromiseOf(chls, name, t) == Signal(Kept(chls, name, t))
FutureOf(chls, name, t) == Await(Kept(chls, name, t), 1)
FuturesOf(chls, name) == Loop(1, Len(chls), LAMBDA t : FutureOf(chls, name, t))
\* Objects of thread t, and values that thread 0 lets the others point to
Own(chls, name, t) == {Cell(Common(chls, name), t)}
OwnOf(chls, name) == Cells(Common(chls, name), 0, Len(chls))

Pieces(chls, psi, t) ==
  Chunks(0, Cardinality(Mine(chls, psi, t)), pointStep, LAMBDA lo, hi : <<hi - lo>>)

\* The challenge takes in the hash of every thread, and then thread 0 keeps
\* the promise that the others wait for.
Gathered(chls, t, hash, Then, values) ==
  Write(Own(chls, hash, t))
    \o (IF t = 0 THEN FuturesOf(chls, hash) \o Read(OwnOf(chls, hash)) \o Then
                        \o Write(Own(chls, values, 0)) \o PromiseOf(chls, values, 0)
                 ELSE PromiseOf(chls, hash, t) \o FutureOf(chls, values, 0))
    \o Read(Own(chls, values, 0))

\* The product of all points, and the commitments that go with it
DktSendPch(chls, t) ==
  LET c == chls[t + 1] IN
  Write(Own(chls, "pch", t))
    \o (IF t = 0 THEN FuturesOf(chls, "mPchs") \o Read(OwnOf(chls, "pch")) \o Write(Own(chls, "pch", 0))
                        \o Recv(c, "commitments", 2) \o Write(Own(chls, "X", 0)) \o PromiseOf(chls, "X", 0)
                 ELSE PromiseOf(chls, "mPchs", t) \o FutureOf(chls, "X", 0)
                        \o Read(Own(chls, "pch", 0) \cup Own(chls, "X", 0)) \o Write(Own(chls, "pch", t)))
DktSendPoints(chls, psi, t) ==
  LET c == chls[t + 1] IN
  When(t = 0, Send(c, "sigma2A", 1))
    \o ForEach(Pieces(chls, psi, t), LAMBDA n : Recv(c, "points", 3 * n) \o Send(c, "sigma2As", n))
DktSendChallenge(chls, t) ==
  LET c == chls[t + 1] IN
  Gathered(chls, t, "sigmaHashs", Send(c, "sigma2Phi", 2) \o Recv(c, "sigmaPhi", AnyLength), "sigma2Phi")
DktSendVerify(chls, psi, t) == ForEach(Pieces(chls, psi, t), LAMBDA n : Recv(chls[t + 1], "sigmaPhis", n))
DktSendMps(chls, psi, t) == ForEach(Pieces(chls, psi, t), LAMBDA n : Send(chls[t + 1], "Mps", n))
DktSendOutputs(chls, psi, t) ==
  Chunks(0, Cardinality(Mine(chls, psi, t)), outputStep, LAMBDA lo, hi : Send(chls[t + 1], "outputs", hi - lo))
    \o Free(UNION {Own(chls, name, t) : name \in {"pch", "X", "sigma2Phi"}})

DktSendRoutine(chls, psi, t) ==
  DktSendPch(chls, t) \o DktSendPoints(chls, psi, t) \o DktSendChallenge(chls, t)
    \o DktSendVerify(chls, psi, t) \o DktSendMps(chls, psi, t) \o DktSendOutputs(chls, psi, t)

DktReceivePoints(chls, psi, t) ==
  LET c == chls[t + 1] IN
  When(t = 0, Send(c, "commitments", 2)) \o ForEach(Pieces(chls, psi, t), LAMBDA n : Send(c, "points", 3 * n))
DktReceiveChallenge(chls, t) ==
  Gathered(chls, t, "sigmaHashs", << >>, "sigmaVals") \o When(t = 0, Send(chls[1], "sigmaPhi", 1))
DktReceiveProofs(chls, psi, t) == ForEach(Pieces(chls, psi, t), LAMBDA n : Send(chls[t + 1], "sigmaPhis", n))
DktReceiveSigma2(chls, psi, t) ==
  LET c == chls[t + 1] IN
  When(t = 0, Recv(c, "sigma2A", 1)) \o ForEach(Pieces(chls, psi, t), LAMBDA n : Recv(c, "sigma2As", n))
    \o Gathered(chls, t, "sigma2Hashs", Recv(c, "sigma2Phi", 2), "sigma2Vals")
DktReceiveMps(chls, psi, t) ==
  ForEach(Pieces(chls, psi, t), LAMBDA n : Recv(chls[t + 1], "Mps", n) \o Write(Own(chls, "inputHashs", t)))
\* Thread 0 merges the tables of hashes for all.
DktReceiveMerge(chls, t) ==
  IF t = 0 THEN FuturesOf(chls, "inputHash") \o Read(OwnOf(chls, "inputHashs"))
                  \o Write(Own(chls, "hashs", 0)) \o PromiseOf(chls, "mergedHashTable", 0)
           ELSE PromiseOf(chls, "inputHash", t) \o FutureOf(chls, "mergedHashTable", 0)
DktReceiveOutputs(chls, psi, t) ==
  Chunks(0, Cardinality(Mine(chls, psi, t)), outputStep, LAMBDA lo, hi :
    Recv(chls[t + 1], "outputs", AnyLength) \o Read(Own(chls, "hashs", 0)) \o Write(Own(chls, "localIntersections", t)))
    \o Free(UNION {Own(chls, name, t) : name \in {"sigmaVals", "sigma2Vals", "inputHashs"}})

DktReceiveRoutine(chls, psi, t) ==
  DktReceivePoints(chls, psi, t) \o DktReceiveChallenge(chls, t) \o DktReceiveProofs(chls, psi, t)
    \o DktReceiveSigma2(chls, psi, t) \o DktReceiveMps(chls, psi, t) \o DktReceiveMerge(chls, t)
    \o DktReceiveOutputs(chls, psi, t)

DktSenderInput(chls, psi) == OnCaller(chls, "dktSend", DktSendRoutine(chls, psi, 0))
DktReceiverInput(chls, psi) ==
  OnCaller(chls, "dktReceive", DktReceiveRoutine(chls, psi, 0)) \o Read(OwnOf(chls, "localIntersections"))
DktSenderHelpers(chls, psi) == ThreadsFrom(1, chls, "dktSend", [t \in 0 .. Len(chls) - 1 |-> DktSendRoutine(chls, psi, t)])
DktReceiverHelpers(chls, psi) == ThreadsFrom(1, chls, "dktReceive", [t \in 0 .. Len(chls) - 1 |-> DktReceiveRoutine(chls, psi, t)])
=============================================================================
