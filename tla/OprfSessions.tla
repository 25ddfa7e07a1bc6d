---------------------------- MODULE OprfSessions ----------------------------
(***************************************************************************)
(* The programmable OPRF of libOPRF as programs of steps: its set-up, the  *)
(* OPRF of all bins in one or in both directions, and the transfer of the  *)
(* plaintexts by one of four kinds of hints (tables, a polynomial for each *)
(* bin, a polynomial for each hash function, a garbled Bloom filter), or   *)
(* of the plain OPRF values.                                               *)
(*                                                                         *)
(* Every caller passes one channel, and then each function runs one thread *)
(* that it joins at once; that thread is written in line here.             *)
(*                                                                         *)
(* A bin set is a record: count, the numbers of normal and of stash bins,  *)
(* cuckoo, the item of every cuckoo bin that is not empty, simple, the     *)
(* pairs <<item, hash>> of every simple bin that is not empty, n, the      *)
(* number of items, and hashes, the number of hash functions of both kinds.*)
(***************************************************************************)
EXTENDS OtSessions

CONSTANTS stepSize,         \* bins of one message, 16 in the code
          baseOtCount,      \* base OTs of the N choose 1 extension
          gOtExtBaseOtCount \* base OTs of the 1 of 2 extension, 128 in the code

OprfAssumption == {stepSize, baseOtCount, gOtExtBaseOtCount} \subseteq Nat \ {0}
ASSUME OprfAssumption

BinTotal(bins) == bins.count[1] + bins.count[2]
RecvTable(c) == Local(c, "otRecv")
SendTable(c) == Local(c, "otSend")

\* mValOPRF of the cuckoo and of the simple bins for the party behind c, the
\* hints of the simple bins, and the OPRF values by item and hash function
CuckooVal(c)  == Local(c, "cuckooValOPRF")
SimpleVal(c)  == Local(c, "simpleValOPRF")
Bits(c)       == Local(c, "mBits")
OprfCell(c, item, hash) == [Cell(Local(c, "mOprfs"), item) EXCEPT ![5] = hash]
Items(bins, rows) == UNION {{e[1] : e \in bins.simple[b]} : b \in rows \cap DOMAIN bins.simple}
-----------------------------------------------------------------------------
(* Set-up: base OTs, extended by IKNP into those of KKRT, and in the other *)
(* direction once more if this is asked for.                               *)

BaseOts(c, name, n) == AllRows(Local(c, name), 0, n, 1)

\* The KKRT objects, one for each direction
ReceiverTables(c, otCounts, isOtherDirection) ==
  KkrtReceiveInit(RecvTable(c), otCounts) \o When(isOtherDirection, KkrtSendInit(SendTable(c), otCounts))
SenderTables(c, otCounts, isOtherDirection) ==
  KkrtSendInit(SendTable(c), otCounts) \o When(isOtherDirection, KkrtReceiveInit(RecvTable(c), otCounts))

OPPRFReceiverInit(c, otCounts, isOtherDirection) ==
  LET dualBaseOtCount == IF isOtherDirection THEN gOtExtBaseOtCount ELSE 0 IN
  NpReceive(c, gOtExtBaseOtCount, 2) \o Read(BaseOts(c, "kosSendBase", gOtExtBaseOtCount))
    \o IknpSend(c, Local(c, "sendBaseMsg"), 0, baseOtCount + dualBaseOtCount)
    \o When(isOtherDirection, IknpReceive(c, Local(c, "kcoSendBase"), 0, baseOtCount))
    \o ReceiverTables(c, otCounts, isOtherDirection)

OPPRFSenderInit(c, otCounts, isOtherDirection) ==
  LET dualBaseOtCount == IF isOtherDirection THEN gOtExtBaseOtCount ELSE 0 IN
  NpSend(c, gOtExtBaseOtCount, 2) \o Read(BaseOts(c, "baseMsg", gOtExtBaseOtCount))
    \o IknpReceive(c, Local(c, "recvBaseMsg"), 0, baseOtCount + dualBaseOtCount)
    \o When(isOtherDirection, IknpSend(c, Local(c, "sendBaseMsg"), 0, baseOtCount))
    \o SenderTables(c, otCounts, isOtherDirection)

OPPRFReceiverHelpers(c) == NpReceiveHelpers(c, Local(c, "kosSendBase"), gOtExtBaseOtCount, 2)
OPPRFSenderHelpers(c)   == NpSendHelpers(c, Local(c, "baseMsg"), gOtExtBaseOtCount, 2)
-----------------------------------------------------------------------------
(* getOPRFkeys: the receiver role encodes the items of its cuckoo bins, the *)
(* sender role those of its simple bins.                                    *)

ReceiverRole(c, bins) ==
  Chunks(0, BinTotal(bins), stepSize, LAMBDA lo, hi :
    LET used == (lo .. hi - 1) \cap DOMAIN bins.cuckoo IN
    KkrtReceiveEncode(RecvTable(c), used) \o Write(CellsAt(CuckooVal(c), used))
      \o KkrtZeroEncode(RecvTable(c), (lo .. hi - 1) \ used)
      \o KkrtSendCorrection(c, RecvTable(c), lo, hi - lo))

\* Where the values of the items in some bins go
SeparatedCells(c, bins, used) == CellsAt(SimpleVal(c), used)
CombinedCells(c, bins, used)  == UNION {{OprfCell(c, e[1], e[2]) : e \in bins.simple[b]} : b \in used}

\* With hints by tables the bit positions that tell the values apart are
\* looked for at once; the other kinds of hints do nothing here.
SenderRole(c, bins, kind) ==
  Chunks(0, BinTotal(bins), stepSize, LAMBDA lo, hi :
    LET used == (lo .. hi - 1) \cap DOMAIN bins.simple IN
    KkrtRecvCorrection(c, SendTable(c), lo, hi - lo)
      \o KkrtSendEncode(SendTable(c), used)
      \o Write(IF kind = "combined" THEN CombinedCells(c, bins, used) ELSE SeparatedCells(c, bins, used))
      \o When(kind = "table", Read(CellsAt(SimpleVal(c), used)) \o Write(CellsAt(Bits(c), used))))
TableRole(c, bins)     == SenderRole(c, bins, "table")
SeparatedRole(c, bins) == SenderRole(c, bins, "separated")
CombinedRole(c, bins)  == SenderRole(c, bins, "combined")

\* Bug: both start with the role of the sender.
BothWait(c, bins, other) == When(other, TableRole(c, bins)) \o ReceiverRole(c, bins)

\* The receiver starts with the role of the receiver, the sender with that
\* of the sender.
ReceiverTableKeys(c, bins, other)     == ReceiverRole(c, bins) \o When(other, TableRole(c, bins))
ReceiverSeparatedKeys(c, bins, other) == ReceiverRole(c, bins) \o When(other, SeparatedRole(c, bins))
ReceiverCombinedKeys(c, bins, other)  == ReceiverRole(c, bins) \o When(other, CombinedRole(c, bins))
SenderTableKeys(c, bins, other)       == TableRole(c, bins) \o When(other, ReceiverRole(c, bins))
SenderSeparatedKeys(c, bins, other)   == SeparatedRole(c, bins) \o When(other, ReceiverRole(c, bins))
SenderCombinedKeys(c, bins, other)    == CombinedRole(c, bins) \o When(other, ReceiverRole(c, bins))

ReceiverKeys(kind, c, bins, other) ==
  CASE kind = "TABLEb"   -> ReceiverTableKeys(c, bins, other)
    [] kind = "SepPOLYb" -> ReceiverSeparatedKeys(c, bins, other)
    [] OTHER             -> ReceiverCombinedKeys(c, bins, other)
SenderKeys(kind, c, bins, other) ==
  CASE kind = "TABLEb"   -> SenderTableKeys(c, bins, other)
    [] kind = "SepPOLYb" -> SenderSeparatedKeys(c, bins, other)
    [] OTHER             -> SenderCombinedKeys(c, bins, other)
-----------------------------------------------------------------------------
(* sendSS of the sender class, and recvSS of the receiver class.           *)

\* The normal bins and then the stash bins, in messages of stepSize rows
BinTypes(bins) ==
  Chunks(0, bins.count[1], stepSize, LAMBDA lo, hi : <<[kind |-> "binMasks", lo |-> lo, hi |-> hi]>>)
    \o Chunks(bins.count[1], BinTotal(bins), stepSize,
         LAMBDA lo, hi : <<[kind |-> "stashMasks", lo |-> lo, hi |-> hi]>>)

\* Bug: bins that are empty are not sent.
SendsUsedOnly(c, bins, plaintexts) ==
  ForEach(BinTypes(bins), LAMBDA b :
    LET used == (b.lo .. b.hi - 1) \cap DOMAIN bins.simple IN
    Read(CellsAt(Bits(c), used) \cup CellsAt(SimpleVal(c), used) \cup CellsAt(plaintexts, Items(bins, used)))
      \o Send(c, b.kind, Cardinality(used)))
SendTableBased(c, bins, plaintexts) ==
  ForEach(BinTypes(bins), LAMBDA b :
    LET used == (b.lo .. b.hi - 1) \cap DOMAIN bins.simple IN
    Read(CellsAt(Bits(c), used) \cup CellsAt(SimpleVal(c), used) \cup CellsAt(plaintexts, Items(bins, used)))
      \o Send(c, b.kind, b.hi - b.lo))
SendPolyBased(c, bins, plaintexts) ==
  ForEach(BinTypes(bins), LAMBDA b :
    LET used == (b.lo .. b.hi - 1) \cap DOMAIN bins.simple IN
    Read(CellsAt(SimpleVal(c), used) \cup CellsAt(plaintexts, Items(bins, used)))
      \o Send(c, b.kind, b.hi - b.lo))

\* A message of another size is an exception in the thread.
Decode(c, bins, plaintexts, lo, hi) ==
  LET used == (lo .. hi - 1) \cap DOMAIN bins.cuckoo IN
  Read(CellsAt(CuckooVal(c), used)) \o Write(CellsAt(plaintexts, {bins.cuckoo[b] : b \in used}))
RecvTableBased(c, bins, plaintexts) ==
  ForEach(BinTypes(bins), LAMBDA b : Recv(c, b.kind, b.hi - b.lo) \o Decode(c, bins, plaintexts, b.lo, b.hi))
RecvPolyBased(c, bins, plaintexts) == RecvTableBased(c, bins, plaintexts)

\* One message about all items, from the values that some bin has stored
Stored(c, bins) == CombinedCells(c, bins, DOMAIN bins.simple)
SendFullPolyBased(c, bins, plaintexts) ==
  Read(Stored(c, bins) \cup Cells(plaintexts, 0, bins.n)) \o Send(c, "polynomials", bins.n * bins.hashes)
SendBFBased(c, bins, plaintexts) ==
  Read(Stored(c, bins) \cup Cells(plaintexts, 0, bins.n)) \o Send(c, "bloomFilter", bins.n * bins.hashes)
SendPlain(c, bins) == Read(Stored(c, bins)) \o Send(c, "oprfValues", bins.n * bins.hashes)

RecvFullPolyBased(c, bins, plaintexts) ==
  Recv(c, "polynomials", AnyLength) \o Decode(c, bins, plaintexts, 0, BinTotal(bins))
RecvBFBased(c, bins, plaintexts) ==
  Recv(c, "bloomFilter", AnyLength) \o Decode(c, bins, plaintexts, 0, BinTotal(bins))
RecvPlain(c, bins) ==
  Recv(c, "oprfValues", AnyLength) \o Read(CellsAt(CuckooVal(c), DOMAIN bins.cuckoo))
    \o Write({Cell(Local(c, "mIntersection"), 0)})

SendSS(kind, c, bins, plaintexts) ==
  CASE kind = "TABLEb"   -> SendTableBased(c, bins, plaintexts)
    [] kind = "SepPOLYb" -> SendPolyBased(c, bins, plaintexts)
    [] kind = "OnePOLYb" -> SendFullPolyBased(c, bins, plaintexts)
    [] kind = "BFb"      -> SendBFBased(c, bins, plaintexts)
RecvSS(kind, c, bins, plaintexts) ==
  CASE kind = "TABLEb"   -> RecvTableBased(c, bins, plaintexts)
    [] kind = "SepPOLYb" -> RecvPolyBased(c, bins, plaintexts)
    [] kind = "OnePOLYb" -> RecvFullPolyBased(c, bins, plaintexts)
    [] kind = "BFb"      -> RecvBFBased(c, bins, plaintexts)

\* In the other direction the sender class receives and the receiver class
\* sends, each with a copy of these functions of its own.
DualSendTableBased(c, bins, plaintexts)    == SendTableBased(c, bins, plaintexts)
DualSendPolyBased(c, bins, plaintexts)     == SendPolyBased(c, bins, plaintexts)
DualSendFullPolyBased(c, bins, plaintexts) == SendFullPolyBased(c, bins, plaintexts)
DualSendBFBased(c, bins, plaintexts)       == SendBFBased(c, bins, plaintexts)
DualRecvTableBased(c, bins, plaintexts)    == RecvTableBased(c, bins, plaintexts)
DualRecvPolyBased(c, bins, plaintexts)     == RecvPolyBased(c, bins, plaintexts)
DualRecvFullPolyBased(c, bins, plaintexts) == RecvFullPolyBased(c, bins, plaintexts)
DualRecvBFBased(c, bins, plaintexts)       == RecvBFBased(c, bins, plaintexts)

DualSendSS(kind, c, bins, plaintexts) ==
  CASE kind = "TABLEb"   -> DualSendTableBased(c, bins, plaintexts)
    [] kind = "SepPOLYb" -> DualSendPolyBased(c, bins, plaintexts)
    [] kind = "OnePOLYb" -> DualSendFullPolyBased(c, bins, plaintexts)
    [] kind = "BFb"      -> DualSendBFBased(c, bins, plaintexts)
DualRecvSS(kind, c, bins, plaintexts) ==
  CASE kind = "TABLEb"   -> DualRecvTableBased(c, bins, plaintexts)
    [] kind = "SepPOLYb" -> DualRecvPolyBased(c, bins, plaintexts)
    [] kind = "OnePOLYb" -> DualRecvFullPolyBased(c, bins, plaintexts)
    [] kind = "BFb"      -> DualRecvBFBased(c, bins, plaintexts)
=============================================================================
