---------------------------- MODULE PartySessions ---------------------------
(***************************************************************************)
(* The parties of frontend/OtBinMain.cpp beside tparty, which has a module *)
(* of its own: party and party3 pass shares round a ring, the clients of   *)
(* aug_party and user_server send theirs to the last party, and party2 is  *)
(* the PSI of two.  A party goes through its phases in the main thread and *)
(* joins one thread for each other party in each of them.                  *)
(*                                                                         *)
(* Between more than two parties the pairwise protocols of OprfSessions    *)
(* are cut down to the messages that open each of their phases: the key    *)
(* of the sender and the answer to it for init, one correction for         *)
(* getOPRFkeys, one message of hints for sendSS.                           *)
(***************************************************************************)
EXTENDS OprfSessions, TLC

Peer(p, q) == End(0, p, q)
nextNeighbor(n, p) == (p + 1) % n
prevNeighbor(n, p) == (p - 1 + n) % n
PeersOf(n, p) == (0 .. n - 1) \ {p}

SendPay(p, q) == {Cell(<<p, "sendPayLoads", << >>>>, q)}
RecvPay(p, q) == {Cell(<<p, "recvPayLoads", << >>>>, q)}
AllSendPay(n, p) == Cells(<<p, "sendPayLoads", << >>>>, 0, n)
AllRecvPay(n, p) == Cells(<<p, "recvPayLoads", << >>>>, 0, n)
RowsFor(p, q) == {Cell(<<p, "mT1", << >>>>, q)}
LentRows(n, p) == Cells(<<p, "mT1", << >>>>, 0, n)

\* The two classes of a pair, and what they do with a vector of payloads
SenderStarts(p, q)   == Send(Peer(p, q), "C", 2) \o Recv(Peer(p, q), "PK0s", 1)
ReceiverStarts(p, q) == Recv(Peer(p, q), "C", 2) \o Send(Peer(p, q), "PK0s", 1)
Corrects(p, q)  == Write(RowsFor(p, q)) \o Lend(Peer(p, q), "correction", 1, RowsFor(p, q))
Corrected(p, q) == Recv(Peer(p, q), "correction", 1)
Sends(p, q, kind, payload)    == Read(payload) \o Send(Peer(p, q), kind, 1)
Receives(p, q, kind, payload) == Recv(Peer(p, q), kind, 1) \o Write(payload)

\* One phase of a trial: a thread for each other party that has a routine
Phase(p, name, trial) == <<p, name, <<trial>>>>
InThreads(p, name, trial, peers) == Launch(Phase(p, name, trial)) \o Join(Phase(p, name, trial), Cardinality(peers))
PhaseThreads(p, name, trials, routine) ==
  [th \in {Append(Phase(p, name, trial), q) : trial \in 1 .. trials, q \in DOMAIN routine} |->
     Thread(<<th[1], th[2], th[3]>>, routine[th[4]])]

EachTrial(trials, body) == Loop(0, trials, LAMBDA i : body[i + 1])
CloseAll(n, p) == Loop(0, n, LAMBDA q : When(q # p, Close(Peer(p, q))))
-----------------------------------------------------------------------------
(* party: every pair runs the protocol in both directions.  All parties    *)
(* but neighbours exchange shares at once; then what each has collected    *)
(* goes round, from party 0 to the last and back.                          *)

PartyInit(p, q) == IF q < p THEN ReceiverStarts(p, q) ELSE SenderStarts(p, q)
PartyKeys(p, q) == IF q < p THEN Corrects(p, q) \o Corrected(p, q) ELSE Corrected(p, q) \o Corrects(p, q)

\* The two branches of the code that follow these are never taken.
PartyShares(n, p, q) ==
  CASE q < p /\ q # prevNeighbor(n, p) -> Receives(p, q, "shares", RecvPay(p, q)) \o Sends(p, q, "shares", SendPay(p, q))
    [] q > p /\ q # nextNeighbor(n, p) -> Sends(p, q, "shares", SendPay(p, q)) \o Receives(p, q, "shares", RecvPay(p, q))
    [] q = prevNeighbor(n, p) /\ p # 0 -> Sends(p, q, "shares", SendPay(p, q))
    [] OTHER                   -> Receives(p, q, "shares", RecvPay(p, q))

\* Shares of zero but for party 0, which keeps their sum
PartyInputs(n, p) == Write(AllSendPay(n, p))

\* What a party collected from all but the one before it is added up.
Collected(n, p) == UNION {RecvPay(p, q) : q \in PeersOf(n, p) \ {prevNeighbor(n, p)}}
PassOn(n, p) == Write(SendPay(p, nextNeighbor(n, p))) \o Sends(p, nextNeighbor(n, p), "round", SendPay(p, nextNeighbor(n, p)))
PartyRound(n, p) ==
  IF p = 0
    THEN Read(Collected(n, p)) \o PassOn(n, p) \o Receives(p, prevNeighbor(n, p), "round", RecvPay(p, prevNeighbor(n, p)))
    ELSE Receives(p, prevNeighbor(n, p), "round", RecvPay(p, prevNeighbor(n, p)))
           \o Read(Collected(n, p) \cup RecvPay(p, prevNeighbor(n, p))) \o PassOn(n, p)
PartyIntersection(n, p) == When(p = 0, Read(SendPay(p, p) \cup RecvPay(p, prevNeighbor(n, p))))

PartyTrial(n, p, trial) ==
  PartyInputs(n, p) \o InThreads(p, "init", trial, PeersOf(n, p)) \o InThreads(p, "keys", trial, PeersOf(n, p))
    \o InThreads(p, "shares", trial, PeersOf(n, p)) \o PartyRound(n, p) \o PartyIntersection(n, p)
    \o Free(AllSendPay(n, p) \cup AllRecvPay(n, p) \cup LentRows(n, p))
PartyMain(n, p, trials) == EachTrial(trials, [i \in 1 .. trials |-> PartyTrial(n, p, i)]) \o CloseAll(n, p)
PartyThreads(n, p, trials) ==
  PhaseThreads(p, "init", trials, [q \in PeersOf(n, p) |-> PartyInit(p, q)])
    @@ PhaseThreads(p, "keys", trials, [q \in PeersOf(n, p) |-> PartyKeys(p, q)])
    @@ PhaseThreads(p, "shares", trials, [q \in PeersOf(n, p) |-> PartyShares(n, p, q)])
-----------------------------------------------------------------------------
(* party3: each pair runs the protocol in one direction, round a ring of   *)
(* three; the parties behind party 0 pass on what they got.                *)

RingInit(p, q) == IF q = nextNeighbor(3, p) THEN SenderStarts(p, q) ELSE ReceiverStarts(p, q)
RingKeys(p, q) == IF q = nextNeighbor(3, p) THEN Corrected(p, q) ELSE Corrects(p, q)
RingRound(p) ==
  IF p = 0 THEN Sends(p, nextNeighbor(3, p), "ring", SendPay(p, 0)) \o Receives(p, prevNeighbor(3, p), "ring", RecvPay(p, 0))
           ELSE Receives(p, prevNeighbor(3, p), "ring", RecvPay(p, 0)) \o Sends(p, nextNeighbor(3, p), "ring", RecvPay(p, 0))
RingIntersection(p) == When(p = 0, Read(SendPay(p, 0) \cup RecvPay(p, 0)))

RingTrial(p, trial) ==
  Write(SendPay(p, 0)) \o InThreads(p, "init", trial, PeersOf(3, p)) \o InThreads(p, "keys", trial, PeersOf(3, p))
    \o RingRound(p) \o RingIntersection(p) \o Free(SendPay(p, 0) \cup RecvPay(p, 0) \cup LentRows(3, p))
RingMain(p, trials) == EachTrial(trials, [i \in 1 .. trials |-> RingTrial(p, i)]) \o CloseAll(3, p)
RingThreads(p, trials) ==
  PhaseThreads(p, "init", trials, [q \in PeersOf(3, p) |-> RingInit(p, q)])
    @@ PhaseThreads(p, "keys", trials, [q \in PeersOf(3, p) |-> RingKeys(p, q)])
-----------------------------------------------------------------------------
(* aug_party: the shares come from seeds that the parties have in common,  *)
(* and only the leader, the last party, has threads.  With polynomials it  *)
(* takes one client after the other, as NTL is not safe for threads.       *)

AugClient(n, p) ==
  SenderStarts(p, n - 1) \o Corrected(p, n - 1) \o Sends(p, n - 1, "shares", SendPay(p, 0))
ReceivesShare(n, q) == Receives(n - 1, q, "shares", RecvPay(n - 1, q))
AugShares(n, trial, poly) ==
  IF poly THEN Loop(0, n - 1, LAMBDA q : ReceivesShare(n, q)) ELSE InThreads(n - 1, "shares", trial, 0 .. n - 2)
AugLeader(n, trial, poly) ==
  InThreads(n - 1, "init", trial, 0 .. n - 2) \o InThreads(n - 1, "keys", trial, 0 .. n - 2) \o AugShares(n, trial, poly)
AugIntersection(n) == Read(SendPay(n - 1, 0) \cup UNION {RecvPay(n - 1, q) : q \in 0 .. n - 2})

AugTrial(n, p, trial, poly) ==
  Write(SendPay(p, 0))
    \o (IF p = n - 1 THEN AugLeader(n, trial, poly) \o AugIntersection(n) ELSE AugClient(n, p))
    \o Free(SendPay(p, 0) \cup AllRecvPay(n, p) \cup LentRows(n, p))
AugMain(n, p, trials, poly) == EachTrial(trials, [i \in 1 .. trials |-> AugTrial(n, p, i, poly)]) \o CloseAll(n, p)
AugInitThreads(n, trials) == PhaseThreads(n - 1, "init", trials, [q \in 0 .. n - 2 |-> ReceiverStarts(n - 1, q)])
AugKeysThreads(n, trials) == PhaseThreads(n - 1, "keys", trials, [q \in 0 .. n - 2 |-> Corrects(n - 1, q)])
AugShareThreads(n, trials) == PhaseThreads(n - 1, "shares", trials, [q \in 0 .. n - 2 |-> ReceivesShare(n, q)])

(* user_server: the same, but nobody looks for the intersection.           *)
UserClient(n, p) == AugClient(n, p)
UserShares(n, trial, poly) == AugShares(n, trial, poly)
UserLeader(n, trial, poly) ==
  InThreads(n - 1, "init", trial, 0 .. n - 2) \o InThreads(n - 1, "keys", trial, 0 .. n - 2) \o UserShares(n, trial, poly)
UserTrial(n, p, trial, poly) ==
  Write(SendPay(p, 0)) \o (IF p = n - 1 THEN UserLeader(n, trial, poly) ELSE UserClient(n, p))
    \o Free(SendPay(p, 0) \cup AllRecvPay(n, p) \cup LentRows(n, p))
UserMain(n, p, trials, poly) == EachTrial(trials, [i \in 1 .. trials |-> UserTrial(n, p, i, poly)]) \o CloseAll(n, p)
-----------------------------------------------------------------------------
(* party2: party 1 has the class of the sender; the OPRF values are        *)
(* compared as they are.                                                   *)

PairInit(p, c, bins) ==
  IF p = 1 THEN OPPRFSenderInit(c, BinTotal(bins), FALSE) ELSE OPPRFReceiverInit(c, BinTotal(bins), FALSE)
PairKeys(p, c, bins) ==
  IF p = 1 THEN SenderCombinedKeys(c, bins, FALSE) ELSE ReceiverCombinedKeys(c, bins, FALSE)
PairCompare(p, c, bins) == IF p = 1 THEN SendPlain(c, bins) ELSE RecvPlain(c, bins)
PairEnd(p, c, bins) == When(p = 0, KkrtDestroyed(RecvTable(c), BinTotal(bins))) \o Close(c)
PairMain(p, c, bins) ==
  PairInit(p, c, bins) \o PairKeys(p, c, bins) \o PairCompare(p, c, bins) \o PairEnd(p, c, bins)
PairThreads(p, c) == IF p = 1 THEN OPPRFSenderHelpers(c) ELSE OPPRFReceiverHelpers(c)
=============================================================================
