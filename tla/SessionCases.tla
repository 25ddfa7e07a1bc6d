----------------------------- MODULE SessionCases ---------------------------
(***************************************************************************)
(* Instances of the programs of OtSessions, OprfSessions and PsiSessions   *)
(* for TLC.                                                                *)
(***************************************************************************)
EXTENDS PsiSessions, PartySessions

Main(p) == <<p, "main", << >>, 0>>
Two(a, b) == (Main(0) :> a) @@ (Main(1) :> b)
A == End(0, 0, 1)
B == End(0, 1, 0)
Chls(p, q, n) == [i \in 1 .. n |-> End(i - 1, p, q)]
Array(p, name) == <<p, name, << >>>>
MsgA == Array(0, "messages")
MsgB == Array(1, "messages")
Sizes == {Rows - 1, Rows, 2 * Rows * commStepSize + 1}

All(array, n) == Read(Cells(array, 0, n))
Sampled == {0, 1, 3, 4, 6}
Oos(c) == Local(c, "oos")

OtProgram ==
  [k \in {<<"np", 3, 2>>, <<"np", 1, 2>>} |->
     Two(NpReceive(A, k[2], k[3]) \o All(MsgA, k[2]), NpSend(B, k[2], k[3]) \o All(MsgB, k[2]))
       @@ NpReceiveHelpers(A, MsgA, k[2], k[3]) @@ NpSendHelpers(B, MsgB, k[2], k[3])]
  @@ [k \in {<<"iknp", n, 1>> : n \in {Rows, 2 * Rows * commStepSize}} |->
     Two(IknpSend(A, MsgA, 0, k[2]), IknpReceive(B, MsgB, 0, k[2]))]
  @@ [k \in {<<"kos", n, 1>> : n \in Sizes} |->
     Two(KosSendRows(A, MsgA, 0, k[2]) \o KosSendCheck(A, MsgA, 0, k[2]),
         KosReceiveRows(B, MsgB, 0, k[2]) \o KosReceiveCheck(B, MsgB, 0, k[2]))]
  @@ [k \in {<<"kosDot", n, 1>> : n \in Sizes} |->
     Two(KosDotSendRows(A, MsgA, 0, k[2]) \o KosDotSendCheck(A, MsgA, 0, k[2]),
         KosDotReceiveRows(B, MsgB, 0, k[2]) \o KosDotReceiveCheck(B, MsgB, 0, k[2]))]
  @@ [k \in {<<"lzKos", n, 1>> : n \in Sizes} |->
     Two(LzKosSend(A, MsgA, 0, k[2]), LzKosReceive(B, MsgB, 0, k[2]))]
  @@ [k \in {<<"oos", n, 1>> : n \in {1, 3}} |->
     Two(OosSendInit(Oos(A), k[2]) \o KkrtRecvCorrection(A, Oos(A), 0, 1)
           \o OosSendEncode(Oos(A), {0}) \o KkrtRecvCorrection(A, Oos(A), 1, k[2] - 1)
           \o OosSendEncode(Oos(A), 1 .. k[2] - 1) \o OosSendCheck(A, Oos(A), k[2]),
         OosReceiveInit(Oos(B), k[2]) \o OosReceiveEncode(Oos(B), {0}) \o KkrtSendCorrection(B, Oos(B), 0, 1)
           \o OosReceiveEncode(Oos(B), 1 .. k[2] - 1) \o KkrtSendCorrection(B, Oos(B), 1, k[2] - 1)
           \o OosReceiveCheck(B, Oos(B), k[2]))]
  @@ [k \in {<<"akn", n, t>> : n \in {6}, t \in {1, 2}} |->
     Two(AknSendInit(A, Chls(0, 1, k[3]), k[2], Sampled), AknReceiveInit(B, Chls(1, 0, k[3]), k[2], Sampled))
       @@ AknHelpers(A, Chls(0, 1, k[3]), [t \in 1 .. k[3] - 1 |-> AknSendRoutine(A, Chls(0, 1, k[3]), k[2], Sampled, t)])
       @@ AknHelpers(B, Chls(1, 0, k[3]), [t \in 1 .. k[3] - 1 |-> AknReceiveRoutine(B, Chls(1, 0, k[3]), k[2], Sampled, t)])]

\* Items 0 .. 2 of a party, item 2 in the stash; items 0 and 1 meet in bin 1,
\* 1 and 2 in bin 3, to which both hashes of item 2 lead; bin 2 is empty
SmallBins == [count |-> <<4, 2>>, n |-> 3, hashes |-> 3,
              cuckoo |-> (0 :> 0) @@ (1 :> 1) @@ (4 :> 2),
              simple |-> (0 :> {<<0, 0>>}) @@ (1 :> {<<0, 1>>, <<1, 0>>}) @@ (3 :> {<<1, 1>>, <<2, 0>>})
                           @@ (4 :> {<<2, 2>>}) @@ (5 :> {<<0, 2>>, <<1, 2>>})]

Shares(p) == Array(p, "sendPayLoads")
Got(p) == Array(p, "recvPayLoads")
OprfProgram ==
  [k \in {<<kind, other, 1>> : kind \in {"TABLEb", "SepPOLYb", "OnePOLYb", "BFb"}, other \in BOOLEAN} |->
     Two(Write(Cells(Shares(0), 0, 3)) \o OPPRFSenderInit(A, BinTotal(SmallBins), k[2])
           \o SenderKeys(k[1], A, SmallBins, k[2]) \o SendSS(k[1], A, SmallBins, Shares(0))
           \o When(k[2], DualRecvSS(k[1], A, SmallBins, Got(0)) \o All(Got(0), 3))
           \o Close(A) \o KkrtDestroyed(RecvTable(A), BinTotal(SmallBins)),
         Write(Cells(Shares(1), 0, 3)) \o OPPRFReceiverInit(B, BinTotal(SmallBins), k[2])
           \o ReceiverKeys(k[1], B, SmallBins, k[2]) \o RecvSS(k[1], B, SmallBins, Got(1)) \o All(Got(1), 3)
           \o When(k[2], DualSendSS(k[1], B, SmallBins, Shares(1)))
           \o Close(B) \o KkrtDestroyed(RecvTable(B), BinTotal(SmallBins)))
       @@ OPPRFSenderHelpers(A) @@ OPPRFReceiverHelpers(B)]

\* Two trials, but one in the largest of them and in user_server, which is
\* aug_party without its end
PartyProgram ==
  LET Of(main) == [name \in {Main(p) : p \in DOMAIN main} |-> main[name[1]]] IN
  (<<"party", 3, 1>> :>
     (Of([p \in 0 .. 2 |-> PartyMain(3, p, 1)])
        @@ PartyThreads(3, 0, 1) @@ PartyThreads(3, 1, 1) @@ PartyThreads(3, 2, 1)))
  @@ (<<"party3", 3, 2>> :>
     (Of([p \in 0 .. 2 |-> RingMain(p, 2)]) @@ RingThreads(0, 2) @@ RingThreads(1, 2) @@ RingThreads(2, 2)))
  @@ [k \in {<<"augParty", poly, 2>> : poly \in {0, 1}} |->
     Of([p \in 0 .. 2 |-> AugMain(3, p, k[3], k[2] = 1)]) @@ AugInitThreads(3, k[3])
       @@ AugKeysThreads(3, k[3]) @@ (IF k[2] = 1 THEN << >> ELSE AugShareThreads(3, k[3]))]
  @@ [k \in {<<"userServer", poly, 1>> : poly \in {0, 1}} |->
     Of([p \in 0 .. 2 |-> UserMain(3, p, k[3], k[2] = 1)]) @@ AugInitThreads(3, k[3])
       @@ AugKeysThreads(3, k[3]) @@ (IF k[2] = 1 THEN << >> ELSE AugShareThreads(3, k[3]))]
  @@ (<<"party2", 2, 1>> :>
     (Of([p \in 0 .. 1 |-> PairMain(p, Peer(p, 1 - p), SmallBins)])
        @@ PairThreads(0, Peer(0, 1)) @@ PairThreads(1, Peer(1, 0))))

\* Three items in four bins of two rows, with KKRT or OOS
BetaBins(oos, given) == [n |-> 3, bins |-> 4, size |-> 2, oos |-> oos, given |-> given,
                         place |-> (0 :> <<1>>) @@ (1 :> << >>) @@ (2 :> <<0, 2>>) @@ (3 :> << >>)]
\* Two items with two positions each in a filter of 5 bits, 2 of 8 OTs opened
Filter(given) == [n |-> 2, bf |-> 5, given |-> given, total |-> 8, sampled |-> {0, 4},
                  spots |-> (0 :> {1, 2}) @@ (1 :> {2, 4})]
NpSendBase(c, given) ==
  IF given THEN << >> ELSE NpSendHelpers(c, Local(c, "baseMsg"), gOtExtBaseOtCount, 2)
NpReceiveBase(c, given) ==
  IF given THEN << >> ELSE NpReceiveHelpers(c, Local(c, "kosSendBase"), gOtExtBaseOtCount, 2)
SenderChls(n) == Chls(0, 1, n)
ReceiverChls(n) == Chls(1, 0, n)
Destroyed(c, psi) == Close(c) \o KkrtDestroyed(RecvTable(c), OosRows(psi.bins * psi.size))

BetaProgram(psi) ==
  LET s == SenderChls(1) r == ReceiverChls(1) IN
  Two(BetaSenderInit(s, psi) \o BetaSenderInput(s) \o Destroyed(A, psi),
      BetaReceiverInit(r, psi) \o BetaReceiverInput(r) \o Destroyed(B, psi))
    @@ BetaSenderHelpers(s, psi) @@ BetaReceiverHelpers(r, psi)
    @@ NpSendBase(A, psi.given) @@ NpReceiveBase(B, psi.given)
DcwProgram(psi, t, SenderInit(_, _), SenderInput(_, _), ReceiverInit(_, _), ReceiverInput(_, _)) ==
  LET s == SenderChls(t) r == ReceiverChls(t) IN
  Two(SenderInit(s, psi) \o SenderInput(s, psi), ReceiverInit(r, psi) \o ReceiverInput(r, psi))
    @@ DcwSenderHelpers(s, psi) @@ DcwReceiverHelpers(r, psi)
    @@ NpReceiveBase(A, psi.given) @@ NpSendBase(B, psi.given)
RrProgram(psi, t, first) ==
  LET s == SenderChls(t) r == ReceiverChls(t) IN
  Two(RrSenderInit(s, psi) \o RrSenderInput(s, psi), RrReceiverInit(r, psi) \o RrReceiverInput(r, psi, first))
    @@ RrSenderHelpers(s, psi) @@ RrReceiverHelpers(r, psi, first)
DktProgram(psi, t) ==
  LET s == SenderChls(t) r == ReceiverChls(t) IN
  Two(DktSenderInput(s, psi), DktReceiverInput(r, psi)) @@ DktSenderHelpers(s, psi) @@ DktReceiverHelpers(r, psi)

PsiProgram ==
  (<<"beta", 0, 1>> :> BetaProgram(BetaBins(FALSE, FALSE))) @@ (<<"beta", 1, 1>> :> BetaProgram(BetaBins(TRUE, FALSE)))
  @@ [k \in {<<"dcw", 0, t>> : t \in {1, 2}} |-> 
       DcwProgram(Filter(FALSE), k[3], DcwSenderInit, DcwSenderInput, DcwReceiverInit, DcwReceiverInput)]
  @@ (<<"dcwR", 0, 1>> :> 
       DcwProgram(Filter(FALSE), 1, DcwRSenderInit, DcwRSenderInput, DcwRReceiverInit, DcwRReceiverInput))
  @@ (<<"dkt", 5, 1>> :> DktProgram([n |-> 5], 1))

\* Programs that share a buffer without a lock, or lend or share memory that
\* ends too soon
SharedProgram == [k \in {<<"rr", f, 2>> : f \in {0, 1}} |-> RrProgram(Filter(FALSE), k[3], k[2])]
LentProgram ==
  [k \in {<<"rr", 0, 1>>} |-> RrProgram(Filter(FALSE), k[3], k[2])] @@ SharedProgram
  @@ (<<"betaSet", 0, 1>> :> BetaProgram(BetaBins(FALSE, TRUE)))
PointProgram == <<"dkt", 3, 2>> :> DktProgram([n |-> 3], 2)

Opening(challenge, committed, everywhere) ==
  [challenge |-> challenge, committed |-> committed, everywhere |-> everywhere]
MCOpenings == {Opening("seed", "u", FALSE), Opening("oosSeed", "correction", FALSE), Opening("cncRootSeed", "u", TRUE)}
=============================================================================
