------------------------- MODULE BtSocketIO_proofs -------------------------
(***************************************************************************)
(* Theorems about BtSocketIO, for every set of plans and every WireCap.    *)
(***************************************************************************)
EXTENDS BtSocketIO, SequenceTheorems, TLAPS

(***************************************************************************)
(* Sequences: what the steps on strands, queues and the wire need.         *)
(***************************************************************************)

LEMMA HeadTail ==
  ASSUME NEW S, NEW s \in Seq(S), s # << >>
  PROVE  /\ Head(s) \in S /\ Tail(s) \in Seq(S)
         /\ Len(s) \in Nat \ {0} /\ Len(Tail(s)) = Len(s) - 1
         /\ Head(s) = s[1]
         /\ \A i \in 1..Len(Tail(s)) : Tail(s)[i] = s[i + 1]
         /\ Tail(s) = << >> <=> Len(s) = 1
<1>1. Head(s) = s[1]
  OBVIOUS
<1>2. Tail(s) = << >> <=> Len(Tail(s)) = 0
  BY HeadTailProperties, EmptySeq
<1> QED BY <1>1, <1>2, HeadTailProperties, EmptySeq

LEMMA Appended ==
  ASSUME NEW S, NEW s \in Seq(S), NEW x \in S
  PROVE  /\ Append(s, x) \in Seq(S)
         /\ Append(s, x) # << >>
         /\ Len(s) \in Nat /\ Len(Append(s, x)) = Len(s) + 1
         /\ \A i \in 1..Len(s) : Append(s, x)[i] = s[i]
         /\ Append(s, x)[Len(s) + 1] = x
         /\ s = << >> <=> Len(s) = 0
         /\ Head(Append(s, x)) = IF s = << >> THEN x ELSE Head(s)
         /\ s = << >> => Tail(Append(s, x)) = << >>
<1>1. Append(s, x) \in Seq(S) /\ Len(Append(s, x)) = Len(s) + 1
  OBVIOUS
<1>2. \A i \in 1..Len(s) : Append(s, x)[i] = s[i]
  OBVIOUS
<1>3. Append(s, x)[Len(s) + 1] = x
  OBVIOUS
<1>4. Len(s) \in Nat /\ (s = << >> <=> Len(s) = 0)
  BY EmptySeq, LenProperties
<1>5. Append(s, x) # << >>
  BY <1>1, <1>4, EmptySeq
<1>6. Head(Append(s, x)) = Append(s, x)[1]
  OBVIOUS
<1>7. s # << >> => Head(Append(s, x)) = Head(s)
  BY <1>2, <1>4, <1>6
<1>8. s = << >> => Head(Append(s, x)) = x
  BY <1>3, <1>4, <1>6
<1>9. s = << >> => Tail(Append(s, x)) = << >>
  BY <1>1, <1>4, <1>5, HeadTailProperties, EmptySeq
<1> QED BY <1>1, <1>2, <1>3, <1>4, <1>5, <1>7, <1>8, <1>9

LEMMA PeerType == ASSUME NEW e \in Ends PROVE Peer(e) \in Ends /\ Peer(e) # e
  BY DEF Ends, Peer

(***************************************************************************)
(* First layer: types, driven queues, and a close is the last operation.   *)
(***************************************************************************)

LEMMA InitCore == Init => CoreInv
<1> SUFFICES ASSUME Init PROVE CoreInv
  OBVIOUS
<1> USE DEF Init
<1>1. UserTypeOK
  BY PlansAssumption, EmptySeq DEF UserTypeOK
<1>2. SendTypeOK /\ RecvTypeOK /\ WireTypeOK /\ GotTypeOK
  BY EmptySeq DEF SendTypeOK, RecvTypeOK, WireTypeOK, GotTypeOK
<1>3. KeptTypeOK /\ StatsTypeOK
  BY DEF KeptTypeOK, StatsTypeOK, Counters
<1>4. QueueDriven
  BY DEF QueueDriven
<1>5. SendCloseLast /\ RecvCloseLast
  BY EmptySeq DEF SendCloseLast, RecvCloseLast, Calling
<1> QED BY <1>1, <1>2, <1>3, <1>4, <1>5 DEF CoreInv, TypeOK

LEMMA SendCore == ASSUME CoreInv, NEW e \in Ends, Send(e) PROVE CoreInv'
<1> USE DEF CoreInv, TypeOK
<1> DEFINE c == Head(todo[e])
           op == Operation("SendData", Len(sent[e]) + 1, c.size, c.sync)
<1>1. c \in Call /\ Tail(todo[e]) \in Seq(Call)
  BY HeadTail DEF Send, UserTypeOK
<1>2. op \in SendOp /\ c.size \in Nat /\ c.sync \in BOOLEAN /\ op.type = "SendData"
  BY <1>1, LenProperties DEF Operation, SendOp, Call, UserTypeOK
<1>3. UserTypeOK'
  BY <1>1, <1>2 DEF Send, UserTypeOK
<1>4. SendTypeOK'
  BY <1>2, Appended DEF Send, SendTypeOK
<1>5. RecvTypeOK' /\ WireTypeOK' /\ KeptTypeOK' /\ GotTypeOK' /\ StatsTypeOK'
  BY DEF Send, RecvTypeOK, WireTypeOK, KeptTypeOK, GotTypeOK, StatsTypeOK
<1>6. QueueDriven'
  BY DEF Send, QueueDriven
<1>7. SendCloseLast'
  <2>1. sendStrand' = [sendStrand EXCEPT ![e] = Append(@, op)] /\ pc[e] = "run"
    BY DEF Send
  <2>2. \A i \in 1..Len(sendStrand[e]) : sendStrand[e][i].type # "CloseSend"
    BY <2>1 DEF SendCloseLast, Calling
  <2>3. \A i \in 1..Len(sendStrand'[e]) : sendStrand'[e][i].type # "CloseSend"
    BY <1>2, <2>1, <2>2, Appended DEF SendTypeOK
  <2>4. \A i \in 1..Len(mSendQueue[e]) : mSendQueue[e][i].type # "CloseSend"
    BY <2>1 DEF SendCloseLast, Calling
  <2>5. \A p \in kept[e] : p[1] # "CloseSend"
    BY <2>1 DEF SendCloseLast, Calling
  <2>6. pc'[e] # "closed" /\ \A f \in Ends \ {e} : pc'[f] = pc[f] /\ sendStrand'[f] = sendStrand[f]
    BY DEF Send, UserTypeOK, SendTypeOK
  <2>7. UNCHANGED <<mSendQueue, kept>>
    BY DEF Send
  <2> QED BY <2>3, <2>4, <2>5, <2>6, <2>7 DEF SendCloseLast
<1>8. RecvCloseLast'
  <2>1. UNCHANGED <<recvStrand, mRecvQueue, kept>> /\ pc[e] = "run" /\ pc'[e] # "closed"
    BY DEF Send, UserTypeOK
  <2>2. \A f \in Ends \ {e} : pc'[f] = pc[f]
    BY DEF Send, UserTypeOK
  <2> QED BY <2>1, <2>2 DEF RecvCloseLast, Calling
<1> QED BY <1>3, <1>4, <1>5, <1>6, <1>7, <1>8

LEMMA RecvCore == ASSUME CoreInv, NEW e \in Ends, Recv(e) PROVE CoreInv'
<1> USE DEF CoreInv, TypeOK
<1> DEFINE c == Head(todo[e])
           op == Operation("RecvData", recvs[e] + 1, c.size, c.size > 0)
<1>1. c \in Call /\ Tail(todo[e]) \in Seq(Call)
  BY HeadTail DEF Recv, UserTypeOK
<1>2. op \in RecvOp /\ c.size \in Nat /\ c.sync \in BOOLEAN /\ op.type = "RecvData"
  BY <1>1 DEF Operation, RecvOp, Call, UserTypeOK
<1>3. UserTypeOK'
  BY <1>1, <1>2 DEF Recv, UserTypeOK
<1>4. RecvTypeOK'
  BY <1>2, Appended DEF Recv, RecvTypeOK
<1>5. SendTypeOK' /\ WireTypeOK' /\ KeptTypeOK' /\ GotTypeOK' /\ StatsTypeOK'
  BY DEF Recv, SendTypeOK, WireTypeOK, KeptTypeOK, GotTypeOK, StatsTypeOK
<1>6. QueueDriven'
  BY DEF Recv, QueueDriven
<1>7. RecvCloseLast'
  <2>1. recvStrand' = [recvStrand EXCEPT ![e] = Append(@, op)] /\ pc[e] = "run"
    BY DEF Recv
  <2>2. \A i \in 1..Len(recvStrand[e]) : recvStrand[e][i].type # "CloseRecv"
    BY <2>1 DEF RecvCloseLast, Calling
  <2>3. \A i \in 1..Len(recvStrand'[e]) : recvStrand'[e][i].type # "CloseRecv"
    BY <1>2, <2>1, <2>2, Appended DEF RecvTypeOK
  <2>4. \A i \in 1..Len(mRecvQueue[e]) : mRecvQueue[e][i].type # "CloseRecv"
    BY <2>1 DEF RecvCloseLast, Calling
  <2>5. \A p \in kept[e] : p[1] # "CloseRecv"
    BY <2>1 DEF RecvCloseLast, Calling
  <2>6. pc'[e] # "closed" /\ \A f \in Ends \ {e} : pc'[f] = pc[f] /\ recvStrand'[f] = recvStrand[f]
    BY DEF Recv, UserTypeOK, RecvTypeOK
  <2>7. UNCHANGED <<mRecvQueue, kept>>
    BY DEF Recv
  <2> QED BY <2>3, <2>4, <2>5, <2>6, <2>7 DEF RecvCloseLast
<1>8. SendCloseLast'
  <2>1. UNCHANGED <<sendStrand, mSendQueue, kept>> /\ pc[e] = "run" /\ pc'[e] # "closed"
    BY DEF Recv, UserTypeOK
  <2>2. \A f \in Ends \ {e} : pc'[f] = pc[f]
    BY DEF Recv, UserTypeOK
  <2> QED BY <2>1, <2>2 DEF SendCloseLast, Calling
<1> QED BY <1>3, <1>4, <1>5, <1>6, <1>7, <1>8

(* Steps that change nothing but the program counter.                      *)
LEMMA PcCore ==
  ASSUME CoreInv, NEW e \in Ends, Return(e) \/ ReadFails(e) \/ WriteFails(e)
  PROVE  CoreInv'
<1> USE DEF CoreInv, TypeOK
<1>1. /\ UNCHANGED <<userVars, sendVars, recvVars, wire, kept, stats>>
      /\ \A f \in Ends \ {e} : pc'[f] = pc[f]
      /\ pc'[e] # "closed" /\ (pc'[e] \in Calling => pc[e] \in Calling)
      /\ pc' \in [Ends -> {"run", "waitSend", "waitRecv", "closing", "closed", "dead"}]
  BY DEF Return, ReadFails, WriteFails, UserTypeOK, Calling
<1>2. TypeOK'
  BY <1>1 DEF userVars, sendVars, recvVars, UserTypeOK, SendTypeOK, RecvTypeOK,
              WireTypeOK, KeptTypeOK, GotTypeOK, StatsTypeOK
<1>3. QueueDriven'
  BY <1>1 DEF sendVars, recvVars, QueueDriven
<1>4. SendCloseLast' /\ RecvCloseLast'
  BY <1>1 DEF sendVars, recvVars, SendCloseLast, RecvCloseLast
<1> QED BY <1>2, <1>3, <1>4

LEMMA CloseCore == ASSUME CoreInv, NEW e \in Ends, Close(e) PROVE CoreInv'
<1> USE DEF CoreInv, TypeOK
<1> DEFINE rop == CloseRecvOp(e)
           sop == Operation("CloseSend", Len(sent[e]) + 1, 0, TRUE)
<1>1. rop \in RecvOp /\ sop \in SendOp
  BY LenProperties DEF CloseRecvOp, Operation, RecvOp, SendOp, UserTypeOK
<1>2. /\ pc[e] = "run" /\ pc' = [pc EXCEPT ![e] = "closing"]
      /\ recvStrand' = [recvStrand EXCEPT ![e] = Append(@, rop)]
      /\ sendStrand' = [sendStrand EXCEPT ![e] = Append(@, sop)]
      /\ UNCHANGED <<userVars, mSendQueue, mRecvQueue, writing, reading, wire,
                     kept, got, stats>>
  BY DEF Close
<1> HIDE DEF rop, sop
<1>3. TypeOK'
  <2>1. UserTypeOK'
    BY <1>2 DEF UserTypeOK, userVars
  <2>2. SendTypeOK' /\ RecvTypeOK'
    BY <1>1, <1>2, Appended DEF SendTypeOK, RecvTypeOK
  <2>3. WireTypeOK' /\ KeptTypeOK' /\ GotTypeOK' /\ StatsTypeOK'
    BY <1>2 DEF WireTypeOK, KeptTypeOK, GotTypeOK, StatsTypeOK
  <2> QED BY <2>1, <2>2, <2>3
<1>4. QueueDriven'
  BY <1>2 DEF QueueDriven
<1>5. \A f \in Ends \ {e} : /\ pc'[f] = pc[f] /\ sendStrand'[f] = sendStrand[f]
                            /\ recvStrand'[f] = recvStrand[f]
  BY <1>2 DEF UserTypeOK, SendTypeOK, RecvTypeOK
<1>6. pc'[e] = "closing"
  BY <1>2 DEF UserTypeOK
<1>7. SendCloseLast'
  <2>1. /\ \A i \in 1..Len(sendStrand[e]) : sendStrand[e][i].type # "CloseSend"
        /\ \A i \in 1..Len(mSendQueue[e]) : mSendQueue[e][i].type # "CloseSend"
        /\ \A p \in kept[e] : p[1] # "CloseSend"
    BY <1>2 DEF SendCloseLast, Calling
  <2>2. \A i \in 1..Len(sendStrand'[e]) :
          sendStrand'[e][i].type = "CloseSend" => i = Len(sendStrand'[e])
    BY <1>1, <1>2, <2>1, Appended DEF SendTypeOK
  <2> QED BY <1>2, <1>5, <1>6, <2>1, <2>2 DEF SendCloseLast, Calling
<1>8. RecvCloseLast'
  <2>1. /\ \A i \in 1..Len(recvStrand[e]) : recvStrand[e][i].type # "CloseRecv"
        /\ \A i \in 1..Len(mRecvQueue[e]) : mRecvQueue[e][i].type # "CloseRecv"
        /\ \A p \in kept[e] : p[1] # "CloseRecv"
    BY <1>2 DEF RecvCloseLast, Calling
  <2>2. \A i \in 1..Len(recvStrand'[e]) :
          recvStrand'[e][i].type = "CloseRecv" => i = Len(recvStrand'[e])
    BY <1>1, <1>2, <2>1, Appended DEF RecvTypeOK
  <2> QED BY <1>2, <1>5, <1>6, <2>1, <2>2 DEF RecvCloseLast, Calling
<1> QED BY <1>3, <1>4, <1>7, <1>8

LEMMA CloseReturnCore == ASSUME CoreInv, NEW e \in Ends, CloseReturn(e) PROVE CoreInv'
<1> USE DEF CoreInv, TypeOK
<1>1. /\ UNCHANGED <<userVars, sendVars, recvVars, wire, kept, stats>>
      /\ pc[e] = "closing" /\ pc' = [pc EXCEPT ![e] = "closed"] /\ QueuesClosed(e)
  BY DEF CloseReturn
<1>2. TypeOK'
  BY <1>1 DEF userVars, sendVars, recvVars, UserTypeOK, SendTypeOK, RecvTypeOK,
              WireTypeOK, KeptTypeOK, GotTypeOK, StatsTypeOK
<1>3. QueueDriven'
  BY <1>1 DEF sendVars, recvVars, QueueDriven
<1>4. (\E p \in kept[e] : p[1] = "CloseSend") /\ (\E p \in kept[e] : p[1] = "CloseRecv")
  BY <1>1 DEF QueuesClosed, Fulfilled
<1>5. pc'[e] = "closed" /\ \A f \in Ends \ {e} : pc'[f] = pc[f]
  BY <1>1 DEF UserTypeOK
<1>6. SendCloseLast' /\ RecvCloseLast'
  BY <1>1, <1>4, <1>5 DEF sendVars, recvVars, SendCloseLast, RecvCloseLast, Calling
<1> QED BY <1>2, <1>3, <1>6

(* What sendOne leaves behind, when a close at the front of q is alone.    *)
LEMMA SendOneEffect ==
  ASSUME CoreInv, NEW e \in Ends, NEW q \in Seq(SendOp), q # << >>, SendOne(e, q),
         Head(q).type = "CloseSend" => Tail(q) = << >>
  PROVE  \/ /\ Head(q).type = "SendData"
            /\ mSendQueue' = [mSendQueue EXCEPT ![e] = q]
            /\ writing' = [writing EXCEPT ![e] = "header"]
            /\ kept' = kept
         \/ /\ Head(q).type = "CloseSend"
            /\ mSendQueue' = [mSendQueue EXCEPT ![e] = << >>]
            /\ writing' = [writing EXCEPT ![e] = "idle"]
            /\ kept' = [kept EXCEPT ![e] = @ \cup {Kept(Head(q), "value")}]
            /\ Kept(Head(q), "value") \in Promise
            /\ Kept(Head(q), "value")[1] = "CloseSend"
<1>1. Head(q) \in SendOp
  BY HeadTail
<1>2. Kept(Head(q), "value") \in Promise
        /\ Kept(Head(q), "value")[1] = Head(q).type
  BY <1>1 DEF Kept, Promise, SendOp
<1> QED BY <1>2 DEF SendOne

(* What the push of op leaves: q is the queue with op behind it, rest the   *)
(* strand without op.                                                      *)
PushSendResult(e, op, q, rest) ==
  /\ sendStrand[e] # << >> /\ op = sendStrand[e][1]
  /\ Len(sendStrand[e]) \in Nat \ {0} /\ Len(rest) = Len(sendStrand[e]) - 1
  /\ \A i \in 1..Len(rest) : rest[i] = sendStrand[e][i + 1]
  /\ rest = << >> <=> Len(sendStrand[e]) = 1
  /\ q # << >> /\ Len(mSendQueue[e]) \in Nat /\ Len(q) = Len(mSendQueue[e]) + 1
  /\ \A i \in 1..Len(mSendQueue[e]) : q[i] = mSendQueue[e][i]
  /\ q[Len(mSendQueue[e]) + 1] = op
  /\ mSendQueue[e] = << >> <=> Len(mSendQueue[e]) = 0
  /\ Head(q) = IF mSendQueue[e] = << >> THEN op ELSE Head(mSendQueue[e])
  /\ stats' = [stats EXCEPT ![e] = Charged(op, @)]
  /\ sendStrand' = [sendStrand EXCEPT ![e] = rest] /\ UNCHANGED <<userVars, pc, recvVars, wire>>
  /\ \A i \in 1..Len(mSendQueue[e]) : mSendQueue[e][i].type # "CloseSend"
  /\ \A p \in kept[e] : p[1] # "CloseSend"
  /\ op.type = "CloseSend" => rest = << >> /\ pc[e] \notin Calling
  /\ \/ /\ mSendQueue' = [mSendQueue EXCEPT ![e] = q] /\ kept' = kept
        /\ \/ mSendQueue[e] # << >> /\ writing' = writing
           \/ /\ mSendQueue[e] = << >> /\ op.type = "SendData"
              /\ writing' = [writing EXCEPT ![e] = "header"]
     \/ /\ op.type = "CloseSend" /\ mSendQueue[e] = << >>
        /\ mSendQueue' = [mSendQueue EXCEPT ![e] = << >>]
        /\ writing' = [writing EXCEPT ![e] = "idle"]
        /\ \E p \in Promise : p[1] = "CloseSend"
              /\ kept' = [kept EXCEPT ![e] = @ \cup {p}]

LEMMA PushSendEffect ==
  ASSUME CoreInv, NEW e \in Ends, PushSend(e)
  PROVE  \E op \in SendOp, q \in Seq(SendOp), rest \in Seq(SendOp) :
            PushSendResult(e, op, q, rest)
<1> USE DEF CoreInv, TypeOK
<1> DEFINE op == Head(sendStrand[e])
           q  == Append(mSendQueue[e], op)
           rest == Tail(sendStrand[e])
<1>1. /\ op \in SendOp /\ rest \in Seq(SendOp) /\ sendStrand[e] # << >>
      /\ op = sendStrand[e][1] /\ Len(rest) = Len(sendStrand[e]) - 1
      /\ \A i \in 1..Len(rest) : rest[i] = sendStrand[e][i + 1]
      /\ Len(sendStrand[e]) \in Nat \ {0}
      /\ rest = << >> <=> Len(sendStrand[e]) = 1
  <2>1. sendStrand[e] \in Seq(SendOp) /\ sendStrand[e] # << >>
    BY DEF PushSend, SendTypeOK
  <2> QED BY <2>1, HeadTail
<1>2. /\ q \in Seq(SendOp) /\ q # << >> /\ Len(mSendQueue[e]) \in Nat
      /\ Len(q) = Len(mSendQueue[e]) + 1
      /\ \A i \in 1..Len(mSendQueue[e]) : q[i] = mSendQueue[e][i]
      /\ q[Len(mSendQueue[e]) + 1] = op
      /\ mSendQueue[e] = << >> <=> Len(mSendQueue[e]) = 0
      /\ Head(q) = IF mSendQueue[e] = << >> THEN op ELSE Head(mSendQueue[e])
      /\ mSendQueue[e] = << >> => Tail(q) = << >>
  <2>1. mSendQueue[e] \in Seq(SendOp) /\ op \in SendOp
    BY <1>1 DEF SendTypeOK
  <2> HIDE DEF op
  <2> QED BY <2>1, Appended
<1>3. /\ sendStrand' = [sendStrand EXCEPT ![e] = rest]
      /\ UNCHANGED <<userVars, pc, recvVars, wire>>
      /\ \/ mSendQueue[e] = << >> /\ SendOne(e, q)
         \/ /\ mSendQueue[e] # << >> /\ mSendQueue' = [mSendQueue EXCEPT ![e] = q]
            /\ writing' = writing /\ kept' = kept
  BY <1>2 DEF PushSend, StartsNow
<1>4. stats' = [stats EXCEPT ![e] = Charged(op, @)]
  BY DEF PushSend
<1>5. op.type = "CloseSend" => rest = << >> /\ pc[e] \notin Calling
  BY <1>1 DEF SendCloseLast
<1>6. \A i \in 1..Len(mSendQueue[e]) : mSendQueue[e][i].type # "CloseSend"
  BY <1>1 DEF SendCloseLast
<1>7. \A p \in kept[e] : p[1] # "CloseSend"
  BY <1>1 DEF SendCloseLast
<1>8. \/ /\ mSendQueue' = [mSendQueue EXCEPT ![e] = q] /\ kept' = kept
         /\ \/ mSendQueue[e] # << >> /\ writing' = writing
            \/ /\ mSendQueue[e] = << >> /\ op.type = "SendData"
               /\ writing' = [writing EXCEPT ![e] = "header"]
      \/ /\ op.type = "CloseSend" /\ mSendQueue[e] = << >>
         /\ mSendQueue' = [mSendQueue EXCEPT ![e] = << >>]
         /\ writing' = [writing EXCEPT ![e] = "idle"]
         /\ \E p \in Promise : p[1] = "CloseSend"
               /\ kept' = [kept EXCEPT ![e] = @ \cup {p}]
  BY <1>2, <1>3, SendOneEffect
<1>9. PushSendResult(e, op, q, rest)
  <2> HIDE DEF op, q, rest
  <2> QED BY <1>1, <1>2, <1>3, <1>4, <1>5, <1>6, <1>7, <1>8 DEF PushSendResult
<1> QED BY <1>1, <1>2, <1>9

LEMMA PushSendCore == ASSUME CoreInv, NEW e \in Ends, PushSend(e) PROVE CoreInv'
<1> USE DEF CoreInv, TypeOK
<1>1. PICK op \in SendOp, q \in Seq(SendOp), rest \in Seq(SendOp) : PushSendResult(e, op, q, rest)
  BY PushSendEffect
<1>2. /\ sendStrand[e] # << >> /\ op = sendStrand[e][1]
      /\ Len(sendStrand[e]) \in Nat \ {0} /\ Len(rest) = Len(sendStrand[e]) - 1
      /\ \A i \in 1..Len(rest) : rest[i] = sendStrand[e][i + 1]
      /\ q # << >> /\ Len(mSendQueue[e]) \in Nat /\ Len(q) = Len(mSendQueue[e]) + 1
      /\ \A i \in 1..Len(mSendQueue[e]) : q[i] = mSendQueue[e][i]
      /\ q[Len(mSendQueue[e]) + 1] = op
      /\ mSendQueue[e] = << >> <=> Len(mSendQueue[e]) = 0
      /\ Head(q) = IF mSendQueue[e] = << >> THEN op ELSE Head(mSendQueue[e])
  BY <1>1 DEF PushSendResult
<1>3. sendStrand' = [sendStrand EXCEPT ![e] = rest] /\ UNCHANGED <<userVars, pc, recvVars, wire>>
  BY <1>1 DEF PushSendResult
<1>4. StatsTypeOK'
  <2>1. stats' = [stats EXCEPT ![e] = Charged(op, @)]
    BY <1>1 DEF PushSendResult
  <2>2. op.size \in Int
    BY DEF SendOp
  <2>3. stats[e] \in Counters
    BY DEF StatsTypeOK
  <2> QED BY <2>1, <2>2, <2>3 DEF StatsTypeOK, Counters, Charged
<1>5. op.type = "CloseSend" => rest = << >> /\ pc[e] \notin Calling
  BY <1>1 DEF PushSendResult
<1>6. \A i \in 1..Len(mSendQueue[e]) : mSendQueue[e][i].type # "CloseSend"
  BY <1>1 DEF PushSendResult
<1>7. \A p \in kept[e] : p[1] # "CloseSend"
  BY <1>1 DEF PushSendResult
<1>8. \/ /\ mSendQueue' = [mSendQueue EXCEPT ![e] = q] /\ kept' = kept
         /\ \/ mSendQueue[e] # << >> /\ writing' = writing
            \/ /\ mSendQueue[e] = << >> /\ op.type = "SendData"
               /\ writing' = [writing EXCEPT ![e] = "header"]
      \/ /\ op.type = "CloseSend" /\ mSendQueue[e] = << >>
         /\ mSendQueue' = [mSendQueue EXCEPT ![e] = << >>]
         /\ writing' = [writing EXCEPT ![e] = "idle"]
         /\ \E p \in Promise : p[1] = "CloseSend"
               /\ kept' = [kept EXCEPT ![e] = @ \cup {p}]
  BY <1>1 DEF PushSendResult
<1>9. TypeOK'
  <2>1. UserTypeOK' /\ RecvTypeOK' /\ WireTypeOK' /\ GotTypeOK'
    BY <1>3 DEF userVars, recvVars, UserTypeOK, RecvTypeOK, WireTypeOK, GotTypeOK
  <2>2. SendTypeOK'
    <3>1. << >> \in Seq(SendOp)
      BY EmptySeq
    <3>2. sendStrand' \in [Ends -> Seq(SendOp)]
      BY <1>1, <1>3 DEF SendTypeOK
    <3>3. mSendQueue' \in [Ends -> Seq(SendOp)]
      BY <1>2, <1>8, <3>1 DEF SendTypeOK
    <3>4. writing' \in [Ends -> {"idle", "header", "body", "written", "pop"}]
      BY <1>8 DEF SendTypeOK
    <3> QED BY <3>2, <3>3, <3>4 DEF SendTypeOK
  <2>3. KeptTypeOK'
    BY <1>8 DEF KeptTypeOK
  <2> QED BY <1>4, <2>1, <2>2, <2>3
<1>10. QueueDriven'
  BY <1>2, <1>3, <1>8 DEF QueueDriven, recvVars, SendTypeOK
<1>11. \A f \in Ends \ {e} : /\ sendStrand'[f] = sendStrand[f]
                             /\ mSendQueue'[f] = mSendQueue[f] /\ kept'[f] = kept[f]
  BY <1>3, <1>8 DEF SendTypeOK, KeptTypeOK
<1>12. SendCloseLast'
  <2>1. sendStrand'[e] = rest /\ pc' = pc
    BY <1>3 DEF SendTypeOK
  <2>2. pc[e] # "closed"
    BY <1>7 DEF SendCloseLast
  <2>3. \A i \in 1..Len(rest) : rest[i].type = "CloseSend" =>
          i = Len(rest) /\ pc[e] \notin Calling
    BY <1>2 DEF SendCloseLast
  <2>4. CASE mSendQueue' = [mSendQueue EXCEPT ![e] = q] /\ kept' = kept
    <3>1. mSendQueue'[e] = q /\ kept'[e] = kept[e]
      BY <2>4 DEF SendTypeOK
    <3>2. \A i \in 1..Len(q) : q[i].type = "CloseSend" =>
            i = Len(q) /\ rest = << >> /\ pc[e] \notin Calling
      BY <1>2, <1>5, <1>6
    <3> QED BY <1>7, <1>11, <2>1, <2>2, <2>3, <3>1, <3>2 DEF SendCloseLast
  <2>5. CASE op.type = "CloseSend" /\ mSendQueue' = [mSendQueue EXCEPT ![e] = << >>]
    <3>1. mSendQueue'[e] = << >> /\ rest = << >> /\ pc[e] \notin Calling
      BY <1>5, <2>5 DEF SendTypeOK
    <3> QED BY <1>11, <2>1, <2>2, <3>1, EmptySeq DEF SendCloseLast
  <2> QED BY <1>8, <2>4, <2>5
<1>13. RecvCloseLast'
  <2>1. \A f \in Ends : \A p \in kept'[f] : p[1] = "CloseRecv" => p \in kept[f]
    BY <1>8 DEF KeptTypeOK
  <2>2. \A f \in Ends : kept[f] \subseteq kept'[f]
    BY <1>8 DEF KeptTypeOK
  <2> QED BY <1>3, <2>1, <2>2 DEF RecvCloseLast, recvVars
<1> QED BY <1>9, <1>10, <1>12, <1>13

(* What the pop leaves: q is the queue without its front.                  *)
PopSendResult(e, q) ==
  /\ writing[e] = "pop" /\ mSendQueue[e] # << >> /\ Len(mSendQueue[e]) \in Nat \ {0}
  /\ Len(q) = Len(mSendQueue[e]) - 1 /\ \A i \in 1..Len(q) : q[i] = mSendQueue[e][i + 1]
  /\ UNCHANGED <<userVars, pc, sendStrand, recvVars, wire, stats>>
  /\ q # << >> /\ Head(q).type = "CloseSend" =>
       q[1] = Head(q) /\ Len(q) = 1 /\ sendStrand[e] = << >> /\ pc[e] \notin Calling
  /\ \/ /\ mSendQueue' = [mSendQueue EXCEPT ![e] = q] /\ kept' = kept
        /\ \/ q = << >> /\ writing' = [writing EXCEPT ![e] = "idle"]
           \/ /\ q # << >> /\ Head(q).type = "SendData"
              /\ writing' = [writing EXCEPT ![e] = "header"]
     \/ /\ q # << >> /\ Head(q).type = "CloseSend"
        /\ mSendQueue' = [mSendQueue EXCEPT ![e] = << >>]
        /\ writing' = [writing EXCEPT ![e] = "idle"]
        /\ \E p \in Promise : p[1] = "CloseSend"
              /\ kept' = [kept EXCEPT ![e] = @ \cup {p}]

LEMMA PopSendEffect ==
  ASSUME CoreInv, NEW e \in Ends, PopSend(e)
  PROVE  \E q \in Seq(SendOp) : PopSendResult(e, q)
<1> USE DEF CoreInv, TypeOK
<1> DEFINE q == Tail(mSendQueue[e])
<1>1. /\ mSendQueue[e] # << >> /\ q \in Seq(SendOp) /\ Len(q) = Len(mSendQueue[e]) - 1
      /\ Len(mSendQueue[e]) \in Nat \ {0}
      /\ \A i \in 1..Len(q) : q[i] = mSendQueue[e][i + 1]
  BY HeadTail DEF PopSend, QueueDriven, SendTypeOK
<1>2. q # << >> => /\ Head(q) \in SendOp /\ Len(q) \in Nat \ {0} /\ Head(q) = q[1]
                   /\ (Tail(q) = << >> <=> Len(q) = 1)
  BY <1>1, HeadTail
<1>3. \A i \in 1..Len(q) : q[i].type = "CloseSend" =>
        i = Len(q) /\ sendStrand[e] = << >> /\ pc[e] \notin Calling
  BY <1>1 DEF SendCloseLast
<1>4. q # << >> /\ Head(q).type = "CloseSend" =>
        Tail(q) = << >> /\ sendStrand[e] = << >> /\ pc[e] \notin Calling
  <2> HIDE DEF q
  <2> SUFFICES ASSUME q # << >>, Head(q).type = "CloseSend"
               PROVE  Tail(q) = << >> /\ sendStrand[e] = << >> /\ pc[e] \notin Calling
    OBVIOUS
  <2>1. 1 \in 1..Len(q) /\ q[1] = Head(q)
    BY <1>2
  <2>2. 1 = Len(q) /\ sendStrand[e] = << >> /\ pc[e] \notin Calling
    BY <1>3, <2>1
  <2> QED BY <1>2, <2>2
<1>5. /\ UNCHANGED <<userVars, pc, sendStrand, recvVars, wire, stats>>
      /\ \/ q # << >> /\ SendOne(e, q)
         \/ /\ q = << >> /\ mSendQueue' = [mSendQueue EXCEPT ![e] = q]
            /\ writing' = [writing EXCEPT ![e] = "idle"] /\ kept' = kept
  BY DEF PopSend, MoreToDo
<1>6. \/ /\ mSendQueue' = [mSendQueue EXCEPT ![e] = q] /\ kept' = kept
         /\ \/ q = << >> /\ writing' = [writing EXCEPT ![e] = "idle"]
            \/ /\ q # << >> /\ Head(q).type = "SendData"
               /\ writing' = [writing EXCEPT ![e] = "header"]
      \/ /\ q # << >> /\ Head(q).type = "CloseSend"
         /\ mSendQueue' = [mSendQueue EXCEPT ![e] = << >>]
         /\ writing' = [writing EXCEPT ![e] = "idle"]
         /\ \E p \in Promise : p[1] = "CloseSend"
               /\ kept' = [kept EXCEPT ![e] = @ \cup {p}]
  BY <1>1, <1>4, <1>5, SendOneEffect
<1>7. writing[e] = "pop"
  BY DEF PopSend
<1>8. PopSendResult(e, q)
  <2> HIDE DEF q
  <2> QED BY <1>1, <1>2, <1>4, <1>5, <1>6, <1>7 DEF PopSendResult
<1> QED BY <1>1, <1>8

LEMMA PopSendCore == ASSUME CoreInv, NEW e \in Ends, PopSend(e) PROVE CoreInv'
<1> USE DEF CoreInv, TypeOK
<1>1. PICK q \in Seq(SendOp) : PopSendResult(e, q)
  BY PopSendEffect
<1>2. /\ mSendQueue[e] # << >> /\ Len(mSendQueue[e]) \in Nat \ {0}
      /\ Len(q) = Len(mSendQueue[e]) - 1 /\ \A i \in 1..Len(q) : q[i] = mSendQueue[e][i + 1]
  BY <1>1 DEF PopSendResult
<1>3. \A i \in 1..Len(q) : q[i].type = "CloseSend" =>
        i = Len(q) /\ sendStrand[e] = << >> /\ pc[e] \notin Calling
  BY <1>2 DEF SendCloseLast
<1>4. q # << >> /\ Head(q).type = "CloseSend" =>
        sendStrand[e] = << >> /\ pc[e] \notin Calling
  BY <1>1 DEF PopSendResult
<1>5. UNCHANGED <<userVars, pc, sendStrand, recvVars, wire, stats>>
  BY <1>1 DEF PopSendResult
<1>6. \/ /\ mSendQueue' = [mSendQueue EXCEPT ![e] = q] /\ kept' = kept
         /\ \/ q = << >> /\ writing' = [writing EXCEPT ![e] = "idle"]
            \/ /\ q # << >> /\ Head(q).type = "SendData"
               /\ writing' = [writing EXCEPT ![e] = "header"]
      \/ /\ q # << >> /\ Head(q).type = "CloseSend"
         /\ mSendQueue' = [mSendQueue EXCEPT ![e] = << >>]
         /\ writing' = [writing EXCEPT ![e] = "idle"]
         /\ \E p \in Promise : p[1] = "CloseSend"
               /\ kept' = [kept EXCEPT ![e] = @ \cup {p}]
  BY <1>1 DEF PopSendResult
<1>7. TypeOK'
  <2>1. UserTypeOK' /\ RecvTypeOK' /\ WireTypeOK' /\ GotTypeOK' /\ StatsTypeOK'
    BY <1>5 DEF userVars, recvVars, UserTypeOK, RecvTypeOK, WireTypeOK, GotTypeOK, StatsTypeOK
  <2>2. SendTypeOK'
    <3>1. << >> \in Seq(SendOp)
      BY EmptySeq
    <3>2. mSendQueue' \in [Ends -> Seq(SendOp)]
      BY <1>2, <1>6, <3>1 DEF SendTypeOK
    <3>3. writing' \in [Ends -> {"idle", "header", "body", "written", "pop"}]
      BY <1>6 DEF SendTypeOK
    <3> QED BY <1>5, <3>2, <3>3 DEF SendTypeOK
  <2>3. KeptTypeOK'
    BY <1>6 DEF KeptTypeOK
  <2> QED BY <2>1, <2>2, <2>3
<1>8. QueueDriven'
  BY <1>5, <1>6 DEF QueueDriven, recvVars, SendTypeOK
<1>9. \A f \in Ends \ {e} : mSendQueue'[f] = mSendQueue[f] /\ kept'[f] = kept[f]
  BY <1>6 DEF SendTypeOK, KeptTypeOK
<1>10. SendCloseLast'
  <2>1. CASE mSendQueue' = [mSendQueue EXCEPT ![e] = q] /\ kept' = kept
    <3>1. mSendQueue'[e] = q
      BY <2>1 DEF SendTypeOK
    <3>2. \A p \in kept[e] : p[1] # "CloseSend"
      BY <1>2 DEF SendCloseLast
    <3> QED BY <1>3, <1>5, <1>9, <2>1, <3>1, <3>2 DEF SendCloseLast
  <2>2. CASE q # << >> /\ Head(q).type = "CloseSend" /\ mSendQueue' = [mSendQueue EXCEPT ![e] = << >>]
    <3>1. mSendQueue'[e] = << >> /\ sendStrand[e] = << >> /\ pc[e] \notin Calling
      BY <1>4, <2>2 DEF SendTypeOK
    <3>2. kept[e] \subseteq kept'[e]
      BY <1>6 DEF KeptTypeOK
    <3> QED BY <1>5, <1>9, <3>1, <3>2, EmptySeq DEF SendCloseLast
  <2> QED BY <1>6, <2>1, <2>2
<1>11. RecvCloseLast'
  <2>1. \A f \in Ends : \A p \in kept'[f] : p[1] = "CloseRecv" => p \in kept[f]
    BY <1>6 DEF KeptTypeOK
  <2>2. \A f \in Ends : kept[f] \subseteq kept'[f]
    BY <1>6 DEF KeptTypeOK
  <2> QED BY <1>5, <2>1, <2>2 DEF RecvCloseLast, recvVars
<1> QED BY <1>7, <1>8, <1>10, <1>11

(* What receiveOne leaves behind, when a close at the front of q is alone.    *)
LEMMA ReceiveOneEffect ==
  ASSUME CoreInv, NEW e \in Ends, NEW q \in Seq(RecvOp), q # << >>, ReceiveOne(e, q),
         Head(q).type = "CloseRecv" => Tail(q) = << >>
  PROVE  \/ /\ Head(q).type = "RecvData"
            /\ mRecvQueue' = [mRecvQueue EXCEPT ![e] = q]
            /\ reading' = [reading EXCEPT ![e] = "header"]
            /\ kept' = kept
         \/ /\ Head(q).type = "CloseRecv"
            /\ mRecvQueue' = [mRecvQueue EXCEPT ![e] = << >>]
            /\ reading' = [reading EXCEPT ![e] = "idle"]
            /\ kept' = [kept EXCEPT ![e] = @ \cup {Kept(Head(q), "value")}]
            /\ Kept(Head(q), "value") \in Promise
            /\ Kept(Head(q), "value")[1] = "CloseRecv"
<1>1. Head(q) \in RecvOp
  BY HeadTail
<1>2. Kept(Head(q), "value") \in Promise
        /\ Kept(Head(q), "value")[1] = Head(q).type
  BY <1>1 DEF Kept, Promise, RecvOp
<1> QED BY <1>2 DEF ReceiveOne

(* What the push of op leaves: q is the queue with op behind it, rest the   *)
(* strand without op.                                                      *)
PushRecvResult(e, op, q, rest) ==
  /\ recvStrand[e] # << >> /\ op = recvStrand[e][1]
  /\ Len(recvStrand[e]) \in Nat \ {0} /\ Len(rest) = Len(recvStrand[e]) - 1
  /\ \A i \in 1..Len(rest) : rest[i] = recvStrand[e][i + 1]
  /\ rest = << >> <=> Len(recvStrand[e]) = 1
  /\ q # << >> /\ Len(mRecvQueue[e]) \in Nat /\ Len(q) = Len(mRecvQueue[e]) + 1
  /\ \A i \in 1..Len(mRecvQueue[e]) : q[i] = mRecvQueue[e][i]
  /\ q[Len(mRecvQueue[e]) + 1] = op
  /\ mRecvQueue[e] = << >> <=> Len(mRecvQueue[e]) = 0
  /\ Head(q) = IF mRecvQueue[e] = << >> THEN op ELSE Head(mRecvQueue[e])
  /\ stats' = [stats EXCEPT ![e].in = @ + op.size]
  /\ recvStrand' = [recvStrand EXCEPT ![e] = rest] /\ UNCHANGED <<userVars, pc, sendVars, wire, got>>
  /\ \A i \in 1..Len(mRecvQueue[e]) : mRecvQueue[e][i].type # "CloseRecv"
  /\ \A p \in kept[e] : p[1] # "CloseRecv"
  /\ op.type = "CloseRecv" => rest = << >> /\ pc[e] \notin Calling
  /\ \/ /\ mRecvQueue' = [mRecvQueue EXCEPT ![e] = q] /\ kept' = kept
        /\ \/ mRecvQueue[e] # << >> /\ reading' = reading
           \/ /\ mRecvQueue[e] = << >> /\ op.type = "RecvData"
              /\ reading' = [reading EXCEPT ![e] = "header"]
     \/ /\ op.type = "CloseRecv" /\ mRecvQueue[e] = << >>
        /\ mRecvQueue' = [mRecvQueue EXCEPT ![e] = << >>]
        /\ reading' = [reading EXCEPT ![e] = "idle"]
        /\ \E p \in Promise : p[1] = "CloseRecv"
              /\ kept' = [kept EXCEPT ![e] = @ \cup {p}]

LEMMA PushRecvEffect ==
  ASSUME CoreInv, NEW e \in Ends, PushRecv(e)
  PROVE  \E op \in RecvOp, q \in Seq(RecvOp), rest \in Seq(RecvOp) :
            PushRecvResult(e, op, q, rest)
<1> USE DEF CoreInv, TypeOK
<1> DEFINE op == Head(recvStrand[e])
           q  == Append(mRecvQueue[e], op)
           rest == Tail(recvStrand[e])
<1>1. /\ op \in RecvOp /\ rest \in Seq(RecvOp) /\ recvStrand[e] # << >>
      /\ op = recvStrand[e][1] /\ Len(rest) = Len(recvStrand[e]) - 1
      /\ \A i \in 1..Len(rest) : rest[i] = recvStrand[e][i + 1]
      /\ Len(recvStrand[e]) \in Nat \ {0}
      /\ rest = << >> <=> Len(recvStrand[e]) = 1
  <2>1. recvStrand[e] \in Seq(RecvOp) /\ recvStrand[e] # << >>
    BY DEF PushRecv, RecvTypeOK
  <2> QED BY <2>1, HeadTail
<1>2. /\ q \in Seq(RecvOp) /\ q # << >> /\ Len(mRecvQueue[e]) \in Nat
      /\ Len(q) = Len(mRecvQueue[e]) + 1
      /\ \A i \in 1..Len(mRecvQueue[e]) : q[i] = mRecvQueue[e][i]
      /\ q[Len(mRecvQueue[e]) + 1] = op
      /\ mRecvQueue[e] = << >> <=> Len(mRecvQueue[e]) = 0
      /\ Head(q) = IF mRecvQueue[e] = << >> THEN op ELSE Head(mRecvQueue[e])
      /\ mRecvQueue[e] = << >> => Tail(q) = << >>
  <2>1. mRecvQueue[e] \in Seq(RecvOp) /\ op \in RecvOp
    BY <1>1 DEF RecvTypeOK
  <2> HIDE DEF op
  <2> QED BY <2>1, Appended
<1>3. /\ recvStrand' = [recvStrand EXCEPT ![e] = rest]
      /\ UNCHANGED <<userVars, pc, sendVars, wire, got>>
      /\ \/ mRecvQueue[e] = << >> /\ ReceiveOne(e, q)
         \/ /\ mRecvQueue[e] # << >> /\ mRecvQueue' = [mRecvQueue EXCEPT ![e] = q]
            /\ reading' = reading /\ kept' = kept
  BY <1>2 DEF PushRecv, StartsNow
<1>4. stats' = [stats EXCEPT ![e].in = @ + op.size]
  BY DEF PushRecv
<1>5. op.type = "CloseRecv" => rest = << >> /\ pc[e] \notin Calling
  BY <1>1 DEF RecvCloseLast
<1>6. \A i \in 1..Len(mRecvQueue[e]) : mRecvQueue[e][i].type # "CloseRecv"
  BY <1>1 DEF RecvCloseLast
<1>7. \A p \in kept[e] : p[1] # "CloseRecv"
  BY <1>1 DEF RecvCloseLast
<1>8. \/ /\ mRecvQueue' = [mRecvQueue EXCEPT ![e] = q] /\ kept' = kept
         /\ \/ mRecvQueue[e] # << >> /\ reading' = reading
            \/ /\ mRecvQueue[e] = << >> /\ op.type = "RecvData"
               /\ reading' = [reading EXCEPT ![e] = "header"]
      \/ /\ op.type = "CloseRecv" /\ mRecvQueue[e] = << >>
         /\ mRecvQueue' = [mRecvQueue EXCEPT ![e] = << >>]
         /\ reading' = [reading EXCEPT ![e] = "idle"]
         /\ \E p \in Promise : p[1] = "CloseRecv"
               /\ kept' = [kept EXCEPT ![e] = @ \cup {p}]
  BY <1>2, <1>3, ReceiveOneEffect
<1>9. PushRecvResult(e, op, q, rest)
  <2> HIDE DEF op, q, rest
  <2> QED BY <1>1, <1>2, <1>3, <1>4, <1>5, <1>6, <1>7, <1>8 DEF PushRecvResult
<1> QED BY <1>1, <1>2, <1>9

LEMMA PushRecvCore == ASSUME CoreInv, NEW e \in Ends, PushRecv(e) PROVE CoreInv'
<1> USE DEF CoreInv, TypeOK
<1>1. PICK op \in RecvOp, q \in Seq(RecvOp), rest \in Seq(RecvOp) : PushRecvResult(e, op, q, rest)
  BY PushRecvEffect
<1>2. /\ recvStrand[e] # << >> /\ op = recvStrand[e][1]
      /\ Len(recvStrand[e]) \in Nat \ {0} /\ Len(rest) = Len(recvStrand[e]) - 1
      /\ \A i \in 1..Len(rest) : rest[i] = recvStrand[e][i + 1]
      /\ q # << >> /\ Len(mRecvQueue[e]) \in Nat /\ Len(q) = Len(mRecvQueue[e]) + 1
      /\ \A i \in 1..Len(mRecvQueue[e]) : q[i] = mRecvQueue[e][i]
      /\ q[Len(mRecvQueue[e]) + 1] = op
      /\ mRecvQueue[e] = << >> <=> Len(mRecvQueue[e]) = 0
      /\ Head(q) = IF mRecvQueue[e] = << >> THEN op ELSE Head(mRecvQueue[e])
  BY <1>1 DEF PushRecvResult
<1>3. recvStrand' = [recvStrand EXCEPT ![e] = rest] /\ UNCHANGED <<userVars, pc, sendVars, wire, got>>
  BY <1>1 DEF PushRecvResult
<1>4. StatsTypeOK'
  <2>1. stats' = [stats EXCEPT ![e].in = @ + op.size]
    BY <1>1 DEF PushRecvResult
  <2>2. op.size \in Int
    BY DEF RecvOp
  <2>3. stats[e] \in Counters
    BY DEF StatsTypeOK
  <2>4. stats[e].in + op.size \in Int
    BY <2>2, <2>3 DEF Counters
  <2> QED BY <2>1, <2>3, <2>4 DEF StatsTypeOK, Counters
<1>5. op.type = "CloseRecv" => rest = << >> /\ pc[e] \notin Calling
  BY <1>1 DEF PushRecvResult
<1>6. \A i \in 1..Len(mRecvQueue[e]) : mRecvQueue[e][i].type # "CloseRecv"
  BY <1>1 DEF PushRecvResult
<1>7. \A p \in kept[e] : p[1] # "CloseRecv"
  BY <1>1 DEF PushRecvResult
<1>8. \/ /\ mRecvQueue' = [mRecvQueue EXCEPT ![e] = q] /\ kept' = kept
         /\ \/ mRecvQueue[e] # << >> /\ reading' = reading
            \/ /\ mRecvQueue[e] = << >> /\ op.type = "RecvData"
               /\ reading' = [reading EXCEPT ![e] = "header"]
      \/ /\ op.type = "CloseRecv" /\ mRecvQueue[e] = << >>
         /\ mRecvQueue' = [mRecvQueue EXCEPT ![e] = << >>]
         /\ reading' = [reading EXCEPT ![e] = "idle"]
         /\ \E p \in Promise : p[1] = "CloseRecv"
               /\ kept' = [kept EXCEPT ![e] = @ \cup {p}]
  BY <1>1 DEF PushRecvResult
<1>9. TypeOK'
  <2>1. UserTypeOK' /\ SendTypeOK' /\ WireTypeOK' /\ GotTypeOK'
    BY <1>3 DEF userVars, sendVars, UserTypeOK, SendTypeOK, WireTypeOK, GotTypeOK
  <2>2. RecvTypeOK'
    <3>1. << >> \in Seq(RecvOp)
      BY EmptySeq
    <3>2. recvStrand' \in [Ends -> Seq(RecvOp)]
      BY <1>1, <1>3 DEF RecvTypeOK
    <3>3. mRecvQueue' \in [Ends -> Seq(RecvOp)]
      BY <1>2, <1>8, <3>1 DEF RecvTypeOK
    <3>4. reading' \in [Ends -> {"idle", "header", "body", "pop", "stuck"}]
      BY <1>8 DEF RecvTypeOK
    <3> QED BY <3>2, <3>3, <3>4 DEF RecvTypeOK
  <2>3. KeptTypeOK'
    BY <1>8 DEF KeptTypeOK
  <2> QED BY <1>4, <2>1, <2>2, <2>3
<1>10. QueueDriven'
  <2>1. Head(q) = IF mRecvQueue[e] = << >> THEN op ELSE Head(mRecvQueue[e])
    BY <1>2
  <2>2. \/ /\ mRecvQueue'[e] = q
           /\ \/ mRecvQueue[e] # << >> /\ reading'[e] = reading[e]
              \/ mRecvQueue[e] = << >> /\ op.type = "RecvData" /\ reading'[e] = "header"
        \/ mRecvQueue'[e] = << >> /\ reading'[e] = "idle"
    BY <1>8 DEF RecvTypeOK
  <2>3. \A f \in Ends \ {e} : mRecvQueue'[f] = mRecvQueue[f] /\ reading'[f] = reading[f]
    BY <1>8 DEF RecvTypeOK
  <2>4. UNCHANGED <<mSendQueue, writing>>
    BY <1>3 DEF sendVars
  <2> QED BY <1>2, <2>1, <2>2, <2>3, <2>4 DEF QueueDriven
<1>11. \A f \in Ends \ {e} : /\ recvStrand'[f] = recvStrand[f]
                             /\ mRecvQueue'[f] = mRecvQueue[f] /\ kept'[f] = kept[f]
  BY <1>3, <1>8 DEF RecvTypeOK, KeptTypeOK
<1>12. RecvCloseLast'
  <2>1. recvStrand'[e] = rest /\ pc' = pc
    BY <1>3 DEF RecvTypeOK
  <2>2. pc[e] # "closed"
    BY <1>7 DEF RecvCloseLast
  <2>3. \A i \in 1..Len(rest) : rest[i].type = "CloseRecv" =>
          i = Len(rest) /\ pc[e] \notin Calling
    BY <1>2 DEF RecvCloseLast
  <2>4. CASE mRecvQueue' = [mRecvQueue EXCEPT ![e] = q] /\ kept' = kept
    <3>1. mRecvQueue'[e] = q /\ kept'[e] = kept[e]
      BY <2>4 DEF RecvTypeOK
    <3>2. \A i \in 1..Len(q) : q[i].type = "CloseRecv" =>
            i = Len(q) /\ rest = << >> /\ pc[e] \notin Calling
      BY <1>2, <1>5, <1>6
    <3> QED BY <1>7, <1>11, <2>1, <2>2, <2>3, <3>1, <3>2 DEF RecvCloseLast
  <2>5. CASE op.type = "CloseRecv" /\ mRecvQueue' = [mRecvQueue EXCEPT ![e] = << >>]
    <3>1. mRecvQueue'[e] = << >> /\ rest = << >> /\ pc[e] \notin Calling
      BY <1>5, <2>5 DEF RecvTypeOK
    <3> QED BY <1>11, <2>1, <2>2, <3>1, EmptySeq DEF RecvCloseLast
  <2> QED BY <1>8, <2>4, <2>5
<1>13. SendCloseLast'
  <2>1. \A f \in Ends : \A p \in kept'[f] : p[1] = "CloseSend" => p \in kept[f]
    BY <1>8 DEF KeptTypeOK
  <2>2. \A f \in Ends : kept[f] \subseteq kept'[f]
    BY <1>8 DEF KeptTypeOK
  <2> QED BY <1>3, <2>1, <2>2 DEF SendCloseLast, sendVars
<1> QED BY <1>9, <1>10, <1>12, <1>13

(* What the pop leaves: q is the queue without its front.                  *)
PopRecvResult(e, q) ==
  /\ reading[e] = "pop" /\ mRecvQueue[e] # << >> /\ Len(mRecvQueue[e]) \in Nat \ {0}
  /\ Len(q) = Len(mRecvQueue[e]) - 1 /\ \A i \in 1..Len(q) : q[i] = mRecvQueue[e][i + 1]
  /\ UNCHANGED <<userVars, pc, recvStrand, sendVars, wire, got, stats>>
  /\ q # << >> /\ Head(q).type = "CloseRecv" =>
       q[1] = Head(q) /\ Len(q) = 1 /\ recvStrand[e] = << >> /\ pc[e] \notin Calling
  /\ \/ /\ mRecvQueue' = [mRecvQueue EXCEPT ![e] = q] /\ kept' = kept
        /\ \/ q = << >> /\ reading' = [reading EXCEPT ![e] = "idle"]
           \/ /\ q # << >> /\ Head(q).type = "RecvData"
              /\ reading' = [reading EXCEPT ![e] = "header"]
     \/ /\ q # << >> /\ Head(q).type = "CloseRecv"
        /\ mRecvQueue' = [mRecvQueue EXCEPT ![e] = << >>]
        /\ reading' = [reading EXCEPT ![e] = "idle"]
        /\ \E p \in Promise : p[1] = "CloseRecv"
              /\ kept' = [kept EXCEPT ![e] = @ \cup {p}]

LEMMA PopRecvEffect ==
  ASSUME CoreInv, NEW e \in Ends, PopRecv(e)
  PROVE  \E q \in Seq(RecvOp) : PopRecvResult(e, q)
<1> USE DEF CoreInv, TypeOK
<1> DEFINE q == Tail(mRecvQueue[e])
<1>1. /\ mRecvQueue[e] # << >> /\ q \in Seq(RecvOp) /\ Len(q) = Len(mRecvQueue[e]) - 1
      /\ Len(mRecvQueue[e]) \in Nat \ {0}
      /\ \A i \in 1..Len(q) : q[i] = mRecvQueue[e][i + 1]
  BY HeadTail DEF PopRecv, QueueDriven, RecvTypeOK
<1>2. q # << >> => /\ Head(q) \in RecvOp /\ Len(q) \in Nat \ {0} /\ Head(q) = q[1]
                   /\ (Tail(q) = << >> <=> Len(q) = 1)
  BY <1>1, HeadTail
<1>3. \A i \in 1..Len(q) : q[i].type = "CloseRecv" =>
        i = Len(q) /\ recvStrand[e] = << >> /\ pc[e] \notin Calling
  BY <1>1 DEF RecvCloseLast
<1>4. q # << >> /\ Head(q).type = "CloseRecv" =>
        Tail(q) = << >> /\ recvStrand[e] = << >> /\ pc[e] \notin Calling
  <2> HIDE DEF q
  <2> SUFFICES ASSUME q # << >>, Head(q).type = "CloseRecv"
               PROVE  Tail(q) = << >> /\ recvStrand[e] = << >> /\ pc[e] \notin Calling
    OBVIOUS
  <2>1. 1 \in 1..Len(q) /\ q[1] = Head(q)
    BY <1>2
  <2>2. 1 = Len(q) /\ recvStrand[e] = << >> /\ pc[e] \notin Calling
    BY <1>3, <2>1
  <2> QED BY <1>2, <2>2
<1>5. /\ UNCHANGED <<userVars, pc, recvStrand, sendVars, wire, got, stats>>
      /\ \/ q # << >> /\ ReceiveOne(e, q)
         \/ /\ q = << >> /\ mRecvQueue' = [mRecvQueue EXCEPT ![e] = q]
            /\ reading' = [reading EXCEPT ![e] = "idle"] /\ kept' = kept
  BY DEF PopRecv, MoreToDo
<1>6. \/ /\ mRecvQueue' = [mRecvQueue EXCEPT ![e] = q] /\ kept' = kept
         /\ \/ q = << >> /\ reading' = [reading EXCEPT ![e] = "idle"]
            \/ /\ q # << >> /\ Head(q).type = "RecvData"
               /\ reading' = [reading EXCEPT ![e] = "header"]
      \/ /\ q # << >> /\ Head(q).type = "CloseRecv"
         /\ mRecvQueue' = [mRecvQueue EXCEPT ![e] = << >>]
         /\ reading' = [reading EXCEPT ![e] = "idle"]
         /\ \E p \in Promise : p[1] = "CloseRecv"
               /\ kept' = [kept EXCEPT ![e] = @ \cup {p}]
  BY <1>1, <1>4, <1>5, ReceiveOneEffect
<1>7. reading[e] = "pop"
  BY DEF PopRecv
<1>8. PopRecvResult(e, q)
  <2> HIDE DEF q
  <2> QED BY <1>1, <1>2, <1>4, <1>5, <1>6, <1>7 DEF PopRecvResult
<1> QED BY <1>1, <1>8

LEMMA PopRecvCore == ASSUME CoreInv, NEW e \in Ends, PopRecv(e) PROVE CoreInv'
<1> USE DEF CoreInv, TypeOK
<1>1. PICK q \in Seq(RecvOp) : PopRecvResult(e, q)
  BY PopRecvEffect
<1>2. /\ mRecvQueue[e] # << >> /\ Len(mRecvQueue[e]) \in Nat \ {0}
      /\ Len(q) = Len(mRecvQueue[e]) - 1 /\ \A i \in 1..Len(q) : q[i] = mRecvQueue[e][i + 1]
  BY <1>1 DEF PopRecvResult
<1>3. \A i \in 1..Len(q) : q[i].type = "CloseRecv" =>
        i = Len(q) /\ recvStrand[e] = << >> /\ pc[e] \notin Calling
  BY <1>2 DEF RecvCloseLast
<1>4. q # << >> /\ Head(q).type = "CloseRecv" =>
        recvStrand[e] = << >> /\ pc[e] \notin Calling
  BY <1>1 DEF PopRecvResult
<1>5. UNCHANGED <<userVars, pc, recvStrand, sendVars, wire, got, stats>>
  BY <1>1 DEF PopRecvResult
<1>6. \/ /\ mRecvQueue' = [mRecvQueue EXCEPT ![e] = q] /\ kept' = kept
         /\ \/ q = << >> /\ reading' = [reading EXCEPT ![e] = "idle"]
            \/ /\ q # << >> /\ Head(q).type = "RecvData"
               /\ reading' = [reading EXCEPT ![e] = "header"]
      \/ /\ q # << >> /\ Head(q).type = "CloseRecv"
         /\ mRecvQueue' = [mRecvQueue EXCEPT ![e] = << >>]
         /\ reading' = [reading EXCEPT ![e] = "idle"]
         /\ \E p \in Promise : p[1] = "CloseRecv"
               /\ kept' = [kept EXCEPT ![e] = @ \cup {p}]
  BY <1>1 DEF PopRecvResult
<1>7. TypeOK'
  <2>1. UserTypeOK' /\ SendTypeOK' /\ WireTypeOK' /\ GotTypeOK' /\ StatsTypeOK'
    BY <1>5 DEF userVars, sendVars, UserTypeOK, SendTypeOK, WireTypeOK, GotTypeOK, StatsTypeOK
  <2>2. RecvTypeOK'
    <3>1. << >> \in Seq(RecvOp)
      BY EmptySeq
    <3>2. mRecvQueue' \in [Ends -> Seq(RecvOp)]
      BY <1>2, <1>6, <3>1 DEF RecvTypeOK
    <3>3. reading' \in [Ends -> {"idle", "header", "body", "pop", "stuck"}]
      BY <1>6 DEF RecvTypeOK
    <3> QED BY <1>5, <3>2, <3>3 DEF RecvTypeOK
  <2>3. KeptTypeOK'
    BY <1>6 DEF KeptTypeOK
  <2> QED BY <2>1, <2>2, <2>3
<1>8. QueueDriven'
  BY <1>5, <1>6 DEF QueueDriven, sendVars, RecvTypeOK
<1>9. \A f \in Ends \ {e} : mRecvQueue'[f] = mRecvQueue[f] /\ kept'[f] = kept[f]
  BY <1>6 DEF RecvTypeOK, KeptTypeOK
<1>10. RecvCloseLast'
  <2>1. CASE mRecvQueue' = [mRecvQueue EXCEPT ![e] = q] /\ kept' = kept
    <3>1. mRecvQueue'[e] = q
      BY <2>1 DEF RecvTypeOK
    <3>2. \A p \in kept[e] : p[1] # "CloseRecv"
      BY <1>2 DEF RecvCloseLast
    <3> QED BY <1>3, <1>5, <1>9, <2>1, <3>1, <3>2 DEF RecvCloseLast
  <2>2. CASE q # << >> /\ Head(q).type = "CloseRecv" /\ mRecvQueue' = [mRecvQueue EXCEPT ![e] = << >>]
    <3>1. mRecvQueue'[e] = << >> /\ recvStrand[e] = << >> /\ pc[e] \notin Calling
      BY <1>4, <2>2 DEF RecvTypeOK
    <3>2. kept[e] \subseteq kept'[e]
      BY <1>6 DEF KeptTypeOK
    <3> QED BY <1>5, <1>9, <3>1, <3>2, EmptySeq DEF RecvCloseLast
  <2> QED BY <1>6, <2>1, <2>2
<1>11. SendCloseLast'
  <2>1. \A f \in Ends : \A p \in kept'[f] : p[1] = "CloseSend" => p \in kept[f]
    BY <1>6 DEF KeptTypeOK
  <2>2. \A f \in Ends : kept[f] \subseteq kept'[f]
    BY <1>6 DEF KeptTypeOK
  <2> QED BY <1>5, <2>1, <2>2 DEF SendCloseLast, sendVars
<1> QED BY <1>7, <1>8, <1>10, <1>11

LEMMA WriteCore == ASSUME CoreInv, NEW e \in Ends, Write(e) PROVE CoreInv'
<1> USE DEF CoreInv, TypeOK
<1>1. mSendQueue[e] # << >> /\ mSendQueue[e] \in Seq(SendOp)
  BY DEF Write, QueueDriven, SendTypeOK
<1>2. Part(writing[e], Head(mSendQueue[e])) \in WirePart
  <2>1. Head(mSendQueue[e]) \in SendOp
    BY <1>1, HeadTail
  <2>2. writing[e] \in {"header", "body"}
    BY DEF Write
  <2> QED BY <2>1, <2>2 DEF Part, WirePart, SendOp
<1>3. /\ wire' = [wire EXCEPT ![e] = Append(@, Part(writing[e], Head(mSendQueue[e])))]
      /\ writing[e] # "idle" /\ writing' = [writing EXCEPT ![e] =
            IF @ = "header" THEN "body" ELSE "written"]
      /\ UNCHANGED <<userVars, pc, sendStrand, mSendQueue, recvVars, kept, stats>>
  BY DEF Write
<1>4. WireTypeOK'
  <2> DEFINE x == Part(writing[e], Head(mSendQueue[e]))
  <2>1. wire[e] \in Seq(WirePart)
    BY DEF WireTypeOK
  <2> HIDE DEF x
  <2>2. Append(wire[e], x) \in Seq(WirePart)
    BY <1>2, <2>1, Appended DEF x
  <2> QED BY <1>3, <2>2 DEF WireTypeOK, x
<1>5. UserTypeOK' /\ SendTypeOK' /\ RecvTypeOK' /\ KeptTypeOK' /\ GotTypeOK' /\ StatsTypeOK'
  BY <1>3 DEF userVars, recvVars, UserTypeOK, SendTypeOK, RecvTypeOK, KeptTypeOK,
              GotTypeOK, StatsTypeOK
<1>6. QueueDriven'
  BY <1>3 DEF recvVars, QueueDriven, SendTypeOK
<1>7. SendCloseLast' /\ RecvCloseLast'
  BY <1>3 DEF recvVars, SendCloseLast, RecvCloseLast
<1> QED BY <1>4, <1>5, <1>6, <1>7

LEMMA WriteDoneCore == ASSUME CoreInv, NEW e \in Ends, WriteDone(e) PROVE CoreInv'
<1> USE DEF CoreInv, TypeOK
<1> DEFINE op == Head(mSendQueue[e])
<1>1. writing[e] = "written" /\ op \in SendOp /\ op.type = "SendData"
  <2>1. mSendQueue[e] # << >> /\ mSendQueue[e] \in Seq(SendOp)
    BY DEF WriteDone, QueueDriven, SendTypeOK
  <2> QED BY <2>1, HeadTail DEF WriteDone, QueueDriven
<1>2. /\ stats' = [stats EXCEPT ![e].outstanding = @ - op.size]
      /\ writing' = [writing EXCEPT ![e] = "pop"]
      /\ UNCHANGED <<userVars, pc, sendStrand, mSendQueue, recvVars, wire>>
      /\ \/ kept' = kept
         \/ kept' = [kept EXCEPT ![e] = @ \cup {Kept(op, "value")}]
  <2>1. kept' = [kept EXCEPT ![e] = IF op.flag THEN @ \cup {Kept(op, "value")} ELSE @]
    BY DEF WriteDone
  <2>2. CASE op.flag
    BY <2>1, <2>2 DEF WriteDone, Uncharged
  <2>3. CASE ~op.flag
    BY <2>1, <2>3 DEF WriteDone, Uncharged, KeptTypeOK
  <2> QED BY <2>2, <2>3
<1>3. Kept(op, "value") \in Promise /\ Kept(op, "value")[1] = "SendData"
  BY <1>1 DEF Kept, Promise, SendOp
<1>4. StatsTypeOK'
  <2>1. op.size \in Int
    BY <1>1 DEF SendOp
  <2> HIDE DEF op
  <2> QED BY <1>2, <2>1 DEF StatsTypeOK, Counters
<1>5. KeptTypeOK'
  BY <1>2, <1>3 DEF KeptTypeOK
<1> HIDE DEF op
<1>6. UserTypeOK' /\ SendTypeOK' /\ RecvTypeOK' /\ WireTypeOK' /\ GotTypeOK'
  BY <1>2 DEF userVars, recvVars, UserTypeOK, SendTypeOK, RecvTypeOK, WireTypeOK, GotTypeOK
<1>7. QueueDriven'
  BY <1>1, <1>2 DEF recvVars, QueueDriven, SendTypeOK
<1>8. \A f \in Ends : \A p \in kept'[f] :
        p[1] \in {"CloseSend", "CloseRecv"} => p \in kept[f]
  BY <1>2, <1>3 DEF KeptTypeOK
<1>9. \A f \in Ends : kept[f] \subseteq kept'[f]
  BY <1>2 DEF KeptTypeOK
<1>10. SendCloseLast' /\ RecvCloseLast'
  BY <1>2, <1>8, <1>9 DEF recvVars, SendCloseLast, RecvCloseLast
<1> QED BY <1>4, <1>5, <1>6, <1>7, <1>10

(* What the header read leaves: rest is the wire without the header, t the *)
(* queue with the length of the message in its front.                      *)
ReadHeaderResult(e, t, rest) ==
  LET w == wire[Peer(e)] IN
  /\ reading[e] = "header" /\ mRecvQueue[e] # << >>
  /\ Len(w) \in Nat \ {0} /\ Len(rest) = Len(w) - 1
  /\ \A i \in 1..Len(rest) : rest[i] = w[i + 1]
  /\ t # << >> /\ Len(t) = Len(mRecvQueue[e]) /\ Len(t) \in Nat \ {0}
  /\ \A i \in 1..Len(t) : t[i].type = mRecvQueue[e][i].type
                            /\ t[i].nth = mRecvQueue[e][i].nth
  /\ t[1].size = w[1].size /\ Head(t).type = "RecvData"
  /\ mRecvQueue' = [mRecvQueue EXCEPT ![e] = t]
  /\ wire' = [wire EXCEPT ![Peer(e)] = rest]
  /\ UNCHANGED <<userVars, pc, sendVars, recvStrand, got, stats>>
  /\ \E r \in {"body", "stuck"} : reading' = [reading EXCEPT ![e] = r]
  /\ \/ kept' = kept
     \/ \E p \in Promise : p[1] = "RecvData" /\ kept' = [kept EXCEPT ![e] = @ \cup {p}]

LEMMA ReadHeaderEffect ==
  ASSUME CoreInv, NEW e \in Ends, ReadHeader(e)
  PROVE  \E t \in Seq(RecvOp), rest \in Seq(WirePart) : ReadHeaderResult(e, t, rest)
<1> USE DEF CoreInv, TypeOK
<1> DEFINE op   == Head(mRecvQueue[e])
           len  == Head(wire[Peer(e)]).size
           fits == op.flag => op.size = len
           rest == Tail(wire[Peer(e)])
           s    == mRecvQueue[e]
           t    == [s EXCEPT ![1].size = len]
<1>1. /\ reading[e] = "header" /\ s \in Seq(RecvOp) /\ s # << >>
      /\ Peer(e) \in Ends /\ wire[Peer(e)] \in Seq(WirePart) /\ wire[Peer(e)] # << >>
  BY PeerType DEF ReadHeader, QueueDriven, RecvTypeOK, WireTypeOK
<1>2. /\ op \in RecvOp /\ op = s[1] /\ Len(s) \in Nat \ {0} /\ op.type = "RecvData"
      /\ len \in Nat /\ rest \in Seq(WirePart)
  <2>1. Head(wire[Peer(e)]) \in WirePart /\ rest \in Seq(WirePart)
    BY <1>1, HeadTail
  <2>2. len \in Nat
    BY <2>1 DEF WirePart
  <2>3. op \in RecvOp /\ op = s[1] /\ Len(s) \in Nat \ {0}
    BY <1>1, HeadTail
  <2>4. op.type = "RecvData"
    BY <1>1 DEF QueueDriven
  <2> QED BY <2>1, <2>2, <2>3, <2>4
<1>3. /\ reading' = [reading EXCEPT ![e] = IF fits THEN "body" ELSE "stuck"]
      /\ mRecvQueue' = [mRecvQueue EXCEPT ![e] = t]
      /\ wire' = [wire EXCEPT ![Peer(e)] = rest]
      /\ UNCHANGED <<userVars, pc, sendVars, recvStrand, got, stats>>
  BY DEF ReadHeader, RecvTypeOK
<1>4. \/ kept' = kept
      \/ kept' = [kept EXCEPT ![e] = @ \cup {Kept(op, "null")}]
  <2>1. CASE fits
    BY <2>1 DEF ReadHeader, KeptTypeOK
  <2>2. CASE ~fits
    BY <2>2 DEF ReadHeader
  <2> QED BY <2>1, <2>2
<1>5. Kept(op, "null") \in Promise /\ Kept(op, "null")[1] = "RecvData"
  BY <1>2 DEF Kept, Promise, RecvOp
<1>6. /\ t \in Seq(RecvOp) /\ Len(t) = Len(s) /\ t # << >>
      /\ \A i \in 1..Len(s) : t[i].type = s[i].type /\ t[i].nth = s[i].nth
      /\ t[1].size = len /\ Head(t).type = "RecvData"
  <2>1. 1 \in 1..Len(s) /\ \A i \in 1..Len(s) : s[i] \in RecvOp
    BY <1>1, <1>2, LenProperties
  <2> DEFINE x == [s[1] EXCEPT !.size = len]
  <2>2. x \in RecvOp /\ x.type = s[1].type /\ x.nth = s[1].nth /\ x.size = len
    BY <1>2, <2>1 DEF RecvOp
  <2>3. t = [s EXCEPT ![1] = x]
    OBVIOUS
  <2> HIDE DEF x
  <2>4. t \in Seq(RecvOp) /\ Len(t) = Len(s) /\ \A i \in 1..Len(s) : t[i] = IF i = 1 THEN x ELSE s[i]
    <3> HIDE DEF s, t
    <3> QED BY <1>1, <2>1, <2>2, <2>3, ExceptSeq
  <2> HIDE DEF t
  <2>5. t # << >>
    BY <1>2, <2>4, EmptySeq
  <2>6. Head(t) = t[1]
    BY <2>4, <2>5, HeadTail
  <2> QED BY <1>2, <2>1, <2>2, <2>4, <2>5, <2>6
<1>7. /\ Len(wire[Peer(e)]) \in Nat \ {0} /\ Len(rest) = Len(wire[Peer(e)]) - 1
      /\ \A i \in 1..Len(rest) : rest[i] = wire[Peer(e)][i + 1]
      /\ len = wire[Peer(e)][1].size
  BY <1>1, HeadTail
<1>8. ReadHeaderResult(e, t, rest)
  <2>1. \E r \in {"body", "stuck"} : reading' = [reading EXCEPT ![e] = r]
    BY <1>3
  <2>2. \/ kept' = kept
        \/ \E p \in Promise : p[1] = "RecvData" /\ kept' = [kept EXCEPT ![e] = @ \cup {p}]
    <3> HIDE DEF op
    <3> QED BY <1>4, <1>5
  <2>3. Len(t) \in Nat \ {0} /\ Len(t) = Len(mRecvQueue[e])
          /\ \A i \in 1..Len(t) : t[i].type = mRecvQueue[e][i].type
               /\ t[i].nth = mRecvQueue[e][i].nth
    <3>1. s = mRecvQueue[e]
      OBVIOUS
    <3> HIDE DEF s, t
    <3> QED BY <1>2, <1>6, <3>1
  <2> HIDE DEF op, len, fits, rest, t
  <2> QED BY <1>1, <1>3, <1>6, <1>7, <2>1, <2>2, <2>3 DEF ReadHeaderResult
<1> QED BY <1>2, <1>6, <1>8

LEMMA ReadHeaderCore == ASSUME CoreInv, NEW e \in Ends, ReadHeader(e) PROVE CoreInv'
<1> USE DEF CoreInv, TypeOK
<1>1. PICK t \in Seq(RecvOp), rest \in Seq(WirePart) : ReadHeaderResult(e, t, rest)
  BY ReadHeaderEffect
<1>2. /\ mRecvQueue[e] # << >> /\ Peer(e) \in Ends
      /\ t # << >> /\ Len(t) = Len(mRecvQueue[e])
      /\ \A i \in 1..Len(t) : t[i].type = mRecvQueue[e][i].type
      /\ Head(t).type = "RecvData"
  BY <1>1, PeerType DEF ReadHeaderResult
<1>3. /\ mRecvQueue' = [mRecvQueue EXCEPT ![e] = t]
      /\ wire' = [wire EXCEPT ![Peer(e)] = rest]
      /\ UNCHANGED <<userVars, pc, sendVars, recvStrand, got, stats>>
      /\ \E r \in {"body", "stuck"} : reading' = [reading EXCEPT ![e] = r]
  BY <1>1 DEF ReadHeaderResult
<1>4. \/ kept' = kept
      \/ \E p \in Promise : p[1] = "RecvData" /\ kept' = [kept EXCEPT ![e] = @ \cup {p}]
  BY <1>1 DEF ReadHeaderResult
<1>7. UserTypeOK' /\ SendTypeOK' /\ GotTypeOK' /\ StatsTypeOK'
  BY <1>3 DEF userVars, sendVars, UserTypeOK, SendTypeOK, GotTypeOK, StatsTypeOK
<1>8. RecvTypeOK' /\ WireTypeOK'
  BY <1>2, <1>3 DEF RecvTypeOK, WireTypeOK
<1>9. KeptTypeOK'
  BY <1>4 DEF KeptTypeOK
<1>10. QueueDriven'
  BY <1>2, <1>3 DEF sendVars, QueueDriven, RecvTypeOK
<1>11. \A f \in Ends : \A p \in kept'[f] :
        p[1] \in {"CloseSend", "CloseRecv"} => p \in kept[f]
  BY <1>4 DEF KeptTypeOK
<1>12. \A f \in Ends : kept[f] \subseteq kept'[f]
  BY <1>4 DEF KeptTypeOK
<1>13. SendCloseLast'
  BY <1>3, <1>11, <1>12 DEF sendVars, SendCloseLast
<1>14. RecvCloseLast'
  <2>1. mRecvQueue'[e] = t /\ \A f \in Ends \ {e} : mRecvQueue'[f] = mRecvQueue[f]
    BY <1>3 DEF RecvTypeOK
  <2> QED BY <1>2, <1>3, <1>11, <1>12, <2>1 DEF RecvCloseLast
<1> QED BY <1>7, <1>8, <1>9, <1>10, <1>13, <1>14

LEMMA ReadBodyCore == ASSUME CoreInv, NEW e \in Ends, ReadBody(e) PROVE CoreInv'
<1> USE DEF CoreInv, TypeOK
<1> DEFINE op   == Head(mRecvQueue[e])
           part == Head(wire[Peer(e)])
           rest == Tail(wire[Peer(e)])
           new  == [recv |-> op.nth, msg |-> part.nth, len |-> op.size]
<1>1. /\ mRecvQueue[e] \in Seq(RecvOp) /\ mRecvQueue[e] # << >> /\ Peer(e) \in Ends
      /\ wire[Peer(e)] \in Seq(WirePart) /\ wire[Peer(e)] # << >>
  BY PeerType DEF ReadBody, QueueDriven, RecvTypeOK, WireTypeOK
<1>2. op \in RecvOp /\ part \in WirePart /\ rest \in Seq(WirePart)
  BY <1>1, HeadTail
<1>3. op.type = "RecvData" /\ reading[e] = "body"
  BY <1>1 DEF ReadBody, QueueDriven
<1>4. new \in Receipt /\ Kept(op, "value") \in Promise /\ Kept(op, "value")[1] = "RecvData"
  BY <1>2, <1>3 DEF Receipt, RecvOp, WirePart, Kept, Promise
<1>5. /\ got' = [got EXCEPT ![e] = Append(@, new)]
      /\ kept' = [kept EXCEPT ![e] = @ \cup {Kept(op, "value")}]
      /\ reading' = [reading EXCEPT ![e] = "pop"]
      /\ wire' = [wire EXCEPT ![Peer(e)] = rest]
      /\ UNCHANGED <<userVars, pc, sendVars, recvStrand, mRecvQueue, stats>>
  BY DEF ReadBody
<1> HIDE DEF op, part, rest, new
<1>6. UserTypeOK' /\ SendTypeOK' /\ RecvTypeOK' /\ StatsTypeOK'
  BY <1>5 DEF userVars, sendVars, UserTypeOK, SendTypeOK, RecvTypeOK, StatsTypeOK
<1>7. GotTypeOK'
  <2>1. got[e] \in Seq(Receipt) /\ Append(got[e], new) \in Seq(Receipt)
    BY <1>4, Appended DEF GotTypeOK
  <2> QED BY <1>5, <2>1 DEF GotTypeOK
<1>8. WireTypeOK' /\ KeptTypeOK'
  BY <1>1, <1>2, <1>4, <1>5 DEF WireTypeOK, KeptTypeOK
<1>9. QueueDriven'
  BY <1>3, <1>5 DEF sendVars, QueueDriven, RecvTypeOK
<1>10. \A f \in Ends : \A p \in kept'[f] :
        p[1] \in {"CloseSend", "CloseRecv"} => p \in kept[f]
  BY <1>4, <1>5 DEF KeptTypeOK
<1>11. \A f \in Ends : kept[f] \subseteq kept'[f]
  BY <1>5 DEF KeptTypeOK
<1>12. SendCloseLast' /\ RecvCloseLast'
  BY <1>5, <1>10, <1>11 DEF sendVars, SendCloseLast, RecvCloseLast
<1> QED BY <1>6, <1>7, <1>8, <1>9, <1>12

LEMMA ResetCore == ASSUME CoreInv, NEW e \in Ends, Reset(e) PROVE CoreInv'
<1> USE DEF CoreInv, TypeOK
<1>1. PICK n \in 0..(Len(wire[e]) - 1) :
        wire' = [wire EXCEPT ![e] = SubSeq(@, 1, n)]
  BY DEF Reset
<1>2. UNCHANGED <<userVars, pc, sendVars, recvVars, kept, stats>>
  BY DEF Reset
<1>3. WireTypeOK'
  <2>1. wire[e] \in Seq(WirePart) /\ Len(wire[e]) \in Nat
    BY LenProperties DEF WireTypeOK
  <2>2. n \in Int /\ \A i \in 1..n : wire[e][i] \in WirePart
    BY <1>1, <2>1, ElementOfSeq
  <2>3. SubSeq(wire[e], 1, n) \in Seq(WirePart)
    BY <2>2, SubSeqProperties
  <2> QED BY <1>1, <2>3 DEF WireTypeOK
<1>4. UserTypeOK' /\ SendTypeOK' /\ RecvTypeOK' /\ KeptTypeOK' /\ GotTypeOK' /\ StatsTypeOK'
  BY <1>2 DEF userVars, sendVars, recvVars, UserTypeOK, SendTypeOK, RecvTypeOK,
              KeptTypeOK, GotTypeOK, StatsTypeOK
<1>5. QueueDriven' /\ SendCloseLast' /\ RecvCloseLast'
  BY <1>2 DEF sendVars, recvVars, QueueDriven, SendCloseLast, RecvCloseLast
<1> QED BY <1>3, <1>4, <1>5

LEMMA StutterCore == CoreInv /\ UNCHANGED vars => CoreInv'
<1> SUFFICES ASSUME CoreInv, UNCHANGED vars PROVE CoreInv'
  OBVIOUS
<1>1. TypeOK'
  BY DEF CoreInv, TypeOK, vars, UserTypeOK, SendTypeOK, RecvTypeOK, WireTypeOK,
         KeptTypeOK, GotTypeOK, StatsTypeOK
<1>2. QueueDriven' /\ SendCloseLast' /\ RecvCloseLast'
  BY DEF CoreInv, vars, QueueDriven, SendCloseLast, RecvCloseLast
<1> QED BY <1>1, <1>2 DEF CoreInv

LEMMA NextCore == CoreInv /\ [Next]_vars => CoreInv'
<1> SUFFICES ASSUME CoreInv, [Next]_vars PROVE CoreInv'
  OBVIOUS
<1>1. CASE UNCHANGED vars
  BY <1>1, StutterCore
<1>2. ASSUME NEW e \in Ends, UserStep(e) PROVE CoreInv'
  BY <1>2, SendCore, RecvCore, PcCore, CloseCore, CloseReturnCore DEF UserStep
<1>3. ASSUME NEW e \in Ends, SendStep(e) PROVE CoreInv'
  BY <1>3, PushSendCore, WriteCore, WriteDoneCore, PopSendCore DEF SendStep
<1>4. ASSUME NEW e \in Ends, RecvStep(e) PROVE CoreInv'
  BY <1>4, PushRecvCore, ReadHeaderCore, ReadBodyCore, PopRecvCore DEF RecvStep
<1>5. ASSUME NEW e \in Ends, Failure(e) PROVE CoreInv'
  BY <1>5, PcCore, ResetCore DEF Failure
<1> QED BY <1>1, <1>2, <1>3, <1>4, <1>5 DEF Next

THEOREM SpecCore == Spec => []CoreInv
<1> QED BY InitCore, NextCore, PTL DEF Spec

(* The state keeps its shape: in particular only receive operations travel *)
(* on the receive side and only sends on the send side.                    *)
THEOREM TypeCorrect == Spec => []TypeOK
<1>1. CoreInv => TypeOK
  BY DEF CoreInv
<1> QED BY <1>1, SpecCore, PTL

(* No operation is ever stranded in a queue of BtSocket without a read,    *)
(* write or pop under way that will get to it, for any two programs.       *)
THEOREM QueuesDriven == Spec => []QueueDriven
<1>1. CoreInv => QueueDriven
  BY DEF CoreInv
<1> QED BY <1>1, SpecCore, PTL

(***************************************************************************)
(* Second layer: numbering through strands, queues, wire and receipts.     *)
(***************************************************************************)

LEMMA InitFifo == Init => FifoInv
<1> SUFFICES ASSUME Init, NEW e \in Ends
             PROVE  /\ SendChain(e) /\ SendSizes(e) /\ WireChain(e)
                    /\ RecvChain(e) /\ RecvCount(e) /\ HeaderRead(e) /\ InOrder(e)
  BY DEF FifoInv, FifoAt
<1>1. Peer(e) \in Ends
  BY PeerType
<1>2. \A f \in Ends : Len(sendStrand[f]) = 0 /\ Len(mSendQueue[f]) = 0
        /\ Len(recvStrand[f]) = 0 /\ Len(mRecvQueue[f]) = 0 /\ Len(wire[f]) = 0
        /\ Len(got[f]) = 0 /\ Len(sent[f]) = 0 /\ kept[f] = {} /\ recvs[f] = 0
        /\ writing[f] = "idle" /\ reading[f] = "idle"
  BY EmptySeq DEF Init
<1>7. PartsRead(Peer(e)) = 0
  <2>1. Len(got[Peer(e)]) = 0 /\ reading[Peer(e)] = "idle"
    BY <1>1, <1>2
  <2> QED BY <2>1 DEF PartsRead
<1>8. PartsWritten(e) = 0 /\ RecvsPopped(e) = 0
  BY <1>2 DEF PartsWritten, RecvsPopped
<1>3. TwicePopped(e) = 0
  BY <1>2, <1>7, <1>8 DEF TwicePopped
<1>9. \A i : i \notin 1..0
  OBVIOUS
<1>10. 2 * (0 - 0 - 0) = 0
  OBVIOUS
<1>5. SendChain(e)
  BY <1>2, <1>3, <1>9, <1>10 DEF SendChain
<1>11. 0 = 0 + 0 + 0
  OBVIOUS
<1>6. RecvChain(e)
  BY <1>2, <1>8, <1>9, <1>11 DEF RecvChain
<1>4. SendSizes(e) /\ WireChain(e) /\ RecvCount(e) /\ HeaderRead(e) /\ InOrder(e)
  BY <1>1, <1>2 DEF SendSizes, WireChain, RecvCount, HeaderRead, InOrder
<1> QED BY <1>4, <1>5, <1>6

LEMMA Fields ==
  /\ \A op \in SendOp : op.nth \in Nat /\ op.size \in Nat /\ op.type \in {"SendData", "CloseSend"}
  /\ \A op \in RecvOp : op.nth \in Nat /\ op.size \in Nat /\ op.type \in {"RecvData", "CloseRecv"}
  /\ \A part \in WirePart : part.nth \in Nat /\ part.size \in Nat /\ part.kind \in {"header", "body"}
  BY DEF SendOp, RecvOp, WirePart

(* The quantities of the invariant are integers.                           *)
LEMMA Integers ==
  ASSUME CoreInv, NEW e \in Ends
  PROVE  /\ Len(sendStrand[e]) \in Nat /\ Len(mSendQueue[e]) \in Nat
         /\ Len(recvStrand[e]) \in Nat /\ Len(mRecvQueue[e]) \in Nat
         /\ Len(wire[e]) \in Nat /\ Len(got[e]) \in Nat /\ Len(sent[e]) \in Nat
         /\ recvs[e] \in Nat /\ PartsRead(e) \in Nat /\ PartsWritten(e) \in 0..2
         /\ RecvsPopped(e) \in Int /\ TwicePopped(e) \in Int
         /\ PartsRead(Peer(e)) \in Nat /\ Peer(e) \in Ends /\ Peer(e) # e
         /\ \A i \in 1..Len(sendStrand[e]) : sendStrand[e][i] \in SendOp
         /\ \A i \in 1..Len(mSendQueue[e]) : mSendQueue[e][i] \in SendOp
         /\ \A i \in 1..Len(recvStrand[e]) : recvStrand[e][i] \in RecvOp
         /\ \A i \in 1..Len(mRecvQueue[e]) : mRecvQueue[e][i] \in RecvOp
         /\ \A i \in 1..Len(wire[e]) : wire[e][i] \in WirePart
<1>1. \A f \in Ends :
         /\ sendStrand[f] \in Seq(SendOp) /\ mSendQueue[f] \in Seq(SendOp)
         /\ recvStrand[f] \in Seq(RecvOp) /\ mRecvQueue[f] \in Seq(RecvOp)
         /\ wire[f] \in Seq(WirePart) /\ got[f] \in Seq(Receipt)
         /\ sent[f] \in Seq(Nat) /\ recvs[f] \in Nat
  BY DEF CoreInv, TypeOK, UserTypeOK, SendTypeOK, RecvTypeOK, WireTypeOK, GotTypeOK
<1>2. Peer(e) \in Ends /\ Peer(e) # e
  BY PeerType
<1>3. \A f \in Ends : Len(got[f]) \in Nat
  BY <1>1, LenProperties
<1>4. ASSUME NEW f \in Ends PROVE PartsRead(f) \in Nat
  <2>1. Len(got[f]) \in Nat
    BY <1>3
  <2>2. CASE reading[f] \in {"body", "stuck"}
    BY <2>1, <2>2 DEF PartsRead
  <2>3. CASE reading[f] \notin {"body", "stuck"}
    BY <2>1, <2>3 DEF PartsRead
  <2> QED BY <2>2, <2>3
<1>5. Len(wire[e]) \in Nat /\ PartsWritten(e) \in 0..2 /\ RecvsPopped(e) \in Int
  BY <1>1, <1>3, LenProperties DEF PartsWritten, RecvsPopped
<1>6. TwicePopped(e) \in Int
  BY <1>2, <1>4, <1>5 DEF TwicePopped
<1>7. Len(sendStrand[e]) \in Nat /\ \A i \in 1..Len(sendStrand[e]) : sendStrand[e][i] \in SendOp
  BY <1>1, LenProperties, ElementOfSeq
<1>8. Len(mSendQueue[e]) \in Nat /\ \A i \in 1..Len(mSendQueue[e]) : mSendQueue[e][i] \in SendOp
  BY <1>1, LenProperties, ElementOfSeq
<1>9. Len(recvStrand[e]) \in Nat /\ \A i \in 1..Len(recvStrand[e]) : recvStrand[e][i] \in RecvOp
  BY <1>1, LenProperties, ElementOfSeq
<1>10. Len(mRecvQueue[e]) \in Nat /\ \A i \in 1..Len(mRecvQueue[e]) : mRecvQueue[e][i] \in RecvOp
  BY <1>1, LenProperties, ElementOfSeq
<1>11. \A i \in 1..Len(wire[e]) : wire[e][i] \in WirePart
  BY <1>1, ElementOfSeq
<1>12. Len(sent[e]) \in Nat
  BY <1>1, LenProperties
<1> QED BY <1>1, <1>2, <1>3, <1>4, <1>5, <1>6, <1>7, <1>8, <1>9, <1>10, <1>11, <1>12

(***************************************************************************)
(* What a step leaves alone: each part of the invariant reads only a few   *)
(* variables, at one end or its peer.                                      *)
(***************************************************************************)

LEMMA SendFrame ==
  ASSUME NEW e \in Ends, SendChain(e), Open(e)' => Open(e),
         (pc[e] \in Calling)' => pc[e] \in Calling,
         mSendQueue'[e] = mSendQueue[e], sendStrand'[e] = sendStrand[e],
         sent'[e] = sent[e], TwicePopped(e)' = TwicePopped(e)
  PROVE  SendChain(e)'
  BY DEF SendChain

LEMMA SizesFrame ==
  ASSUME NEW e \in Ends, SendSizes(e),
         mSendQueue'[e] = mSendQueue[e], sendStrand'[e] = sendStrand[e],
         sent'[e] = sent[e]
  PROVE  SendSizes(e)'
  BY DEF SendSizes, IsMessage

LEMMA WireFrame ==
  ASSUME NEW e \in Ends, WireChain(e), wire'[e] = wire[e], sent'[e] = sent[e],
         PartsRead(Peer(e))' = PartsRead(Peer(e))
  PROVE  WireChain(e)'
  BY DEF WireChain, IsMessage

LEMMA RecvFrame ==
  ASSUME NEW e \in Ends, RecvChain(e), (pc[e] \in Calling)' => pc[e] \in Calling,
         mRecvQueue'[e] = mRecvQueue[e], recvStrand'[e] = recvStrand[e],
         recvs'[e] = recvs[e], RecvsPopped(e)' = RecvsPopped(e)
  PROVE  RecvChain(e)'
  BY DEF RecvChain

LEMMA CountFrame ==
  ASSUME NEW e \in Ends, RecvCount(e),
         mRecvQueue'[e] = mRecvQueue[e], recvStrand'[e] = recvStrand[e],
         recvs'[e] = recvs[e], got'[e] = got[e],
         \A p \in kept'[e] : p[1] = "CloseRecv" => p \in kept[e]
  PROVE  RecvCount(e)'
  BY DEF RecvCount, NthRecv

LEMMA HeaderFrame ==
  ASSUME NEW e \in Ends, HeaderRead(e),
         mRecvQueue'[e] = mRecvQueue[e], reading'[e] = reading[e],
         got'[e] = got[e], sent'[Peer(e)] = sent[Peer(e)]
  PROVE  HeaderRead(e)'
  BY DEF HeaderRead

LEMMA OrderFrame ==
  ASSUME NEW e \in Ends, InOrder(e), recvs'[e] = recvs[e],
         got'[e] = got[e], sent'[Peer(e)] = sent[Peer(e)]
  PROVE  InOrder(e)'
  BY DEF InOrder

LEMMA BothEnds ==
  ASSUME NEW e \in Ends
  PROVE  Peer(e) \in Ends /\ Peer(e) # e /\ Peer(Peer(e)) = e
         /\ \A f \in Ends : f = e \/ f = Peer(e)
  BY DEF Ends, Peer

(* The quantities of the invariant read only these variables.              *)
LEMMA QuantityFrame ==
  ASSUME CoreInv, CoreInv', NEW e \in Ends
  PROVE  /\ got'[e] = got[e] /\ reading'[e] = reading[e] =>
              PartsRead(e)' = PartsRead(e) /\ RecvsPopped(e)' = RecvsPopped(e)
         /\ writing'[e] = writing[e] => PartsWritten(e)' = PartsWritten(e)
         /\ PartsRead(Peer(e))' = PartsRead(Peer(e)) /\ wire'[e] = wire[e]
              /\ PartsWritten(e)' = PartsWritten(e) =>
              TwicePopped(e)' = TwicePopped(e)
<1>1. got'[e] = got[e] /\ reading'[e] = reading[e] =>
        PartsRead(e)' = PartsRead(e) /\ RecvsPopped(e)' = RecvsPopped(e)
  BY DEF PartsRead, RecvsPopped
<1>2. writing'[e] = writing[e] => PartsWritten(e)' = PartsWritten(e)
  BY DEF PartsWritten
<1>3. PartsRead(Peer(e))' = PartsRead(Peer(e)) /\ wire'[e] = wire[e]
        /\ PartsWritten(e)' = PartsWritten(e) => TwicePopped(e)' = TwicePopped(e)
  BY DEF TwicePopped
<1> QED BY <1>1, <1>2, <1>3

(* A new message does not change what is known of the earlier ones.        *)
LEMMA MessagesGrow ==
  ASSUME NEW e \in Ends, Len(sent[e]) \in Nat, Len(sent'[e]) = Len(sent[e]) + 1,
         \A i \in 1..Len(sent[e]) : sent'[e][i] = sent[e][i]
  PROVE  /\ \A x : IsMessage(e, x) => IsMessage(e, x)'
         /\ \A k \in 1..Len(sent[e]) : k \in 1..Len(sent'[e])
  BY DEF IsMessage

(***************************************************************************)
(* Each step keeps the second layer.                                       *)
(***************************************************************************)

LEMMA SendFifo ==
  ASSUME CoreInv, CoreInv', FifoInv, NEW e \in Ends, Send(e) PROVE FifoInv'
<1> DEFINE c  == Head(todo[e])
           op == Operation("SendData", Len(sent[e]) + 1, c.size, c.sync)
           d  == Peer(e)
<1>1. /\ sent' = [sent EXCEPT ![e] = Append(@, c.size)]
      /\ sendStrand' = [sendStrand EXCEPT ![e] = Append(@, op)]
      /\ pc[e] = "run" /\ UNCHANGED <<recvStrand, mSendQueue, mRecvQueue, writing,
           reading, wire, kept, got, recvs, stats>>
      /\ \A f \in Ends \ {e} : pc'[f] = pc[f]
      /\ todo[e] # << >>
  BY DEF Send, CoreInv, TypeOK, UserTypeOK
<1>2. op \in SendOp /\ op.nth = Len(sent[e]) + 1 /\ op.size = c.size /\ c.size \in Nat
  <2>1. c \in Call
    BY <1>1, HeadTail DEF CoreInv, TypeOK, UserTypeOK
  <2>2. Len(sent[e]) \in Nat
    BY Integers
  <2> QED BY <2>1, <2>2 DEF Operation, SendOp, Call
<1> HIDE DEF c, op
<1>3. /\ Len(sent'[e]) = Len(sent[e]) + 1 /\ Len(sent[e]) \in Nat
      /\ \A i \in 1..Len(sent[e]) : sent'[e][i] = sent[e][i]
      /\ sent'[e][Len(sent[e]) + 1] = c.size
      /\ \A f \in Ends \ {e} : sent'[f] = sent[f]
  BY <1>1, <1>2, Appended DEF CoreInv, TypeOK, UserTypeOK
<1>4. /\ Len(sendStrand'[e]) = Len(sendStrand[e]) + 1
      /\ \A i \in 1..Len(sendStrand[e]) : sendStrand'[e][i] = sendStrand[e][i]
      /\ sendStrand'[e][Len(sendStrand[e]) + 1] = op
      /\ \A f \in Ends \ {e} : sendStrand'[f] = sendStrand[f]
  BY <1>1, <1>2, Appended DEF CoreInv, TypeOK, SendTypeOK
<1>5. \A f \in Ends : /\ PartsRead(f)' = PartsRead(f) /\ RecvsPopped(f)' = RecvsPopped(f)
                      /\ TwicePopped(f)' = TwicePopped(f)
  BY <1>1, QuantityFrame, PeerType
<1>6. d \in Ends /\ d # e /\ Peer(d) = e /\ \A f \in Ends : f = e \/ f = d
  BY BothEnds
<1>7. SendChain(e)'
  <2>1. Open(e) /\ pc[e] \in Calling
    BY <1>1 DEF Open, Calling
  <2>2. \A i \in 1..Len(sendStrand[e]) :
          2 * (sendStrand[e][i].nth - i - Len(mSendQueue[e])) = TwicePopped(e)
    BY <2>1 DEF FifoInv, FifoAt, SendChain
  <2>3. 2 * (Len(sent[e]) - Len(mSendQueue[e]) - Len(sendStrand[e])) = TwicePopped(e)
    BY <2>1 DEF FifoInv, FifoAt, SendChain
  <2>4. \A i \in 1..Len(mSendQueue[e]) : 2 * (mSendQueue[e][i].nth - i) = TwicePopped(e)
    BY <2>1 DEF FifoInv, FifoAt, SendChain
  <2>5. Len(sendStrand[e]) \in Nat /\ Len(mSendQueue[e]) \in Nat
    BY Integers
  <2>6. \A i \in 1..Len(sendStrand'[e]) :
          2 * (sendStrand'[e][i].nth - i - Len(mSendQueue'[e])) = TwicePopped(e)'
    <3> SUFFICES ASSUME NEW i \in 1..Len(sendStrand'[e])
                 PROVE  2 * (sendStrand'[e][i].nth - i - Len(mSendQueue[e])) = TwicePopped(e)
      BY <1>1, <1>5
    <3>1. CASE i \in 1..Len(sendStrand[e])
      BY <1>4, <2>2, <3>1
    <3>2. CASE i = Len(sendStrand[e]) + 1
      <4>1. sendStrand'[e][i].nth = Len(sent[e]) + 1
        BY <1>2, <1>4, <3>2
      <4>2. sendStrand'[e][i].nth - i - Len(mSendQueue[e])
              = Len(sent[e]) - Len(mSendQueue[e]) - Len(sendStrand[e])
        BY <1>3, <2>5, <3>2, <4>1
      <4> QED BY <2>3, <4>2
    <3> QED BY <1>4, <2>5, <3>1, <3>2
  <2>7. 2 * (Len(sent'[e]) - Len(mSendQueue'[e]) - Len(sendStrand'[e])) = TwicePopped(e)'
    <3>1. Len(sent'[e]) - Len(mSendQueue[e]) - Len(sendStrand'[e])
            = Len(sent[e]) - Len(mSendQueue[e]) - Len(sendStrand[e])
      BY <1>3, <1>4, <2>5
    <3> QED BY <1>1, <1>5, <2>3, <3>1
  <2> QED BY <1>1, <1>5, <2>4, <2>6, <2>7 DEF SendChain
<1>8. SendSizes(e)'
  <2>1. \A x : IsMessage(e, x) => IsMessage(e, x)'
    BY <1>3, MessagesGrow
  <2>2. op.nth \in 1..Len(sent'[e]) /\ op.size = sent'[e][op.nth]
    BY <1>2, <1>3
  <2>3. Len(sendStrand[e]) \in Nat
    BY Integers
  <2>4. \A i \in 1..Len(mSendQueue[e]) :
          mSendQueue[e][i].type = "SendData" => IsMessage(e, mSendQueue[e][i])
    BY DEF FifoInv, FifoAt, SendSizes
  <2>5. \A i \in 1..Len(sendStrand[e]) :
          sendStrand[e][i].type = "SendData" => IsMessage(e, sendStrand[e][i])
    BY DEF FifoInv, FifoAt, SendSizes
  <2>6. \A i \in 1..Len(sendStrand'[e]) :
          sendStrand'[e][i].type = "SendData" => IsMessage(e, sendStrand[e][i])'
    <3> SUFFICES ASSUME NEW i \in 1..Len(sendStrand'[e]), sendStrand'[e][i].type = "SendData"
                 PROVE  /\ sendStrand'[e][i].nth \in 1..Len(sent'[e])
                        /\ sendStrand'[e][i].size = sent'[e][sendStrand'[e][i].nth]
      BY DEF IsMessage
    <3>1. CASE i \in 1..Len(sendStrand[e])
      BY <1>3, <1>4, <2>1, <2>5, <3>1 DEF IsMessage
    <3>2. CASE i = Len(sendStrand[e]) + 1
      BY <1>4, <2>2, <3>2
    <3> QED BY <1>4, <2>3, <3>1, <3>2
  <2> QED BY <1>1, <2>1, <2>4, <2>6 DEF SendSizes, IsMessage
<1>9. WireChain(e)'
  <2>1. \A x : IsMessage(e, x) => IsMessage(e, x)'
    BY <1>3, MessagesGrow
  <2>2. PartsRead(Peer(e))' = PartsRead(Peer(e))
    BY <1>5, PeerType
  <2> QED BY <1>1, <2>1, <2>2 DEF FifoInv, FifoAt, WireChain, IsMessage
<1>10. RecvChain(e)' /\ RecvCount(e)'
  BY <1>1, <1>5, RecvFrame, CountFrame DEF FifoInv, FifoAt, Calling
<1>11. HeaderRead(e)' /\ InOrder(e)'
  <2>1. Peer(e) \in Ends /\ sent'[Peer(e)] = sent[Peer(e)]
    BY <1>3, <1>6
  <2> QED BY <1>1, <2>1, HeaderFrame, OrderFrame DEF FifoInv, FifoAt
<1>12. SendChain(d)' /\ SendSizes(d)' /\ WireChain(d)'
  <2>1. /\ SendChain(d) /\ SendSizes(d) /\ WireChain(d) /\ d \in Ends /\ Peer(d) \in Ends
        /\ pc'[d] = pc[d] /\ sendStrand'[d] = sendStrand[d] /\ sent'[d] = sent[d]
    BY <1>1, <1>3, <1>4, <1>6 DEF FifoInv, FifoAt
  <2>2. TwicePopped(d)' = TwicePopped(d) /\ PartsRead(Peer(d))' = PartsRead(Peer(d))
    BY <1>5, <2>1
  <2> QED BY <1>1, <2>1, <2>2, SendFrame, SizesFrame, WireFrame DEF Open
<1>13. RecvChain(d)' /\ RecvCount(d)'
  <2>1. RecvChain(d) /\ RecvCount(d) /\ d \in Ends /\ pc'[d] = pc[d]
    BY <1>1, <1>6 DEF FifoInv, FifoAt
  <2> QED BY <1>1, <1>5, <2>1, RecvFrame, CountFrame
<1>14. HeaderRead(d)' /\ InOrder(d)'
  <2>1. HeaderRead(d) /\ InOrder(d) /\ Len(got[d]) \in Nat
    BY <1>6, Integers DEF FifoInv, FifoAt
  <2>2. HeaderRead(d)'
    BY <1>1, <1>3, <1>6, <2>1 DEF HeaderRead
  <2>3. InOrder(d)'
    BY <1>1, <1>3, <1>6, <2>1 DEF InOrder
  <2> QED BY <2>2, <2>3
<1> QED BY <1>6, <1>7, <1>8, <1>9, <1>10, <1>11, <1>12, <1>13, <1>14 DEF FifoInv, FifoAt

(* An end none of whose variables a step changes, nor those of its peer it *)
(* depends on, keeps its part of the invariant.                            *)
LEMMA EndFrame ==
  ASSUME CoreInv, CoreInv', NEW e \in Ends, FifoAt(e),
         Open(e)' => Open(e), (pc[e] \in Calling)' => pc[e] \in Calling,
         mSendQueue'[e] = mSendQueue[e], sendStrand'[e] = sendStrand[e],
         writing'[e] = writing[e], wire'[e] = wire[e], sent'[e] = sent[e],
         mRecvQueue'[e] = mRecvQueue[e], recvStrand'[e] = recvStrand[e],
         reading'[e] = reading[e], got'[e] = got[e], recvs'[e] = recvs[e],
         sent'[Peer(e)] = sent[Peer(e)],
         PartsRead(Peer(e))' = PartsRead(Peer(e)),
         \A p \in kept'[e] : p[1] = "CloseRecv" => p \in kept[e]
  PROVE  FifoAt(e)'
<1>1. /\ RecvsPopped(e)' = RecvsPopped(e) /\ PartsWritten(e)' = PartsWritten(e)
      /\ TwicePopped(e)' = TwicePopped(e)
  BY QuantityFrame
<1>2. SendChain(e)' /\ SendSizes(e)' /\ WireChain(e)'
  BY <1>1, SendFrame, SizesFrame, WireFrame DEF FifoAt
<1>3. RecvChain(e)' /\ RecvCount(e)'
  BY <1>1, RecvFrame, CountFrame DEF FifoAt
<1>4. HeaderRead(e)' /\ InOrder(e)'
  BY HeaderFrame, OrderFrame DEF FifoAt
<1> QED BY <1>2, <1>3, <1>4 DEF FifoAt

(* The place behind the last one of b items in the queue and c behind it.  *)
LEMMA NextPlace ==
  \A r \in Int : \A b, c \in Nat : (r + b + c) + 1 = r + b + (c + 1)
  OBVIOUS

LEMMA RecvFifo ==
  ASSUME CoreInv, CoreInv', FifoInv, NEW e \in Ends, Recv(e) PROVE FifoInv'
<1> DEFINE c  == Head(todo[e])
           op == Operation("RecvData", recvs[e] + 1, c.size, c.size > 0)
<1>1. /\ recvs' = [recvs EXCEPT ![e] = @ + 1]
      /\ recvStrand' = [recvStrand EXCEPT ![e] = Append(@, op)]
      /\ pc[e] = "run" /\ UNCHANGED <<sendStrand, mSendQueue, mRecvQueue, writing,
           reading, wire, kept, sent, got, stats>>
      /\ \A f \in Ends \ {e} : pc'[f] = pc[f]
      /\ todo[e] # << >>
  BY DEF Recv, CoreInv, TypeOK, UserTypeOK
<1>2. op \in RecvOp /\ op.nth = recvs[e] + 1 /\ op.type = "RecvData" /\ recvs[e] \in Nat
  <2>1. c \in Call /\ recvs[e] \in Nat
    BY <1>1, HeadTail DEF CoreInv, TypeOK, UserTypeOK
  <2> QED BY <2>1 DEF Operation, RecvOp, Call
<1> HIDE DEF c, op
<1>3. recvs'[e] = recvs[e] + 1 /\ \A f \in Ends \ {e} : recvs'[f] = recvs[f]
  BY <1>1 DEF CoreInv, TypeOK, UserTypeOK
<1>4. /\ Len(recvStrand'[e]) = Len(recvStrand[e]) + 1
      /\ \A i \in 1..Len(recvStrand[e]) : recvStrand'[e][i] = recvStrand[e][i]
      /\ recvStrand'[e][Len(recvStrand[e]) + 1] = op
      /\ \A f \in Ends \ {e} : recvStrand'[f] = recvStrand[f]
  BY <1>1, <1>2, Appended DEF CoreInv, TypeOK, RecvTypeOK
<1>5. \A f \in Ends : /\ PartsRead(f)' = PartsRead(f) /\ RecvsPopped(f)' = RecvsPopped(f)
                      /\ TwicePopped(f)' = TwicePopped(f)
  BY <1>1, QuantityFrame, PeerType
<1>6. /\ FifoAt(e) /\ Peer(e) \in Ends /\ PartsRead(Peer(e))' = PartsRead(Peer(e))
      /\ Len(recvStrand[e]) \in Nat /\ Len(mRecvQueue[e]) \in Nat /\ Len(got[e]) \in Nat
      /\ RecvsPopped(e) \in Int
  BY <1>5, Integers DEF FifoInv
<1>7. SendChain(e)' /\ SendSizes(e)' /\ WireChain(e)' /\ HeaderRead(e)'
  BY <1>1, <1>5, <1>6, SendFrame, SizesFrame, WireFrame, HeaderFrame DEF FifoAt, Open, Calling
<1>8. InOrder(e)'
  BY <1>1, <1>2, <1>3, <1>6 DEF FifoAt, InOrder
<1>9. RecvChain(e)'
  <2>1. recvs[e] = RecvsPopped(e) + Len(mRecvQueue[e]) + Len(recvStrand[e])
    BY <1>1, <1>6 DEF FifoAt, RecvChain, Calling
  <2>2. \A i \in 1..Len(recvStrand[e]) :
          recvStrand[e][i].nth = RecvsPopped(e) + Len(mRecvQueue[e]) + i
    BY <1>6 DEF FifoAt, RecvChain
  <2>5. Len(recvStrand[e]) \in Nat /\ Len(mRecvQueue[e]) \in Nat /\ RecvsPopped(e) \in Int
    BY <1>6
  <2>3. \A i \in 1..Len(recvStrand'[e]) :
          recvStrand'[e][i].nth = RecvsPopped(e) + Len(mRecvQueue[e]) + i
    <3> SUFFICES ASSUME NEW i \in 1..Len(recvStrand'[e])
                 PROVE  recvStrand'[e][i].nth = RecvsPopped(e) + Len(mRecvQueue[e]) + i
      OBVIOUS
    <3>1. CASE i \in 1..Len(recvStrand[e])
      BY <1>4, <2>2, <3>1
    <3>2. CASE i = Len(recvStrand[e]) + 1
      <4>1. recvStrand'[e][i].nth = recvs[e] + 1
        BY <1>2, <1>4, <3>2
      <4> QED BY <2>1, <2>5, <3>2, <4>1, NextPlace
    <3> QED BY <1>4, <1>6, <3>1, <3>2
  <2>4. recvs'[e] = RecvsPopped(e) + Len(mRecvQueue[e]) + Len(recvStrand'[e])
    <3>1. recvs'[e] = recvs[e] + 1 /\ Len(recvStrand'[e]) = Len(recvStrand[e]) + 1
      BY <1>3, <1>4
    <3> QED BY <2>1, <2>5, <3>1, NextPlace
  <2> QED BY <1>1, <1>5, <1>6, <2>3, <2>4 DEF FifoAt, RecvChain
<1>10. RecvCount(e)'
  <2>1. /\ \A i \in 1..Len(mRecvQueue[e]) : mRecvQueue[e][i].type # "CloseRecv"
        /\ \A i \in 1..Len(recvStrand[e]) : recvStrand[e][i].type # "CloseRecv"
        /\ \A p \in kept[e] : p[1] # "CloseRecv"
    BY <1>1 DEF CoreInv, RecvCloseLast, Calling
  <2>2. /\ \A i \in 1..Len(mRecvQueue[e]) :
             mRecvQueue[e][i].type = "RecvData" /\ mRecvQueue[e][i].nth \in 1..recvs[e]
        /\ \A i \in 1..Len(recvStrand[e]) :
             recvStrand[e][i].type = "RecvData" /\ recvStrand[e][i].nth \in 1..recvs[e]
    BY <1>6, <2>1, Integers DEF FifoAt, RecvCount, NthRecv, RecvOp
  <2>3. \A i \in 1..Len(mRecvQueue[e]) : NthRecv(e, mRecvQueue[e][i])'
    BY <1>1, <1>2, <1>3, <2>2 DEF NthRecv
  <2>4. \A i \in 1..Len(recvStrand'[e]) :
          recvStrand'[e][i].type = "RecvData" /\ recvStrand'[e][i].nth \in 1..recvs'[e]
    <3> SUFFICES ASSUME NEW i \in 1..Len(recvStrand'[e])
                 PROVE  recvStrand'[e][i].type = "RecvData" /\ recvStrand'[e][i].nth \in 1..recvs'[e]
      OBVIOUS
    <3>1. CASE i \in 1..Len(recvStrand[e])
      BY <1>2, <1>3, <1>4, <2>2, <3>1
    <3>2. CASE i = Len(recvStrand[e]) + 1
      BY <1>2, <1>3, <1>4, <3>2
    <3> QED BY <1>4, <1>6, <3>1, <3>2
  <2> QED BY <1>1, <2>1, <2>3, <2>4 DEF RecvCount, NthRecv
<1>11. ASSUME NEW f \in Ends \ {e} PROVE FifoAt(f)'
  <2>1. FifoAt(f) /\ Peer(f) \in Ends /\ PartsRead(Peer(f))' = PartsRead(Peer(f))
    BY <1>5, PeerType DEF FifoInv
  <2> QED BY <1>1, <1>3, <1>4, <2>1, EndFrame DEF Open
<1> QED BY <1>7, <1>8, <1>9, <1>10, <1>11 DEF FifoInv, FifoAt

(* Steps that change nothing but the program counter.                      *)
LEMMA PcFifo ==
  ASSUME CoreInv, CoreInv', FifoInv, NEW e \in Ends,
         Return(e) \/ ReadFails(e) \/ WriteFails(e) \/ CloseReturn(e)
  PROVE  FifoInv'
<1>1. /\ UNCHANGED <<userVars, sendVars, recvVars, wire, kept, stats>>
      /\ \A f \in Ends : /\ Open(f)' => Open(f)
                         /\ (pc[f] \in Calling)' => pc[f] \in Calling
  BY DEF Return, ReadFails, WriteFails, CloseReturn, Calling, Open, CoreInv, TypeOK, UserTypeOK
<1>2. \A f \in Ends : PartsRead(f)' = PartsRead(f)
  BY <1>1 DEF PartsRead, recvVars
<1>3. ASSUME NEW f \in Ends PROVE FifoAt(f)'
  <2>1. FifoAt(f) /\ PartsRead(Peer(f))' = PartsRead(Peer(f))
    BY <1>2, PeerType DEF FifoInv
  <2> QED BY <1>1, <2>1, EndFrame DEF userVars, sendVars, recvVars
<1> QED BY <1>3 DEF FifoInv

LEMMA CloseFifo ==
  ASSUME CoreInv, CoreInv', FifoInv, NEW e \in Ends, Close(e) PROVE FifoInv'
<1> DEFINE rop == CloseRecvOp(e)
           sop == Operation("CloseSend", Len(sent[e]) + 1, 0, TRUE)
<1>1. /\ pc[e] = "run" /\ pc' = [pc EXCEPT ![e] = "closing"]
      /\ recvStrand' = [recvStrand EXCEPT ![e] = Append(@, rop)]
      /\ sendStrand' = [sendStrand EXCEPT ![e] = Append(@, sop)]
      /\ UNCHANGED <<todo, sent, recvs, mSendQueue, mRecvQueue, writing, reading, wire,
                     kept, got, stats>>
  BY DEF Close, userVars
<1>2. /\ rop \in RecvOp /\ rop.nth = recvs[e] + 1 /\ rop.type = "CloseRecv"
      /\ sop \in SendOp /\ sop.nth = Len(sent[e]) + 1 /\ sop.type = "CloseSend"
  BY LenProperties DEF CoreInv, TypeOK, CloseRecvOp, Operation, RecvOp, SendOp, UserTypeOK
<1> HIDE DEF rop, sop
<1>3. /\ Len(recvStrand'[e]) = Len(recvStrand[e]) + 1
      /\ \A i \in 1..Len(recvStrand[e]) : recvStrand'[e][i] = recvStrand[e][i]
      /\ recvStrand'[e][Len(recvStrand[e]) + 1] = rop
  BY <1>1, <1>2, Appended DEF CoreInv, TypeOK, RecvTypeOK
<1>4. /\ Len(sendStrand'[e]) = Len(sendStrand[e]) + 1
      /\ \A i \in 1..Len(sendStrand[e]) : sendStrand'[e][i] = sendStrand[e][i]
      /\ sendStrand'[e][Len(sendStrand[e]) + 1] = sop
  BY <1>1, <1>2, Appended DEF CoreInv, TypeOK, SendTypeOK
<1>5. \A f \in Ends \ {e} : /\ sendStrand'[f] = sendStrand[f] /\ pc'[f] = pc[f]
                            /\ recvStrand'[f] = recvStrand[f]
  BY <1>1 DEF CoreInv, TypeOK, UserTypeOK, SendTypeOK, RecvTypeOK
<1>6. \A f \in Ends : /\ PartsRead(f)' = PartsRead(f) /\ RecvsPopped(f)' = RecvsPopped(f)
                      /\ TwicePopped(f)' = TwicePopped(f)
  BY <1>1, QuantityFrame, PeerType
<1>7. /\ FifoAt(e) /\ Peer(e) \in Ends /\ PartsRead(Peer(e))' = PartsRead(Peer(e))
      /\ Len(recvStrand[e]) \in Nat /\ Len(mRecvQueue[e]) \in Nat /\ recvs[e] \in Nat
      /\ Len(sendStrand[e]) \in Nat /\ Len(mSendQueue[e]) \in Nat /\ Len(sent[e]) \in Nat
      /\ pc'[e] = "closing" /\ Open(e) /\ RecvsPopped(e) \in Int
  BY <1>1, <1>6, Integers DEF FifoInv, CoreInv, TypeOK, UserTypeOK, Open
<1>8. SendChain(e)'
  <2>1. 2 * (Len(sent[e]) - Len(mSendQueue[e]) - Len(sendStrand[e])) = TwicePopped(e)
    BY <1>1, <1>7 DEF FifoAt, SendChain, Calling
  <2>2. \A i \in 1..Len(sendStrand[e]) :
          2 * (sendStrand[e][i].nth - i - Len(mSendQueue[e])) = TwicePopped(e)
    BY <1>7 DEF FifoAt, SendChain
  <2>3. ASSUME NEW i \in 1..Len(sendStrand'[e])
        PROVE  2 * (sendStrand'[e][i].nth - i - Len(mSendQueue[e])) = TwicePopped(e)
    <3>1. CASE i \in 1..Len(sendStrand[e])
      BY <1>4, <2>2, <3>1
    <3>2. CASE i = Len(sendStrand[e]) + 1
      <4>1. sendStrand'[e][i].nth = Len(sent[e]) + 1
        BY <1>2, <1>4, <3>2
      <4>2. sendStrand'[e][i].nth - i - Len(mSendQueue[e])
              = Len(sent[e]) - Len(mSendQueue[e]) - Len(sendStrand[e])
        BY <1>7, <3>2, <4>1
      <4> QED BY <2>1, <4>2
    <3> QED BY <1>4, <1>7, <3>1, <3>2
  <2> QED BY <1>1, <1>6, <1>7, <2>3 DEF FifoAt, SendChain, Calling
<1>9. RecvChain(e)'
  <2>1. recvs[e] = RecvsPopped(e) + Len(mRecvQueue[e]) + Len(recvStrand[e])
    BY <1>1, <1>7 DEF FifoAt, RecvChain, Calling
  <2>2. \A i \in 1..Len(recvStrand[e]) :
          recvStrand[e][i].nth = RecvsPopped(e) + Len(mRecvQueue[e]) + i
    BY <1>7 DEF FifoAt, RecvChain
  <2>5. Len(recvStrand[e]) \in Nat /\ Len(mRecvQueue[e]) \in Nat /\ RecvsPopped(e) \in Int
    BY <1>7
  <2>3. ASSUME NEW i \in 1..Len(recvStrand'[e])
        PROVE  recvStrand'[e][i].nth = RecvsPopped(e) + Len(mRecvQueue[e]) + i
    <3>1. CASE i \in 1..Len(recvStrand[e])
      BY <1>3, <2>2, <3>1
    <3>2. CASE i = Len(recvStrand[e]) + 1
      <4>1. recvStrand'[e][i].nth = recvs[e] + 1
        BY <1>2, <1>3, <3>2
      <4> QED BY <2>1, <2>5, <3>2, <4>1, NextPlace
    <3> QED BY <1>3, <1>7, <3>1, <3>2
  <2> QED BY <1>1, <1>6, <1>7, <2>3 DEF FifoAt, RecvChain, Calling
<1>10. SendSizes(e)'
  <2>1. ASSUME NEW i \in 1..Len(sendStrand'[e]), sendStrand'[e][i].type = "SendData"
        PROVE  IsMessage(e, sendStrand[e][i])'
    <3>1. i \in 1..Len(sendStrand[e])
      BY <1>2, <1>4, <1>7, <2>1
    <3> QED BY <1>1, <1>4, <1>7, <2>1, <3>1 DEF FifoAt, SendSizes, IsMessage
  <2> QED BY <1>1, <1>7, <2>1 DEF FifoAt, SendSizes, IsMessage
<1>11. RecvCount(e)'
  <2>1. ASSUME NEW i \in 1..Len(recvStrand'[e]) PROVE NthRecv(e, recvStrand[e][i])'
    <3>1. CASE i \in 1..Len(recvStrand[e])
      BY <1>1, <1>3, <1>7, <3>1 DEF FifoAt, RecvCount, NthRecv
    <3>2. CASE i = Len(recvStrand[e]) + 1
      BY <1>1, <1>2, <1>3, <3>2 DEF NthRecv
    <3> QED BY <1>3, <1>7, <3>1, <3>2
  <2> QED BY <1>1, <1>7, <2>1 DEF FifoAt, RecvCount, NthRecv
<1>12. WireChain(e)' /\ HeaderRead(e)' /\ InOrder(e)'
  BY <1>1, <1>7, WireFrame, HeaderFrame, OrderFrame DEF FifoAt
<1>13. ASSUME NEW f \in Ends \ {e} PROVE FifoAt(f)'
  <2>1. FifoAt(f) /\ Peer(f) \in Ends /\ PartsRead(Peer(f))' = PartsRead(Peer(f))
    BY <1>6, PeerType DEF FifoInv
  <2> QED BY <1>1, <1>5, <2>1, EndFrame DEF Open
<1> QED BY <1>8, <1>9, <1>10, <1>11, <1>12, <1>13 DEF FifoInv, FifoAt

(* The front of the strand moves behind the queue, the rest moves up.       *)
LEMMA MovesUp ==
  \A n, i, b \in Int : n - 1 - b = n - (b + 1) /\ n - (i + 1) - b = n - i - (b + 1)
  OBVIOUS

LEMMA PushSendFifo ==
  ASSUME CoreInv, CoreInv', FifoInv, NEW e \in Ends, PushSend(e) PROVE FifoInv'
<1>1. PICK op \in SendOp, q \in Seq(SendOp), rest \in Seq(SendOp) : PushSendResult(e, op, q, rest)
  BY PushSendEffect
<1>2. /\ op = sendStrand[e][1] /\ Len(sendStrand[e]) \in Nat \ {0}
      /\ Len(rest) = Len(sendStrand[e]) - 1
      /\ \A i \in 1..Len(rest) : rest[i] = sendStrand[e][i + 1]
      /\ Len(mSendQueue[e]) \in Nat /\ Len(q) = Len(mSendQueue[e]) + 1
      /\ \A i \in 1..Len(mSendQueue[e]) : q[i] = mSendQueue[e][i]
      /\ q[Len(mSendQueue[e]) + 1] = op
  BY <1>1 DEF PushSendResult
<1>3. /\ UNCHANGED <<userVars, pc, recvVars, wire>>
      /\ op.type = "CloseSend" => rest = << >> /\ pc[e] \notin Calling
  BY <1>1 DEF PushSendResult
<1>4. /\ sendStrand'[e] = rest
      /\ \/ mSendQueue'[e] = q
         \/ mSendQueue'[e] = << >> /\ op.type = "CloseSend"
      /\ PartsWritten(e)' = PartsWritten(e)
      /\ \A p \in kept'[e] : p[1] = "CloseRecv" => p \in kept[e]
      /\ \A f \in Ends \ {e} :
           /\ sendStrand'[f] = sendStrand[f] /\ mSendQueue'[f] = mSendQueue[f]
           /\ writing'[f] = writing[f] /\ kept'[f] = kept[f]
  <2>1. writing' \in [Ends -> {"idle", "header", "body", "written", "pop"}]
          /\ (mSendQueue[e] = << >> => writing[e] = "idle")
    BY DEF CoreInv, TypeOK, SendTypeOK, QueueDriven
  <2>2. \/ writing'[e] = writing[e]
        \/ writing[e] = "idle" /\ writing'[e] \in {"idle", "header"}
    BY <1>1, <2>1 DEF PushSendResult, CoreInv, TypeOK, SendTypeOK
  <2>3. PartsWritten(e)' = PartsWritten(e)
    BY <2>2 DEF PartsWritten
  <2>4. /\ sendStrand'[e] = rest
        /\ \/ mSendQueue'[e] = q
           \/ mSendQueue'[e] = << >> /\ op.type = "CloseSend"
        /\ \A f \in Ends \ {e} :
             /\ sendStrand'[f] = sendStrand[f] /\ mSendQueue'[f] = mSendQueue[f]
             /\ writing'[f] = writing[f]
    BY <1>1 DEF PushSendResult, CoreInv, TypeOK, SendTypeOK
  <2>5. /\ \A p \in kept'[e] : p[1] = "CloseRecv" => p \in kept[e]
        /\ \A f \in Ends \ {e} : kept'[f] = kept[f]
    BY <1>1 DEF PushSendResult, CoreInv, TypeOK, KeptTypeOK
  <2> QED BY <2>3, <2>4, <2>5
<1>5. \A f \in Ends : PartsRead(f)' = PartsRead(f) /\ RecvsPopped(f)' = RecvsPopped(f)
  BY <1>3, QuantityFrame DEF recvVars
<1>6. /\ FifoAt(e) /\ PartsRead(Peer(e))' = PartsRead(Peer(e))
      /\ TwicePopped(e)' = TwicePopped(e)
  BY <1>3, <1>4, <1>5, QuantityFrame, PeerType DEF FifoInv
<1>7. SendChain(e)'
  <2> SUFFICES ASSUME Open(e) PROVE SendChain(e)'
    BY <1>3 DEF SendChain, Open
  <2>1. /\ \A i \in 1..Len(mSendQueue[e]) :
             2 * (mSendQueue[e][i].nth - i) = TwicePopped(e)
        /\ \A i \in 1..Len(sendStrand[e]) :
             2 * (sendStrand[e][i].nth - i - Len(mSendQueue[e])) = TwicePopped(e)
        /\ pc[e] \in Calling =>
             2 * (Len(sent[e]) - Len(mSendQueue[e]) - Len(sendStrand[e])) = TwicePopped(e)
    BY <1>6 DEF FifoAt, SendChain
  <2>2. CASE mSendQueue'[e] = q
    <3>1. ASSUME NEW i \in 1..Len(q) PROVE 2 * (q[i].nth - i) = TwicePopped(e)
      <4>1. CASE i \in 1..Len(mSendQueue[e])
        BY <1>2, <2>1, <4>1
      <4>2. CASE i = Len(mSendQueue[e]) + 1
        <5>1. 2 * (op.nth - 1 - Len(mSendQueue[e])) = TwicePopped(e)
          BY <1>2, <2>1
        <5>2. op.nth \in Int /\ Len(mSendQueue[e]) \in Int
          BY <1>2 DEF SendOp
        <5>3. op.nth - 1 - Len(mSendQueue[e]) = op.nth - (Len(mSendQueue[e]) + 1)
          BY <5>2, MovesUp, Zenon
        <5> QED BY <1>2, <4>2, <5>1, <5>3
      <4> QED BY <1>2, <4>1, <4>2
    <3>2. ASSUME NEW i \in 1..Len(rest)
          PROVE  2 * (rest[i].nth - i - Len(q)) = TwicePopped(e)
      <4>1. i + 1 \in 1..Len(sendStrand[e]) /\ rest[i] = sendStrand[e][i + 1]
        BY <1>2
      <4>2. 2 * (rest[i].nth - (i + 1) - Len(mSendQueue[e])) = TwicePopped(e)
        BY <2>1, <4>1
      <4>3. rest[i].nth \in Int /\ Len(mSendQueue[e]) \in Int /\ i \in Int
        BY <1>2, ElementOfSeq, Fields
      <4>4. rest[i].nth - (i + 1) - Len(mSendQueue[e])
              = rest[i].nth - i - (Len(mSendQueue[e]) + 1)
        BY <4>3, MovesUp, Zenon
      <4> QED BY <1>2, <4>2, <4>4
    <3>3. ASSUME pc[e] \in Calling
          PROVE  2 * (Len(sent[e]) - Len(q) - Len(rest)) = TwicePopped(e)
      <4>1. Len(sent[e]) \in Nat
        BY Integers
      <4>2. Len(sent[e]) - Len(mSendQueue[e]) - Len(sendStrand[e])
              = Len(sent[e]) - Len(q) - Len(rest)
        BY <1>2, <4>1
      <4> QED BY <2>1, <3>3, <4>2
    <3> QED BY <1>3, <1>4, <1>6, <2>2, <3>1, <3>2, <3>3 DEF SendChain, userVars
  <2>3. CASE mSendQueue'[e] = << >> /\ op.type = "CloseSend"
    <3>1. pc'[e] \notin Calling /\ sendStrand'[e] = << >>
      BY <1>3, <1>4, <2>3
    <3> QED BY <2>3, <3>1, EmptySeq DEF SendChain
  <2> QED BY <1>4, <2>2, <2>3
<1>8. SendSizes(e)'
  <2>1. /\ \A i \in 1..Len(mSendQueue[e]) :
             mSendQueue[e][i].type = "SendData" => IsMessage(e, mSendQueue[e][i])
        /\ \A i \in 1..Len(sendStrand[e]) :
             sendStrand[e][i].type = "SendData" => IsMessage(e, sendStrand[e][i])
    BY <1>6 DEF FifoAt, SendSizes
  <2>2. ASSUME NEW i \in 1..Len(q), q[i].type = "SendData"
        PROVE  IsMessage(e, q[i])
    <3>1. CASE i \in 1..Len(mSendQueue[e])
      <4>1. q[i] = mSendQueue[e][i]
        BY <1>2, <3>1
      <4> QED BY <2>1, <2>2, <3>1, <4>1, Zenon
    <3>2. CASE i = Len(mSendQueue[e]) + 1
      <4>1. q[i] = sendStrand[e][1] /\ 1 \in 1..Len(sendStrand[e])
        BY <1>2, <3>2
      <4> QED BY <2>1, <2>2, <4>1, Zenon
    <3> QED BY <1>2, <3>1, <3>2
  <2>3. ASSUME NEW i \in 1..Len(rest), rest[i].type = "SendData"
        PROVE  IsMessage(e, rest[i])
    <3>1. rest[i] = sendStrand[e][i + 1] /\ i + 1 \in 1..Len(sendStrand[e])
      BY <1>2
    <3> QED BY <2>1, <2>3, <3>1, Zenon
  <2>4. CASE mSendQueue'[e] = q
    BY <1>3, <1>4, <2>2, <2>3, <2>4 DEF SendSizes, IsMessage, userVars
  <2>5. CASE mSendQueue'[e] = << >>
    BY <1>3, <1>4, <2>3, <2>5, EmptySeq DEF SendSizes, IsMessage, userVars
  <2> QED BY <1>4, <2>4, <2>5
<1>9. WireChain(e)' /\ RecvChain(e)' /\ RecvCount(e)' /\ HeaderRead(e)' /\ InOrder(e)'
  BY <1>3, <1>4, <1>5, <1>6, WireFrame, RecvFrame, CountFrame, HeaderFrame, OrderFrame
     DEF FifoAt, userVars, recvVars
<1>10. ASSUME NEW f \in Ends \ {e} PROVE FifoAt(f)'
  <2>1. FifoAt(f) /\ Peer(f) \in Ends /\ PartsRead(Peer(f))' = PartsRead(Peer(f))
    BY <1>5, PeerType DEF FifoInv
  <2> QED BY <1>3, <1>4, <2>1, EndFrame DEF Open, userVars, recvVars
<1> QED BY <1>7, <1>8, <1>9, <1>10 DEF FifoInv, FifoAt

(* A pop lets every number behind it lose a place.                         *)
LEMMA PopsOne ==
  \A n, i, b \in Int : /\ 2 * (n - i) = 2 * (n - (i + 1)) + 2
                       /\ 2 * (n - (b - 1) - i) = 2 * (n - b - i) + 2
  OBVIOUS

LEMMA PopsOneBehind ==
  \A n, i, b \in Int : 2 * (n - i - (b - 1)) = 2 * (n - i - b) + 2
  OBVIOUS

LEMMA PopSendFifo ==
  ASSUME CoreInv, CoreInv', FifoInv, NEW e \in Ends, PopSend(e) PROVE FifoInv'
<1>1. PICK q \in Seq(SendOp) : PopSendResult(e, q)
  BY PopSendEffect
<1>2. /\ Len(mSendQueue[e]) \in Nat \ {0} /\ Len(q) = Len(mSendQueue[e]) - 1
      /\ \A i \in 1..Len(q) : q[i] = mSendQueue[e][i + 1]
      /\ UNCHANGED <<userVars, pc, sendStrand, recvVars, wire>>
      /\ writing[e] = "pop"
  BY <1>1 DEF PopSendResult
<1>3. /\ \/ mSendQueue'[e] = q
         \/ mSendQueue'[e] = << >> /\ sendStrand[e] = << >> /\ pc[e] \notin Calling
      /\ writing'[e] \in {"idle", "header"}
      /\ \A p \in kept'[e] : p[1] = "CloseRecv" => p \in kept[e]
      /\ \A f \in Ends \ {e} : /\ mSendQueue'[f] = mSendQueue[f]
                               /\ writing'[f] = writing[f] /\ kept'[f] = kept[f]
  <2>1. /\ \/ mSendQueue'[e] = q
           \/ mSendQueue'[e] = << >> /\ sendStrand[e] = << >> /\ pc[e] \notin Calling
        /\ writing'[e] \in {"idle", "header"}
        /\ \A f \in Ends \ {e} : mSendQueue'[f] = mSendQueue[f] /\ writing'[f] = writing[f]
    BY <1>1 DEF PopSendResult, CoreInv, TypeOK, SendTypeOK
  <2>2. /\ \A p \in kept'[e] : p[1] = "CloseRecv" => p \in kept[e]
        /\ \A f \in Ends \ {e} : kept'[f] = kept[f]
    BY <1>1 DEF PopSendResult, CoreInv, TypeOK, KeptTypeOK
  <2> QED BY <2>1, <2>2
<1>4. \A f \in Ends : PartsRead(f)' = PartsRead(f) /\ RecvsPopped(f)' = RecvsPopped(f)
  BY <1>2, QuantityFrame DEF recvVars
<1>5. /\ FifoAt(e) /\ PartsRead(Peer(e))' = PartsRead(Peer(e)) /\ TwicePopped(e) \in Int
      /\ Len(sendStrand[e]) \in Int /\ Len(sent[e]) \in Int /\ Len(mSendQueue[e]) \in Int
  BY <1>4, Integers DEF FifoInv
<1>6. TwicePopped(e)' = TwicePopped(e) + 2
  <2>1. PartsWritten(e) = 2 /\ PartsWritten(e)' = 0
    BY <1>2, <1>3 DEF PartsWritten
  <2>2. PartsRead(Peer(e)) \in Nat /\ Len(wire[e]) \in Nat
    BY Integers
  <2>3. wire'[e] = wire[e]
    BY <1>2
  <2> QED BY <1>5, <2>1, <2>2, <2>3 DEF TwicePopped
<1>7. SendChain(e)'
  <2> SUFFICES ASSUME Open(e) PROVE SendChain(e)'
    BY <1>2 DEF SendChain, Open
  <2>1. /\ \A i \in 1..Len(mSendQueue[e]) :
             2 * (mSendQueue[e][i].nth - i) = TwicePopped(e)
        /\ \A i \in 1..Len(sendStrand[e]) :
             2 * (sendStrand[e][i].nth - i - Len(mSendQueue[e])) = TwicePopped(e)
        /\ pc[e] \in Calling =>
             2 * (Len(sent[e]) - Len(mSendQueue[e]) - Len(sendStrand[e])) = TwicePopped(e)
    BY <1>5 DEF FifoAt, SendChain
  <2>2. CASE mSendQueue'[e] = q
    <3>1. ASSUME NEW i \in 1..Len(q) PROVE 2 * (q[i].nth - i) = TwicePopped(e) + 2
      <4>1. i + 1 \in 1..Len(mSendQueue[e]) /\ q[i] = mSendQueue[e][i + 1]
        BY <1>2
      <4>2. 2 * (q[i].nth - (i + 1)) = TwicePopped(e)
        BY <2>1, <4>1
      <4>3. q[i].nth \in Int /\ i \in Int
        BY ElementOfSeq, Fields
      <4>4. 2 * (q[i].nth - i) = 2 * (q[i].nth - (i + 1)) + 2
        BY <4>3, PopsOne, Zenon
      <4> QED BY <4>2, <4>4, Zenon
    <3>2. ASSUME NEW i \in 1..Len(sendStrand[e])
          PROVE  2 * (sendStrand[e][i].nth - i - Len(q)) = TwicePopped(e) + 2
      <4>1. 2 * (sendStrand[e][i].nth - i - Len(mSendQueue[e])) = TwicePopped(e)
        BY <2>1
      <4>2. sendStrand[e][i].nth \in Int /\ i \in Int
        BY Integers, Fields
      <4>3. 2 * (sendStrand[e][i].nth - i - (Len(mSendQueue[e]) - 1))
              = 2 * (sendStrand[e][i].nth - i - Len(mSendQueue[e])) + 2
        BY <1>5, <4>2, PopsOneBehind, Zenon
      <4> QED BY <1>2, <4>1, <4>3, Zenon
    <3>3. ASSUME pc[e] \in Calling
          PROVE  2 * (Len(sent[e]) - Len(q) - Len(sendStrand[e])) = TwicePopped(e) + 2
      <4>1. 2 * (Len(sent[e]) - Len(mSendQueue[e]) - Len(sendStrand[e])) = TwicePopped(e)
        BY <2>1, <3>3
      <4>2. 2 * (Len(sent[e]) - (Len(mSendQueue[e]) - 1) - Len(sendStrand[e]))
              = 2 * (Len(sent[e]) - Len(mSendQueue[e]) - Len(sendStrand[e])) + 2
        BY <1>5, PopsOne, Zenon
      <4> QED BY <1>2, <4>1, <4>2, Zenon
    <3> QED BY <1>2, <1>6, <2>2, <3>1, <3>2, <3>3 DEF SendChain, userVars
  <2>3. CASE mSendQueue'[e] = << >> /\ sendStrand[e] = << >> /\ pc[e] \notin Calling
    BY <1>2, <2>3, EmptySeq DEF SendChain
  <2> QED BY <1>3, <2>2, <2>3
<1>8. SendSizes(e)'
  <2>1. /\ \A i \in 1..Len(mSendQueue[e]) :
             mSendQueue[e][i].type = "SendData" => IsMessage(e, mSendQueue[e][i])
        /\ \A i \in 1..Len(sendStrand[e]) :
             sendStrand[e][i].type = "SendData" => IsMessage(e, sendStrand[e][i])
    BY <1>5 DEF FifoAt, SendSizes
  <2>2. \A i \in 1..Len(q) : q[i].type = "SendData" => IsMessage(e, q[i])
    BY <1>2, <2>1
  <2>3. CASE mSendQueue'[e] = q
    BY <1>2, <2>1, <2>2, <2>3 DEF SendSizes, IsMessage, userVars
  <2>4. CASE mSendQueue'[e] = << >>
    BY <1>2, <2>1, <2>4, EmptySeq DEF SendSizes, IsMessage, userVars
  <2> QED BY <1>3, <2>3, <2>4
<1>9. WireChain(e)' /\ RecvChain(e)' /\ RecvCount(e)' /\ HeaderRead(e)' /\ InOrder(e)'
  BY <1>2, <1>3, <1>4, <1>5, WireFrame, RecvFrame, CountFrame, HeaderFrame, OrderFrame
     DEF FifoAt, userVars, recvVars
<1>10. ASSUME NEW f \in Ends \ {e} PROVE FifoAt(f)'
  <2>1. FifoAt(f) /\ Peer(f) \in Ends /\ PartsRead(Peer(f))' = PartsRead(Peer(f))
    BY <1>4, PeerType DEF FifoInv
  <2> QED BY <1>2, <1>3, <2>1, EndFrame DEF Open, userVars, recvVars
<1> QED BY <1>7, <1>8, <1>9, <1>10 DEF FifoInv, FifoAt

LEMMA WriteDoneFifo ==
  ASSUME CoreInv, CoreInv', FifoInv, NEW e \in Ends, WriteDone(e) PROVE FifoInv'
<1>1. /\ writing[e] = "written" /\ writing' = [writing EXCEPT ![e] = "pop"]
      /\ UNCHANGED <<userVars, pc, sendStrand, mSendQueue, recvVars, wire>>
  BY DEF WriteDone
<1>2. \A f \in Ends : \A p \in kept'[f] : p[1] = "CloseRecv" => p \in kept[f]
  <2>1. mSendQueue[e] \in Seq(SendOp) /\ mSendQueue[e] # << >>
    BY <1>1 DEF CoreInv, TypeOK, SendTypeOK, QueueDriven
  <2>2. Head(mSendQueue[e]).type # "CloseRecv"
    BY <2>1, HeadTail, Fields
  <2>3. Kept(Head(mSendQueue[e]), "value")[1] # "CloseRecv"
    BY <2>2 DEF Kept
  <2>4. \/ kept' = kept
        \/ kept' = [kept EXCEPT ![e] = @ \cup {Kept(Head(mSendQueue[e]), "value")}]
    <3>1. CASE Head(mSendQueue[e]).flag
      BY <3>1 DEF WriteDone
    <3>2. CASE ~Head(mSendQueue[e]).flag
      BY <3>2 DEF WriteDone, CoreInv, TypeOK, KeptTypeOK
    <3> QED BY <3>1, <3>2
  <2> QED BY <2>3, <2>4 DEF CoreInv, TypeOK, KeptTypeOK
<1>3. \A f \in Ends : /\ PartsRead(f)' = PartsRead(f) /\ RecvsPopped(f)' = RecvsPopped(f)
                      /\ PartsWritten(f)' = PartsWritten(f)
  <2>1. \A f \in Ends : PartsWritten(f)' = PartsWritten(f)
    BY <1>1 DEF PartsWritten, CoreInv, TypeOK, SendTypeOK
  <2> QED BY <1>1, <2>1, QuantityFrame DEF recvVars
<1>4. ASSUME NEW f \in Ends PROVE FifoAt(f)'
  <2>1. FifoAt(f) /\ PartsRead(Peer(f))' = PartsRead(Peer(f)) /\ TwicePopped(f)' = TwicePopped(f)
    BY <1>1, <1>3, QuantityFrame, PeerType DEF FifoInv
  <2>2. SendChain(f)' /\ SendSizes(f)' /\ WireChain(f)'
    BY <1>1, <2>1, SendFrame, SizesFrame, WireFrame DEF FifoAt, Open, userVars
  <2>3. RecvChain(f)' /\ RecvCount(f)' /\ HeaderRead(f)' /\ InOrder(f)'
    BY <1>1, <1>2, <1>3, <2>1, RecvFrame, CountFrame, HeaderFrame, OrderFrame
       DEF FifoAt, userVars, recvVars
  <2> QED BY <2>2, <2>3 DEF FifoAt
<1> QED BY <1>4 DEF FifoInv

(* The part that goes on the wire next, counted from the front message.    *)
LEMMA NextPart ==
  \A n, r, w \in Int : /\ 2 * (n - 1) = r + w => 2 * n - 1 = r + (w + 1)
                       /\ 2 * (n - 1) = r + w - 1 => 2 * n = r + (w + 1)
  OBVIOUS

(* A part written moves from what is left to write to the wire.            *)
LEMMA PartMoves ==
  \A r, w, p \in Int : r + (w + 1) - (p + 1) = r + w - p
  OBVIOUS

LEMMA WriteFifo ==
  ASSUME CoreInv, CoreInv', FifoInv, NEW e \in Ends, Write(e) PROVE FifoInv'
<1> DEFINE op == Head(mSendQueue[e])
           part == Part(writing[e], op)
<1>1. /\ writing[e] \in {"header", "body"} /\ pc[e] # "dead"
      /\ wire' = [wire EXCEPT ![e] = Append(@, part)]
      /\ writing' = [writing EXCEPT ![e] = IF @ = "header" THEN "body" ELSE "written"]
      /\ UNCHANGED <<userVars, pc, sendStrand, mSendQueue, recvVars, kept>>
  BY DEF Write, Alive
<1>2. /\ Open(e) /\ op = mSendQueue[e][1] /\ 1 \in 1..Len(mSendQueue[e])
      /\ op.type = "SendData" /\ op \in SendOp
  <2>1. mSendQueue[e] \in Seq(SendOp) /\ mSendQueue[e] # << >> /\ op.type = "SendData"
    BY <1>1 DEF CoreInv, TypeOK, SendTypeOK, QueueDriven
  <2>2. pc[e] # "closed"
    BY <2>1 DEF CoreInv, SendCloseLast
  <2> QED BY <1>1, <2>1, <2>2, HeadTail DEF Open
<1>3. /\ part \in WirePart /\ part.kind = writing[e]
      /\ part.nth = op.nth /\ part.size = op.size /\ op.nth \in Int
  BY <1>1, <1>2 DEF Part, WirePart, SendOp
<1> HIDE DEF op, part
<1>4. /\ Len(wire'[e]) = Len(wire[e]) + 1 /\ Len(wire[e]) \in Nat
      /\ \A i \in 1..Len(wire[e]) : wire'[e][i] = wire[e][i]
      /\ wire'[e][Len(wire[e]) + 1] = part
      /\ \A f \in Ends \ {e} : wire'[f] = wire[f] /\ writing'[f] = writing[f]
  BY <1>1, <1>3, Appended DEF CoreInv, TypeOK, WireTypeOK, SendTypeOK
<1>5. \A f \in Ends : PartsRead(f)' = PartsRead(f) /\ RecvsPopped(f)' = RecvsPopped(f)
  BY <1>1, QuantityFrame DEF recvVars
<1>6. /\ PartsWritten(e) = IF writing[e] = "header" THEN 0 ELSE 1
      /\ PartsWritten(e)' = PartsWritten(e) + 1
  BY <1>1 DEF PartsWritten, CoreInv, TypeOK, SendTypeOK
<1>7. /\ FifoAt(e) /\ PartsRead(Peer(e))' = PartsRead(Peer(e))
      /\ PartsRead(Peer(e)) \in Int /\ Len(wire[e]) \in Int /\ PartsWritten(e) \in Int
  BY <1>5, Integers DEF FifoInv
<1>8. TwicePopped(e)' = TwicePopped(e)
  <2>1. TwicePopped(e)' = PartsRead(Peer(e)) + (Len(wire[e]) + 1) - (PartsWritten(e) + 1)
    BY <1>4, <1>6, <1>7 DEF TwicePopped
  <2> QED BY <1>7, <2>1, PartMoves DEF TwicePopped
<1>9. SendChain(e)' /\ SendSizes(e)'
  BY <1>1, <1>7, <1>8, SendFrame, SizesFrame DEF FifoAt, Open, userVars
<1>10. RecvChain(e)' /\ RecvCount(e)' /\ HeaderRead(e)' /\ InOrder(e)'
  BY <1>1, <1>5, <1>7, RecvFrame, CountFrame, HeaderFrame, OrderFrame
     DEF FifoAt, userVars, recvVars
<1>11. WireChain(e)'
  <2>1. 2 * (op.nth - 1) = PartsRead(Peer(e)) + Len(wire[e]) - PartsWritten(e)
    BY <1>2, <1>7 DEF FifoAt, SendChain, TwicePopped
  <2>2. PartPlace(part) = PartsRead(Peer(e)) + (Len(wire[e]) + 1)
    <3>1. CASE writing[e] = "header"
      <4>1. 2 * (op.nth - 1) = PartsRead(Peer(e)) + Len(wire[e])
        BY <1>6, <1>7, <2>1, <3>1
      <4>2. 2 * op.nth - 1 = PartsRead(Peer(e)) + (Len(wire[e]) + 1)
        BY <1>3, <1>7, <4>1, NextPart
      <4> QED BY <1>3, <3>1, <4>2 DEF PartPlace
    <3>2. CASE writing[e] = "body"
      <4>1. 2 * (op.nth - 1) = PartsRead(Peer(e)) + Len(wire[e]) - 1
        BY <1>6, <1>7, <2>1, <3>2
      <4>2. 2 * op.nth = PartsRead(Peer(e)) + (Len(wire[e]) + 1)
        BY <1>3, <1>7, <4>1, NextPart
      <4> QED BY <1>3, <3>2, <4>2 DEF PartPlace
    <3> QED BY <1>1, <3>1, <3>2
  <2>3. IsMessage(e, part)
    BY <1>2, <1>3, <1>7 DEF FifoAt, SendSizes, IsMessage
  <2>4. ASSUME NEW i \in 1..Len(wire'[e])
        PROVE  /\ PartPlace(wire'[e][i]) = PartsRead(Peer(e)) + i
               /\ IsMessage(e, wire'[e][i])
    <3>1. CASE i \in 1..Len(wire[e])
      BY <1>4, <1>7, <3>1 DEF FifoAt, WireChain
    <3>2. CASE i = Len(wire[e]) + 1
      BY <1>4, <2>2, <2>3, <3>2
    <3> QED BY <1>4, <3>1, <3>2
  <2> QED BY <1>1, <1>7, <2>4 DEF WireChain, IsMessage, PartPlace, userVars
<1>12. ASSUME NEW f \in Ends \ {e} PROVE FifoAt(f)'
  <2>1. FifoAt(f) /\ PartsRead(Peer(f))' = PartsRead(Peer(f))
    BY <1>5, PeerType DEF FifoInv
  <2> QED BY <1>1, <1>4, <2>1, EndFrame DEF Open, userVars, recvVars
<1> QED BY <1>9, <1>10, <1>11, <1>12 DEF FifoInv, FifoAt

(* A reset loses the last parts an end wrote; that end writes no more.     *)
LEMMA ResetFifo ==
  ASSUME CoreInv, CoreInv', FifoInv, NEW e \in Ends, Reset(e) PROVE FifoInv'
<1>1. PICK n \in 0..(Len(wire[e]) - 1) : wire' = [wire EXCEPT ![e] = SubSeq(@, 1, n)]
  BY DEF Reset
<1>2. ~Open(e) /\ UNCHANGED <<userVars, pc, sendVars, recvVars, kept>>
  BY DEF Reset
<1>3. /\ Len(wire'[e]) = n /\ n <= Len(wire[e]) /\ Len(wire[e]) \in Nat
      /\ \A i \in 1..n : wire'[e][i] = wire[e][i]
      /\ \A f \in Ends \ {e} : wire'[f] = wire[f]
  <2>1. wire[e] \in Seq(WirePart) /\ Len(wire[e]) \in Nat
    BY LenProperties DEF CoreInv, TypeOK, WireTypeOK
  <2>2. \A i \in 1..n : wire[e][i] \in WirePart
    BY <2>1, ElementOfSeq
  <2>3. Len(SubSeq(wire[e], 1, n)) = n
          /\ \A i \in 1..n : SubSeq(wire[e], 1, n)[i] = wire[e][i]
    BY <2>1, <2>2, SubSeqProperties
  <2>4. wire'[e] = SubSeq(wire[e], 1, n) /\ \A f \in Ends \ {e} : wire'[f] = wire[f]
    BY <1>1 DEF CoreInv, TypeOK, WireTypeOK
  <2> QED BY <2>1, <2>3, <2>4
<1>4. \A f \in Ends : PartsRead(f)' = PartsRead(f) /\ RecvsPopped(f)' = RecvsPopped(f)
  BY <1>2, QuantityFrame DEF recvVars
<1>5. FifoAt(e) /\ PartsRead(Peer(e))' = PartsRead(Peer(e))
  BY <1>4, PeerType DEF FifoInv
<1>6. SendChain(e)'
  BY <1>2 DEF SendChain, Open
<1>7. WireChain(e)'
  <2>1. ASSUME NEW i \in 1..Len(wire'[e])
        PROVE  PartPlace(wire'[e][i]) = PartsRead(Peer(e)) + i /\ IsMessage(e, wire'[e][i])
    <3>1. i \in 1..Len(wire[e]) /\ wire'[e][i] = wire[e][i]
      BY <1>3
    <3> QED BY <1>5, <3>1 DEF FifoAt, WireChain
  <2> QED BY <1>2, <1>5, <2>1 DEF WireChain, IsMessage, PartPlace, userVars
<1>8. SendSizes(e)' /\ RecvChain(e)' /\ RecvCount(e)' /\ HeaderRead(e)' /\ InOrder(e)'
  BY <1>2, <1>4, <1>5, SizesFrame, RecvFrame, CountFrame, HeaderFrame, OrderFrame
     DEF FifoAt, userVars, sendVars, recvVars
<1>9. ASSUME NEW f \in Ends \ {e} PROVE FifoAt(f)'
  <2>1. FifoAt(f) /\ PartsRead(Peer(f))' = PartsRead(Peer(f))
    BY <1>4, PeerType DEF FifoInv
  <2> QED BY <1>2, <1>3, <2>1, EndFrame DEF Open, userVars, sendVars, recvVars
<1> QED BY <1>6, <1>7, <1>8, <1>9 DEF FifoInv, FifoAt

(* The front of the receive strand moves behind the queue.                 *)
LEMMA Regroup ==
  \A r, b, i \in Int : /\ r + b + 1 = r + (b + 1)
                       /\ r + b + (i + 1) = r + (b + 1) + i
                       /\ r + b + i = r + (b + 1) + (i - 1)
  OBVIOUS

(* A pop lets the receives that were popped be one more.                   *)
LEMMA RegroupPop ==
  \A r, b, i \in Int : /\ r + (i + 1) = (r + 1) + i
                       /\ r + b + i = (r + 1) + (b - 1) + i
  OBVIOUS

(* An end whose socket and send side a step leaves alone.                  *)
LEMMA SendSideFrame ==
  ASSUME CoreInv, CoreInv', NEW e \in Ends, FifoAt(e),
         UNCHANGED <<userVars, pc, sendVars, wire>>,
         PartsRead(Peer(e))' = PartsRead(Peer(e))
  PROVE  SendChain(e)' /\ SendSizes(e)' /\ WireChain(e)'
<1>1. TwicePopped(e)' = TwicePopped(e)
  BY QuantityFrame DEF sendVars
<1> QED BY <1>1, SendFrame, SizesFrame, WireFrame DEF FifoAt, userVars, sendVars, Open

LEMMA PushRecvFifo ==
  ASSUME CoreInv, CoreInv', FifoInv, NEW e \in Ends, PushRecv(e) PROVE FifoInv'
<1>1. PICK op \in RecvOp, q \in Seq(RecvOp), rest \in Seq(RecvOp) : PushRecvResult(e, op, q, rest)
  BY PushRecvEffect
<1>2. /\ op = recvStrand[e][1] /\ Len(recvStrand[e]) \in Nat \ {0}
      /\ Len(rest) = Len(recvStrand[e]) - 1
      /\ \A i \in 1..Len(rest) : rest[i] = recvStrand[e][i + 1]
      /\ Len(mRecvQueue[e]) \in Nat /\ Len(q) = Len(mRecvQueue[e]) + 1
      /\ \A i \in 1..Len(mRecvQueue[e]) : q[i] = mRecvQueue[e][i]
      /\ q[Len(mRecvQueue[e]) + 1] = op
      /\ mRecvQueue[e] = << >> <=> Len(mRecvQueue[e]) = 0
      /\ op.type = "CloseRecv" => rest = << >> /\ pc[e] \notin Calling
      /\ \A p \in kept[e] : p[1] # "CloseRecv"
  BY <1>1 DEF PushRecvResult
<1>3. UNCHANGED <<userVars, pc, sendVars, wire, got>>
  BY <1>1 DEF PushRecvResult
<1>4. /\ recvStrand'[e] = rest
      /\ \/ mRecvQueue'[e] = q /\ kept'[e] = kept[e]
         \/ mRecvQueue'[e] = << >> /\ op.type = "CloseRecv" /\ mRecvQueue[e] = << >>
      /\ \/ reading'[e] = reading[e]
         \/ /\ reading[e] = "idle" /\ reading'[e] \in {"idle", "header"}
      /\ mRecvQueue[e] = << >> => reading[e] = "idle" /\ reading'[e] # "body"
      /\ \A f \in Ends \ {e} :
           /\ recvStrand'[f] = recvStrand[f] /\ mRecvQueue'[f] = mRecvQueue[f]
           /\ reading'[f] = reading[f] /\ kept'[f] = kept[f]
  <2>1. mRecvQueue[e] = << >> => reading[e] = "idle"
    BY DEF CoreInv, QueueDriven
  <2>2. /\ recvStrand'[e] = rest
        /\ \/ mRecvQueue'[e] = q /\ kept'[e] = kept[e]
           \/ mRecvQueue'[e] = << >> /\ op.type = "CloseRecv" /\ mRecvQueue[e] = << >>
        /\ \A f \in Ends \ {e} :
             /\ recvStrand'[f] = recvStrand[f] /\ mRecvQueue'[f] = mRecvQueue[f]
             /\ kept'[f] = kept[f]
    BY <1>1 DEF PushRecvResult, CoreInv, TypeOK, RecvTypeOK, KeptTypeOK
  <2>3. /\ \/ mRecvQueue[e] # << >> /\ reading'[e] = reading[e]
           \/ mRecvQueue[e] = << >> /\ reading'[e] \in {"idle", "header"}
        /\ \A f \in Ends \ {e} : reading'[f] = reading[f]
    BY <1>1 DEF PushRecvResult, CoreInv, TypeOK, RecvTypeOK
  <2> QED BY <2>1, <2>2, <2>3
<1>5. \A f \in Ends : PartsRead(f)' = PartsRead(f) /\ RecvsPopped(f)' = RecvsPopped(f)
  BY <1>3, <1>4 DEF PartsRead, RecvsPopped
<1>6. /\ FifoAt(e) /\ PartsRead(Peer(e))' = PartsRead(Peer(e)) /\ Peer(e) \in Ends
      /\ RecvsPopped(e) \in Int /\ Len(mRecvQueue[e]) \in Int /\ Len(recvStrand[e]) \in Int
  BY <1>5, Integers DEF FifoInv
<1>7. SendChain(e)' /\ SendSizes(e)' /\ WireChain(e)'
  BY <1>3, <1>6, SendSideFrame
<1>8. /\ \A i \in 1..Len(mRecvQueue[e]) : mRecvQueue[e][i].nth = RecvsPopped(e) + i
      /\ \A i \in 1..Len(recvStrand[e]) :
           recvStrand[e][i].nth = RecvsPopped(e) + Len(mRecvQueue[e]) + i
      /\ pc[e] \in Calling =>
           recvs[e] = RecvsPopped(e) + Len(mRecvQueue[e]) + Len(recvStrand[e])
  BY <1>6 DEF FifoAt, RecvChain
<1>9. op.nth = RecvsPopped(e) + (Len(mRecvQueue[e]) + 1)
  <2>1. op.nth = RecvsPopped(e) + Len(mRecvQueue[e]) + 1
    BY <1>2, <1>8
  <2> QED BY <1>6, <2>1, Regroup
<1>10. RecvChain(e)'
  <2>1. CASE mRecvQueue'[e] = q
    <3>1. ASSUME NEW i \in 1..Len(q) PROVE q[i].nth = RecvsPopped(e) + i
      <4>1. CASE i \in 1..Len(mRecvQueue[e])
        BY <1>2, <1>8, <4>1
      <4>2. CASE i = Len(mRecvQueue[e]) + 1
        BY <1>2, <1>9, <4>2
      <4> QED BY <1>2, <4>1, <4>2
    <3>2. ASSUME NEW i \in 1..Len(rest) PROVE rest[i].nth = RecvsPopped(e) + Len(q) + i
      <4>1. i + 1 \in 1..Len(recvStrand[e]) /\ rest[i] = recvStrand[e][i + 1] /\ i \in Int
        BY <1>2
      <4>2. rest[i].nth = RecvsPopped(e) + Len(mRecvQueue[e]) + (i + 1)
        BY <1>8, <4>1
      <4>3. rest[i].nth = RecvsPopped(e) + (Len(mRecvQueue[e]) + 1) + i
        BY <1>6, <4>1, <4>2, Regroup
      <4> QED BY <1>2, <4>3
    <3>3. ASSUME pc[e] \in Calling PROVE recvs[e] = RecvsPopped(e) + Len(q) + Len(rest)
      <4>1. recvs[e] = RecvsPopped(e) + Len(mRecvQueue[e]) + Len(recvStrand[e])
        BY <1>8, <3>3
      <4>2. recvs[e] = RecvsPopped(e) + (Len(mRecvQueue[e]) + 1) + (Len(recvStrand[e]) - 1)
        BY <1>6, <4>1, Regroup
      <4> QED BY <1>2, <4>2
    <3> QED BY <1>3, <1>4, <1>5, <2>1, <3>1, <3>2, <3>3 DEF RecvChain, userVars
  <2>2. CASE mRecvQueue'[e] = << >> /\ op.type = "CloseRecv"
    BY <1>2, <1>3, <1>4, <2>2, EmptySeq DEF RecvChain
  <2> QED BY <1>4, <2>1, <2>2
<1>11. RecvCount(e)'
  <2>1. /\ \A i \in 1..Len(mRecvQueue[e]) : NthRecv(e, mRecvQueue[e][i])
        /\ \A i \in 1..Len(recvStrand[e]) : NthRecv(e, recvStrand[e][i])
    BY <1>6 DEF FifoAt, RecvCount
  <2>2. NthRecv(e, op) /\ \A i \in 1..Len(q) : NthRecv(e, q[i])
    <3>1. NthRecv(e, op)
      BY <1>2, <2>1
    <3>2. ASSUME NEW i \in 1..Len(q) PROVE NthRecv(e, q[i])
      <4>1. CASE i \in 1..Len(mRecvQueue[e])
        BY <1>2, <2>1, <4>1
      <4>2. CASE i = Len(mRecvQueue[e]) + 1
        BY <1>2, <3>1, <4>2
      <4> QED BY <1>2, <4>1, <4>2
    <3> QED BY <3>1, <3>2
  <2>3. \A i \in 1..Len(rest) : NthRecv(e, rest[i])
    BY <1>2, <2>1
  <2>4. CASE mRecvQueue'[e] = q /\ kept'[e] = kept[e]
    BY <1>2, <1>3, <1>4, <2>2, <2>3, <2>4 DEF RecvCount, NthRecv, userVars
  <2>5. CASE mRecvQueue'[e] = << >> /\ op.type = "CloseRecv" /\ mRecvQueue[e] = << >>
    <3>1. op.nth = recvs[e] + 1 /\ recvs[e] \in Nat /\ Len(got[e]) \in Nat
      BY <2>2, <2>5, Integers DEF NthRecv
    <3>2. RecvsPopped(e) = Len(got[e])
      <4>1. RecvsPopped(e) = Len(got[e]) - 0
        BY <1>4, <2>5 DEF RecvsPopped
      <4> QED BY <3>1, <4>1
    <3>3. op.nth = Len(got[e]) + 1
      <4>1. Len(mRecvQueue[e]) = 0
        BY <1>2, <2>5
      <4>2. op.nth = Len(got[e]) + (0 + 1)
        BY <1>9, <3>2, <4>1
      <4> QED BY <4>2
    <3>4. Len(got'[e]) = recvs'[e]
      BY <1>3, <3>1, <3>3 DEF userVars
    <3> QED BY <1>3, <1>4, <2>3, <2>5, <3>4, EmptySeq DEF RecvCount, NthRecv, userVars
  <2> QED BY <1>4, <2>4, <2>5
<1>12. HeaderRead(e)'
  <2> SUFFICES ASSUME reading'[e] = "body"
               PROVE  /\ Len(got'[e]) < Len(sent'[Peer(e)])
                      /\ mRecvQueue'[e][1].size = sent'[Peer(e)][Len(got'[e]) + 1]
    BY DEF HeaderRead
  <2>1. reading[e] = "body" /\ mRecvQueue[e] # << >>
    BY <1>4
  <2>2. mRecvQueue'[e] = q /\ 1 \in 1..Len(mRecvQueue[e])
    BY <1>2, <1>4, <2>1
  <2> QED BY <1>2, <1>3, <1>6, <2>1, <2>2 DEF FifoAt, HeaderRead, userVars
<1>13. InOrder(e)'
  BY <1>3, <1>6, OrderFrame DEF FifoAt, userVars
<1>14. ASSUME NEW f \in Ends \ {e} PROVE FifoAt(f)'
  <2>1. FifoAt(f) /\ PartsRead(Peer(f))' = PartsRead(Peer(f))
    BY <1>5, PeerType DEF FifoInv
  <2> QED BY <1>3, <1>4, <2>1, EndFrame DEF Open, userVars, sendVars
<1> QED BY <1>7, <1>10, <1>11, <1>12, <1>13, <1>14 DEF FifoInv, FifoAt

LEMMA PopRecvFifo ==
  ASSUME CoreInv, CoreInv', FifoInv, NEW e \in Ends, PopRecv(e) PROVE FifoInv'
<1>1. PICK q \in Seq(RecvOp) : PopRecvResult(e, q)
  BY PopRecvEffect
<1>2. /\ Len(mRecvQueue[e]) \in Nat \ {0} /\ Len(q) = Len(mRecvQueue[e]) - 1
      /\ \A i \in 1..Len(q) : q[i] = mRecvQueue[e][i + 1]
      /\ UNCHANGED <<userVars, pc, recvStrand, sendVars, wire, got>>
      /\ reading[e] = "pop"
  BY <1>1 DEF PopRecvResult
<1>3. /\ \/ mRecvQueue'[e] = q /\ kept'[e] = kept[e]
         \/ /\ mRecvQueue'[e] = << >> /\ recvStrand[e] = << >> /\ pc[e] \notin Calling
            /\ 1 \in 1..Len(q) /\ q[1].type = "CloseRecv"
      /\ reading'[e] \in {"idle", "header"}
      /\ \A f \in Ends \ {e} : /\ mRecvQueue'[f] = mRecvQueue[f]
                               /\ reading'[f] = reading[f] /\ kept'[f] = kept[f]
  BY <1>1 DEF PopRecvResult, CoreInv, TypeOK, RecvTypeOK, KeptTypeOK
<1>4. /\ Len(got[e]) \in Nat
      /\ \A f \in Ends : PartsRead(f)' = PartsRead(f)
      /\ \A f \in Ends \ {e} : RecvsPopped(f)' = RecvsPopped(f)
      /\ RecvsPopped(e)' = RecvsPopped(e) + 1 /\ RecvsPopped(e) + 1 = Len(got[e])
  <2>1. Len(got[e]) \in Nat
    BY Integers
  <2>2. RecvsPopped(e) = Len(got[e]) - 1 /\ RecvsPopped(e)' = Len(got[e]) - 0
    BY <1>2, <1>3 DEF RecvsPopped
  <2>3. \A f \in Ends : PartsRead(f)' = PartsRead(f)
    BY <1>2, <1>3 DEF PartsRead
  <2>4. \A f \in Ends \ {e} : RecvsPopped(f)' = RecvsPopped(f)
    BY <1>2, <1>3 DEF RecvsPopped
  <2> QED BY <2>1, <2>2, <2>3, <2>4
<1>5. /\ FifoAt(e) /\ PartsRead(Peer(e))' = PartsRead(Peer(e)) /\ Peer(e) \in Ends
      /\ RecvsPopped(e) \in Int /\ Len(mRecvQueue[e]) \in Int /\ Len(recvStrand[e]) \in Int
  BY <1>4, Integers DEF FifoInv
<1>6. SendChain(e)' /\ SendSizes(e)' /\ WireChain(e)'
  BY <1>2, <1>5, SendSideFrame
<1>7. /\ \A i \in 1..Len(mRecvQueue[e]) : mRecvQueue[e][i].nth = RecvsPopped(e) + i
      /\ \A i \in 1..Len(recvStrand[e]) :
           recvStrand[e][i].nth = RecvsPopped(e) + Len(mRecvQueue[e]) + i
      /\ pc[e] \in Calling =>
           recvs[e] = RecvsPopped(e) + Len(mRecvQueue[e]) + Len(recvStrand[e])
  BY <1>5 DEF FifoAt, RecvChain
<1>8. ASSUME NEW i \in 1..Len(q) PROVE q[i].nth = (RecvsPopped(e) + 1) + i
  <2>1. i + 1 \in 1..Len(mRecvQueue[e]) /\ q[i] = mRecvQueue[e][i + 1] /\ i \in Int
    BY <1>2
  <2>2. q[i].nth = RecvsPopped(e) + (i + 1)
    BY <1>7, <2>1
  <2> QED BY <1>5, <2>1, <2>2, RegroupPop
<1>9. RecvChain(e)'
  <2>1. CASE mRecvQueue'[e] = q
    <3>1. ASSUME NEW i \in 1..Len(recvStrand[e])
          PROVE  recvStrand[e][i].nth = (RecvsPopped(e) + 1) + Len(q) + i
      <4>1. i \in Int /\ recvStrand[e][i].nth = RecvsPopped(e) + Len(mRecvQueue[e]) + i
        BY <1>7
      <4>2. recvStrand[e][i].nth = (RecvsPopped(e) + 1) + (Len(mRecvQueue[e]) - 1) + i
        BY <1>5, <4>1, RegroupPop
      <4> QED BY <1>2, <4>2
    <3>2. ASSUME pc[e] \in Calling
          PROVE  recvs[e] = (RecvsPopped(e) + 1) + Len(q) + Len(recvStrand[e])
      <4>1. recvs[e] = RecvsPopped(e) + Len(mRecvQueue[e]) + Len(recvStrand[e])
        BY <1>7, <3>2
      <4>2. recvs[e] = (RecvsPopped(e) + 1) + (Len(mRecvQueue[e]) - 1) + Len(recvStrand[e])
        BY <1>5, <4>1, RegroupPop
      <4> QED BY <1>2, <4>2
    <3> QED BY <1>2, <1>4, <1>8, <2>1, <3>1, <3>2 DEF RecvChain, userVars
  <2>2. CASE mRecvQueue'[e] = << >> /\ recvStrand[e] = << >> /\ pc[e] \notin Calling
    BY <1>2, <2>2, EmptySeq DEF RecvChain
  <2> QED BY <1>3, <2>1, <2>2
<1>10. RecvCount(e)'
  <2>1. /\ \A i \in 1..Len(mRecvQueue[e]) : NthRecv(e, mRecvQueue[e][i])
        /\ \A i \in 1..Len(recvStrand[e]) : NthRecv(e, recvStrand[e][i])
        /\ (\E p \in kept[e] : p[1] = "CloseRecv") => Len(got[e]) = recvs[e]
    BY <1>5 DEF FifoAt, RecvCount
  <2>2. \A i \in 1..Len(q) : NthRecv(e, q[i])
    BY <1>2, <2>1
  <2>3. CASE mRecvQueue'[e] = q /\ kept'[e] = kept[e]
    BY <1>2, <2>1, <2>2, <2>3 DEF RecvCount, NthRecv, userVars
  <2>4. CASE mRecvQueue'[e] = << >> /\ 1 \in 1..Len(q) /\ q[1].type = "CloseRecv"
    <3>1. q[1].nth = recvs[e] + 1 /\ recvs[e] \in Nat
      BY <2>2, <2>4, Integers DEF NthRecv
    <3>2. q[1].nth = Len(got[e]) + 1
      BY <1>4, <1>8, <2>4
    <3>3. Len(got'[e]) = recvs'[e]
      BY <1>2, <1>4, <3>1, <3>2 DEF userVars
    <3> QED BY <1>2, <2>1, <2>4, <3>3, EmptySeq DEF RecvCount, NthRecv, userVars
  <2> QED BY <1>3, <2>3, <2>4
<1>11. HeaderRead(e)' /\ InOrder(e)'
  BY <1>2, <1>3, <1>5, OrderFrame DEF FifoAt, HeaderRead, userVars
<1>12. ASSUME NEW f \in Ends \ {e} PROVE FifoAt(f)'
  <2>1. FifoAt(f) /\ PartsRead(Peer(f))' = PartsRead(Peer(f))
    BY <1>4, PeerType DEF FifoInv
  <2> QED BY <1>2, <1>3, <2>1, EndFrame DEF Open, userVars, sendVars
<1> QED BY <1>6, <1>9, <1>10, <1>11, <1>12 DEF FifoInv, FifoAt

(* What a part at the front of the wire is, by the parts read so far.      *)
LEMMA Parity ==
  \A n, g \in Int : /\ 2 * n # 2 * g + 1
                    /\ 2 * n - 1 = 2 * g + 1 => n = g + 1
                    /\ 2 * n - 1 # (2 * g + 1) + 1
                    /\ 2 * n = (2 * g + 1) + 1 => n = g + 1
  OBVIOUS

(* A part read moves from the wire to what was read.                       *)
LEMMA PartTaken ==
  \A r, w, p \in Int : (r + 1) + (w - 1) - p = r + w - p /\ r + (w + 1) = (r + 1) + w
  OBVIOUS

(* The sender's part of the invariant when its peer has read a part.       *)
LEMMA TakenFrame ==
  ASSUME CoreInv, CoreInv', FifoInv, NEW e \in Ends, NEW rest \in Seq(WirePart),
         Len(wire[Peer(e)]) \in Nat \ {0}, Len(rest) = Len(wire[Peer(e)]) - 1,
         \A i \in 1..Len(rest) : rest[i] = wire[Peer(e)][i + 1],
         wire'[Peer(e)] = rest, PartsRead(e)' = PartsRead(e) + 1,
         PartsRead(Peer(e))' = PartsRead(Peer(e)), RecvsPopped(Peer(e))' = RecvsPopped(Peer(e)),
         UNCHANGED <<userVars, pc, sendVars>>,
         recvStrand'[Peer(e)] = recvStrand[Peer(e)], mRecvQueue'[Peer(e)] = mRecvQueue[Peer(e)],
         reading'[Peer(e)] = reading[Peer(e)], got'[Peer(e)] = got[Peer(e)],
         kept'[Peer(e)] = kept[Peer(e)]
  PROVE  FifoAt(Peer(e))'
<1> DEFINE d == Peer(e)
<1>1. d \in Ends /\ Peer(d) = e /\ FifoAt(d)
  BY BothEnds DEF FifoInv
<1>2. PartsRead(e) \in Int /\ Len(wire[d]) \in Int /\ PartsWritten(d) \in Int
  BY <1>1, Integers
<1>3. TwicePopped(d)' = TwicePopped(d)
  <2>1. PartsWritten(d)' = PartsWritten(d)
    BY <1>1, QuantityFrame DEF sendVars
  <2>2. TwicePopped(d)' = (PartsRead(e) + 1) + (Len(wire[d]) - 1) - PartsWritten(d)
    BY <1>1, <2>1 DEF TwicePopped
  <2> QED BY <1>1, <1>2, <2>2, PartTaken DEF TwicePopped
<1>4. SendChain(d)' /\ SendSizes(d)'
  BY <1>1, <1>3, SendFrame, SizesFrame DEF FifoAt, userVars, sendVars, Open
<1>5. WireChain(d)'
  <2>1. ASSUME NEW i \in 1..Len(rest)
        PROVE  PartPlace(rest[i]) = (PartsRead(e) + 1) + i /\ IsMessage(d, rest[i])
    <3>1. i + 1 \in 1..Len(wire[d]) /\ rest[i] = wire[d][i + 1] /\ i \in Int
      OBVIOUS
    <3>2. PartPlace(rest[i]) = PartsRead(e) + (i + 1) /\ IsMessage(d, rest[i])
      BY <1>1, <3>1 DEF FifoAt, WireChain
    <3> QED BY <1>2, <3>1, <3>2, PartTaken
  <2>2. wire'[d] = rest /\ sent' = sent /\ PartsRead(Peer(d))' = PartsRead(e) + 1
    BY <1>1 DEF userVars
  <2> QED BY <2>1, <2>2 DEF WireChain, IsMessage, PartPlace
<1>6. RecvChain(d)' /\ RecvCount(d)' /\ HeaderRead(d)' /\ InOrder(d)'
  BY <1>1, RecvFrame, CountFrame, HeaderFrame, OrderFrame DEF FifoAt, userVars
<1> QED BY <1>4, <1>5, <1>6 DEF FifoAt

LEMMA ReadHeaderFifo ==
  ASSUME CoreInv, CoreInv', FifoInv, NEW e \in Ends, ReadHeader(e) PROVE FifoInv'
<1> DEFINE d == Peer(e)
           w == wire[d][1]
<1>1. PICK t \in Seq(RecvOp), rest \in Seq(WirePart) : ReadHeaderResult(e, t, rest)
  BY ReadHeaderEffect
<1>2. /\ reading[e] = "header"
      /\ Len(wire[d]) \in Nat \ {0} /\ Len(rest) = Len(wire[d]) - 1
      /\ \A i \in 1..Len(rest) : rest[i] = wire[d][i + 1]
      /\ Len(t) = Len(mRecvQueue[e]) /\ Len(t) \in Nat \ {0}
      /\ \A i \in 1..Len(t) : t[i].type = mRecvQueue[e][i].type
                                /\ t[i].nth = mRecvQueue[e][i].nth
      /\ t[1].size = w.size
      /\ UNCHANGED <<userVars, pc, sendVars, recvStrand, got>>
  BY <1>1 DEF ReadHeaderResult
<1>3. d \in Ends /\ d # e /\ Peer(d) = e /\ \A f \in Ends : f = e \/ f = d
  BY BothEnds
<1>4. /\ mRecvQueue'[e] = t /\ mRecvQueue'[d] = mRecvQueue[d]
      /\ wire'[d] = rest /\ wire'[e] = wire[e]
      /\ reading'[e] \in {"body", "stuck"} /\ reading'[d] = reading[d]
      /\ kept'[d] = kept[d] /\ \A p \in kept'[e] : p[1] = "CloseRecv" => p \in kept[e]
  BY <1>1, <1>3 DEF ReadHeaderResult, CoreInv, TypeOK, RecvTypeOK, WireTypeOK, KeptTypeOK
<1>5. Len(got[e]) \in Nat /\ FifoAt(e) /\ WireChain(d) /\ w \in WirePart
  BY <1>2, <1>3, Integers DEF FifoInv, FifoAt
<1>6. /\ PartsRead(e) = 2 * Len(got[e]) /\ PartsRead(e)' = PartsRead(e) + 1
      /\ RecvsPopped(e)' = RecvsPopped(e)
  <2>1. PartsRead(e) = 2 * Len(got[e]) + 0 /\ PartsRead(e)' = 2 * Len(got[e]) + 1
    BY <1>2, <1>4 DEF PartsRead
  <2>2. RecvsPopped(e)' = RecvsPopped(e)
    BY <1>2, <1>4 DEF RecvsPopped
  <2> QED BY <1>5, <2>1, <2>2
<1>7. PartsRead(d)' = PartsRead(d) /\ RecvsPopped(d)' = RecvsPopped(d)
  BY <1>2, <1>3, <1>4, QuantityFrame
<1>8. w.nth = Len(got[e]) + 1 /\ IsMessage(d, w)
  <2>1. PartPlace(w) = PartsRead(e) + 1 /\ IsMessage(d, w)
    BY <1>2, <1>3, <1>5 DEF WireChain
  <2>2. PartPlace(w) = 2 * Len(got[e]) + 1 /\ w.nth \in Int
    BY <1>5, <1>6, <2>1, Fields
  <2>3. CASE w.kind = "header"
    <3>1. 2 * w.nth - 1 = 2 * Len(got[e]) + 1
      BY <2>2, <2>3 DEF PartPlace
    <3> QED BY <1>5, <2>1, <2>2, <3>1, Parity
  <2>4. CASE w.kind # "header"
    <3>1. 2 * w.nth = 2 * Len(got[e]) + 1
      <4>1. 2 * w.nth - 0 = 2 * Len(got[e]) + 1
        BY <2>2, <2>4 DEF PartPlace
      <4> QED BY <2>2, <4>1
    <3> QED BY <1>5, <2>2, <3>1, Parity
  <2> QED BY <2>3, <2>4
<1>9. FifoAt(d)'
  BY <1>2, <1>3, <1>4, <1>6, <1>7, TakenFrame
<1>10. SendChain(e)' /\ SendSizes(e)' /\ WireChain(e)' /\ InOrder(e)'
  <2>1. TwicePopped(e)' = TwicePopped(e)
    BY <1>2, <1>4, <1>7, QuantityFrame DEF sendVars
  <2> QED BY <1>2, <1>4, <1>5, <1>7, <2>1, SendFrame, SizesFrame, WireFrame, OrderFrame
          DEF FifoAt, userVars, sendVars, Open
<1>11. RecvChain(e)'
  BY <1>2, <1>4, <1>5, <1>6 DEF FifoAt, RecvChain, userVars
<1>12. RecvCount(e)'
  BY <1>2, <1>4, <1>5 DEF FifoAt, RecvCount, NthRecv, userVars
<1>13. HeaderRead(e)'
  <2>1. Len(got[e]) + 1 \in 1..Len(sent[d]) /\ w.size = sent[d][Len(got[e]) + 1]
    BY <1>8 DEF IsMessage
  <2>2. Len(sent[d]) \in Nat
    BY <1>3, Integers
  <2>3. Len(got[e]) < Len(sent[d])
    BY <1>5, <2>1, <2>2
  <2> QED BY <1>2, <1>4, <2>1, <2>3 DEF HeaderRead, userVars
<1> QED BY <1>3, <1>9, <1>10, <1>11, <1>12, <1>13 DEF FifoInv, FifoAt

LEMMA ReadBodyFifo ==
  ASSUME CoreInv, CoreInv', FifoInv, NEW e \in Ends, ReadBody(e) PROVE FifoInv'
<1> DEFINE d    == Peer(e)
           op   == Head(mRecvQueue[e])
           part == Head(wire[d])
           rest == Tail(wire[d])
           new  == [recv |-> op.nth, msg |-> part.nth, len |-> op.size]
           g    == Len(got[e])
<1>1. /\ reading[e] = "body" /\ reading' = [reading EXCEPT ![e] = "pop"]
      /\ got' = [got EXCEPT ![e] = Append(@, new)]
      /\ kept' = [kept EXCEPT ![e] = @ \cup {Kept(op, "value")}]
      /\ wire' = [wire EXCEPT ![d] = rest] /\ wire[d] # << >>
      /\ UNCHANGED <<userVars, pc, sendVars, recvStrand, mRecvQueue>>
  BY DEF ReadBody
<1>2. d \in Ends /\ d # e /\ Peer(d) = e /\ \A f \in Ends : f = e \/ f = d
  BY BothEnds
<1>3. /\ op \in RecvOp /\ op = mRecvQueue[e][1] /\ 1 \in 1..Len(mRecvQueue[e])
      /\ op.type = "RecvData" /\ op.nth \in Nat /\ op.size \in Nat
      /\ Kept(op, "value")[1] = "RecvData" /\ \A p \in kept[e] : p[1] # "CloseRecv"
  <2>1. /\ mRecvQueue[e] \in Seq(RecvOp) /\ mRecvQueue[e] # << >> /\ op.type = "RecvData"
        /\ \A p \in kept[e] : p[1] # "CloseRecv"
    BY <1>1 DEF CoreInv, TypeOK, RecvTypeOK, QueueDriven, RecvCloseLast
  <2>2. op \in RecvOp /\ op = mRecvQueue[e][1] /\ 1 \in 1..Len(mRecvQueue[e])
    BY <2>1, HeadTail
  <2>3. Kept(op, "value")[1] = "RecvData"
    BY <2>1 DEF Kept
  <2> QED BY <2>1, <2>2, <2>3, Fields
<1>4. /\ part \in WirePart /\ part = wire[d][1] /\ rest \in Seq(WirePart) /\ part.nth \in Nat
      /\ Len(wire[d]) \in Nat \ {0} /\ Len(rest) = Len(wire[d]) - 1
      /\ \A i \in 1..Len(rest) : rest[i] = wire[d][i + 1]
  <2>1. wire[d] \in Seq(WirePart)
    BY <1>2 DEF CoreInv, TypeOK, WireTypeOK
  <2> QED BY <1>1, <2>1, HeadTail, Fields
<1>5. new \in Receipt
  BY <1>3, <1>4 DEF Receipt
<1> HIDE DEF op, part, rest
<1>6. /\ g \in Nat /\ Len(got'[e]) = g + 1 /\ got'[d] = got[d]
      /\ \A k \in 1..g : got'[e][k] = got[e][k]
      /\ got'[e][g + 1] = new
  <2>1. got[e] \in Seq(Receipt)
    BY DEF CoreInv, TypeOK, GotTypeOK
  <2>2. got'[e] = Append(got[e], new) /\ got'[d] = got[d]
    BY <1>1, <1>2 DEF CoreInv, TypeOK, GotTypeOK
  <2> HIDE DEF new
  <2> QED BY <1>5, <2>1, <2>2, Appended
<1>7. /\ wire'[d] = rest /\ wire'[e] = wire[e]
      /\ reading'[e] = "pop" /\ reading'[d] = reading[d]
      /\ kept'[d] = kept[d] /\ \A p \in kept'[e] : p[1] # "CloseRecv"
  BY <1>1, <1>2, <1>3 DEF CoreInv, TypeOK, RecvTypeOK, WireTypeOK, KeptTypeOK
<1>8. FifoAt(e) /\ WireChain(d)
  BY <1>2 DEF FifoInv, FifoAt
<1>9. /\ PartsRead(e) = 2 * g + 1 /\ PartsRead(e)' = PartsRead(e) + 1
      /\ RecvsPopped(e) = g /\ RecvsPopped(e)' = g
  <2>1. PartsRead(e) = 2 * g + 1 /\ PartsRead(e)' = 2 * (g + 1) + 0
    BY <1>1, <1>6, <1>7 DEF PartsRead
  <2>2. RecvsPopped(e) = g - 0 /\ RecvsPopped(e)' = (g + 1) - 1
    BY <1>1, <1>6, <1>7 DEF RecvsPopped
  <2> HIDE DEF g
  <2> QED BY <1>6, <2>1, <2>2
<1>10. PartsRead(d)' = PartsRead(d) /\ RecvsPopped(d)' = RecvsPopped(d)
  BY <1>2, <1>6, <1>7, QuantityFrame
<1>11. part.nth = g + 1
  <2>1. PartPlace(part) = PartsRead(e) + 1
    BY <1>2, <1>4, <1>8 DEF WireChain
  <2>2. PartPlace(part) = (2 * g + 1) + 1
    BY <1>9, <2>1
  <2> HIDE DEF g
  <2>3. CASE part.kind = "header"
    <3>1. 2 * part.nth - 1 = (2 * g + 1) + 1
      BY <2>2, <2>3 DEF PartPlace
    <3> QED BY <1>4, <1>6, <3>1, Parity
  <2>4. CASE part.kind # "header"
    <3>1. 2 * part.nth = (2 * g + 1) + 1
      <4>1. 2 * part.nth - 0 = (2 * g + 1) + 1
        BY <2>2, <2>4 DEF PartPlace
      <4> QED BY <1>4, <4>1
    <3> QED BY <1>4, <1>6, <3>1, Parity
  <2> QED BY <2>3, <2>4
<1>12. op.nth = g + 1 /\ op.nth \in 1..recvs[e]
  <2>1. op.nth = g + 1
    BY <1>3, <1>8, <1>9 DEF FifoAt, RecvChain
  <2>2. NthRecv(e, op)
    BY <1>3, <1>8 DEF FifoAt, RecvCount
  <2> QED BY <1>3, <2>1, <2>2 DEF NthRecv
<1>13. g < Len(sent[d]) /\ op.size = sent[d][g + 1]
  BY <1>1, <1>3, <1>8 DEF FifoAt, HeaderRead
<1>14. FifoAt(d)'
  <2> HIDE DEF g, new
  <2> QED BY <1>1, <1>2, <1>4, <1>6, <1>7, <1>9, <1>10, TakenFrame
<1>15. SendChain(e)' /\ SendSizes(e)' /\ WireChain(e)'
  <2>1. TwicePopped(e)' = TwicePopped(e)
    BY <1>1, <1>7, <1>10, QuantityFrame DEF sendVars
  <2> QED BY <1>1, <1>7, <1>8, <1>10, <2>1, SendFrame, SizesFrame, WireFrame
          DEF FifoAt, userVars, sendVars, Open
<1>16. RecvChain(e)' /\ RecvCount(e)' /\ HeaderRead(e)'
  <2>1. RecvChain(e)'
    BY <1>1, <1>8, <1>9 DEF FifoAt, RecvChain, userVars
  <2>2. RecvCount(e)'
    BY <1>1, <1>7, <1>8 DEF FifoAt, RecvCount, NthRecv, userVars
  <2>3. HeaderRead(e)'
    BY <1>7 DEF HeaderRead
  <2> QED BY <2>1, <2>2, <2>3
<1>17. InOrder(e)'
  <2>1. /\ g <= Len(sent[d]) /\ g <= recvs[e]
        /\ \A k \in 1..g : got[e][k] = [recv |-> k, msg |-> k, len |-> sent[d][k]]
    BY <1>8 DEF FifoAt, InOrder
  <2>2. new = [recv |-> g + 1, msg |-> g + 1, len |-> sent[d][g + 1]]
    BY <1>11, <1>12, <1>13
  <2> HIDE DEF g, new
  <2>3. ASSUME NEW k \in 1..(g + 1)
        PROVE  got'[e][k] = [recv |-> k, msg |-> k, len |-> sent[d][k]]
    <3>1. CASE k \in 1..g
      BY <1>6, <2>1, <3>1
    <3>2. CASE k = g + 1
      BY <1>6, <2>2, <3>2
    <3> QED BY <1>6, <3>1, <3>2
  <2>4. Len(sent[d]) \in Nat /\ recvs[e] \in Nat
    BY <1>2, Integers
  <2>5. g + 1 <= Len(sent[d]) /\ g + 1 <= recvs[e]
    BY <1>6, <1>12, <1>13, <2>4
  <2>6. sent' = sent /\ recvs' = recvs
    BY <1>1 DEF userVars
  <2> QED BY <1>6, <2>3, <2>5, <2>6 DEF InOrder
<1> QED BY <1>2, <1>14, <1>15, <1>16, <1>17 DEF FifoInv, FifoAt

LEMMA StutterFifo ==
  ASSUME CoreInv, CoreInv', FifoInv, UNCHANGED vars PROVE FifoInv'
<1>1. \A f \in Ends : PartsRead(f)' = PartsRead(f)
  BY QuantityFrame DEF vars
<1>2. ASSUME NEW f \in Ends PROVE FifoAt(f)'
  <2>1. FifoAt(f) /\ PartsRead(Peer(f))' = PartsRead(Peer(f))
    BY <1>1, PeerType DEF FifoInv
  <2> QED BY <2>1, EndFrame DEF Open, vars
<1> QED BY <1>2 DEF FifoInv

LEMMA NextFifo == CoreInv /\ CoreInv' /\ FifoInv /\ [Next]_vars => FifoInv'
<1> SUFFICES ASSUME CoreInv, CoreInv', FifoInv, [Next]_vars PROVE FifoInv'
  OBVIOUS
<1>1. CASE UNCHANGED vars
  BY <1>1, StutterFifo
<1>2. ASSUME NEW e \in Ends, UserStep(e) PROVE FifoInv'
  BY <1>2, SendFifo, RecvFifo, PcFifo, CloseFifo DEF UserStep
<1>3. ASSUME NEW e \in Ends, SendStep(e) PROVE FifoInv'
  BY <1>3, PushSendFifo, WriteFifo, WriteDoneFifo, PopSendFifo DEF SendStep
<1>4. ASSUME NEW e \in Ends, RecvStep(e) PROVE FifoInv'
  BY <1>4, PushRecvFifo, ReadHeaderFifo, ReadBodyFifo, PopRecvFifo DEF RecvStep
<1>5. ASSUME NEW e \in Ends, Failure(e) PROVE FifoInv'
  BY <1>5, PcFifo, ResetFifo DEF Failure
<1> QED BY <1>1, <1>2, <1>3, <1>4, <1>5 DEF Next

(* Operations and parts are numbered without a gap all the way from a send *)
(* to the receive it fulfils.                                              *)
THEOREM SpecFifo == Spec => []FifoInv
<1>1. Spec => []CoreInv
  BY SpecCore
<1> QED BY <1>1, InitFifo, NextFifo, PTL DEF Spec

(* The nth receive of an end is fulfilled with the nth message of its peer *)
(* and with its length, for any two programs and however strands, queues,  *)
(* completions, closes and connection failures interleave.                 *)
THEOREM FifoDelivered == Spec => []FifoDelivery
<1>1. FifoInv => FifoDelivery
  BY DEF FifoInv, FifoAt, FifoDelivery
<1> QED BY <1>1, SpecFifo, PTL

LEMMA ClosedClean == CoreInv /\ FifoInv => CleanClose
<1> SUFFICES ASSUME CoreInv, FifoInv, NEW e \in Ends, pc[e] = "closed"
             PROVE  /\ sendStrand[e] = << >> /\ mSendQueue[e] = << >> /\ writing[e] = "idle"
                    /\ recvStrand[e] = << >> /\ mRecvQueue[e] = << >> /\ reading[e] = "idle"
                    /\ Len(got[e]) = recvs[e]
  BY DEF CleanClose
<1>1. (\E p \in kept[e] : p[1] = "CloseSend") /\ (\E p \in kept[e] : p[1] = "CloseRecv")
  BY DEF CoreInv, SendCloseLast, RecvCloseLast
<1>2. /\ sendStrand[e] = << >> /\ mSendQueue[e] = << >>
      /\ recvStrand[e] = << >> /\ mRecvQueue[e] = << >>
  BY <1>1 DEF CoreInv, SendCloseLast, RecvCloseLast
<1>3. writing[e] = "idle" /\ reading[e] = "idle"
  BY <1>2 DEF CoreInv, QueueDriven
<1>4. Len(got[e]) = recvs[e]
  BY <1>1 DEF FifoInv, FifoAt, RecvCount
<1> QED BY <1>2, <1>3, <1>4

(* When close() deallocates a channel, no operation, handler, read or      *)
(* write of it is left, and all its receives were fulfilled.               *)
THEOREM ClosesClean == Spec => []CleanClose
<1> QED BY ClosedClean, SpecCore, SpecFifo, PTL
=============================================================================
