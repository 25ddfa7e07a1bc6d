--------------------------- MODULE BtUser_proofs ---------------------------
(***************************************************************************)
(* What a user of BtSocketIO relies on, for every set of plans and every   *)
(* WireCap: its promises on the stack, the flush of a synchronous send,    *)
(* the pipe of FifoPipe, the counter of outstanding bytes, and that        *)
(* programs that match in number never fail.                               *)
(***************************************************************************)
EXTENDS BtSocketIO_proofs, FiniteSetTheorems, WellFoundedInduction

(***************************************************************************)
(* Numbers of the sends that are on their way.                             *)
(***************************************************************************)

(* Two places of one chain with the same number are the same place, and    *)
(* two numbers at the same place are the same number.                      *)
LEMMA SamePlace ==
  \A r, n, i, j \in Int : 2 * (n - i) = r /\ 2 * (n - j) = r => i = j
  OBVIOUS

LEMMA SameNumber ==
  /\ \A r, m, n, j, b \in Int : 2 * (m - b - j) = r /\ 2 * (n - j - b) = r => m = n
  /\ \A r, m, n, b \in Int : 2 * (m - b - 0) = r /\ 2 * (n - b) = r => m = n
  OBVIOUS

LEMMA Closed ==
  ASSUME CoreInv, NEW e \in Ends, pc[e] = "closed"
  PROVE  sendStrand[e] = << >> /\ mSendQueue[e] = << >> /\ writing[e] = "idle"
<1>1. \E p \in kept[e] : p[1] = "CloseSend"
  BY DEF CoreInv, SendCloseLast
<1> QED BY <1>1 DEF CoreInv, SendCloseLast, QueueDriven

(* The front of the queue carries a message, and no other send that is     *)
(* queued or posted has its number.                                        *)
LEMMA FrontAlone ==
  ASSUME CoreInv, FifoInv, NEW e \in Ends, Open(e), writing[e] # "idle"
  PROVE  /\ 1 \in 1..Len(mSendQueue[e]) /\ mSendQueue[e][1].type = "SendData"
         /\ Head(mSendQueue[e]) = mSendQueue[e][1]
         /\ mSendQueue[e][1].nth \in 1..Len(sent[e])
         /\ \A i \in 1..Len(mSendQueue[e]) :
               i # 1 => mSendQueue[e][i].nth # mSendQueue[e][1].nth
         /\ \A i \in 1..Len(sendStrand[e]) : sendStrand[e][i].nth # mSendQueue[e][1].nth
<1>1. mSendQueue[e] \in Seq(SendOp) /\ mSendQueue[e] # << >>
  BY DEF CoreInv, TypeOK, SendTypeOK, QueueDriven
<1>2. 1 \in 1..Len(mSendQueue[e]) /\ Head(mSendQueue[e]) = mSendQueue[e][1]
  BY <1>1, HeadTail
<1>3. mSendQueue[e][1].type = "SendData"
  BY <1>2 DEF CoreInv, QueueDriven
<1>4. FifoAt(e)
  BY DEF FifoInv
<1>5. mSendQueue[e][1].nth \in 1..Len(sent[e])
  BY <1>2, <1>3, <1>4 DEF FifoAt, SendSizes, IsMessage
<1>6. /\ \A i \in 1..Len(mSendQueue[e]) :
             2 * (mSendQueue[e][i].nth - i) = TwicePopped(e)
      /\ \A i \in 1..Len(sendStrand[e]) :
             2 * (sendStrand[e][i].nth - i - Len(mSendQueue[e])) = TwicePopped(e)
  BY <1>4 DEF FifoAt, SendChain
<1>7. /\ TwicePopped(e) \in Int /\ Len(mSendQueue[e]) \in Nat
      /\ \A i \in 1..Len(mSendQueue[e]) : mSendQueue[e][i].nth \in Int
      /\ \A i \in 1..Len(sendStrand[e]) : sendStrand[e][i].nth \in Int
  BY Integers, Fields
<1>8. ASSUME NEW i \in 1..Len(mSendQueue[e]), mSendQueue[e][i].nth = mSendQueue[e][1].nth
      PROVE  i = 1
  <2>1. 2 * (mSendQueue[e][i].nth - i) = TwicePopped(e)
          /\ 2 * (mSendQueue[e][1].nth - 1) = TwicePopped(e)
    BY <1>2, <1>6
  <2>2. 2 * (mSendQueue[e][1].nth - i) = TwicePopped(e)
    BY <1>8, <2>1, Zenon
  <2>3. TwicePopped(e) \in Int /\ mSendQueue[e][1].nth \in Int /\ i \in Int /\ 1 \in Int
    BY <1>2, <1>7
  <2> QED BY <2>1, <2>2, <2>3, SamePlace, Zenon
<1>9. ASSUME NEW i \in 1..Len(sendStrand[e]), sendStrand[e][i].nth = mSendQueue[e][1].nth
      PROVE  FALSE
  <2>1. 2 * (sendStrand[e][i].nth - i - Len(mSendQueue[e])) = TwicePopped(e)
          /\ 2 * (mSendQueue[e][1].nth - 1) = TwicePopped(e)
    BY <1>2, <1>6
  <2>2. /\ TwicePopped(e) \in Int /\ mSendQueue[e][1].nth \in Int /\ i \in Int
        /\ 1 \in Int /\ Len(mSendQueue[e]) \in Int
        /\ 2 * (mSendQueue[e][1].nth - i - Len(mSendQueue[e])) = TwicePopped(e)
    <3>1. 2 * (mSendQueue[e][1].nth - i - Len(mSendQueue[e])) = TwicePopped(e)
      BY <1>9, <2>1, Zenon
    <3> QED BY <1>2, <1>7, <3>1
  <2>3. 1 = i + Len(mSendQueue[e])
    <3> DEFINE n == mSendQueue[e][1].nth
               b == Len(mSendQueue[e])
               r == TwicePopped(e)
    <3>1. 2 * (n - 1) = r /\ 2 * (n - i - b) = r /\ n \in Int /\ b \in Int /\ r \in Int
      BY <2>1, <2>2, Zenon
    <3> HIDE DEF n, b, r
    <3>2. i \in Int
      BY <2>2, Zenon
    <3>3. 1 = i + b
      BY <3>1, <3>2
    <3> QED BY <3>3 DEF b
  <2>4. i >= 1 /\ Len(mSendQueue[e]) >= 1
    BY <1>2, <1>7
  <2> QED BY <2>2, <2>3, <2>4
<1> QED BY <1>2, <1>3, <1>5, <1>8, <1>9

(* While the user thread is calling, the last send that is queued or       *)
(* posted is the last one it made.                                         *)
LEMMA LastSend ==
  ASSUME CoreInv, FifoInv, NEW e \in Ends, pc[e] \in Calling
  PROVE  /\ sendStrand[e] # << >> =>
              /\ Len(sendStrand[e]) \in 1..Len(sendStrand[e])
              /\ sendStrand[e][Len(sendStrand[e])].nth = Len(sent[e])
              /\ sendStrand[e][Len(sendStrand[e])].type = "SendData"
         /\ sendStrand[e] = << >> /\ mSendQueue[e] # << >> =>
              /\ Len(mSendQueue[e]) \in 1..Len(mSendQueue[e])
              /\ mSendQueue[e][Len(mSendQueue[e])].nth = Len(sent[e])
              /\ mSendQueue[e][Len(mSendQueue[e])].type = "SendData"
<1> DEFINE s == Len(sendStrand[e])
           q == Len(mSendQueue[e])
<1>1. /\ sendStrand[e] \in Seq(SendOp) /\ mSendQueue[e] \in Seq(SendOp)
      /\ s \in Nat /\ q \in Nat /\ Len(sent[e]) \in Nat /\ TwicePopped(e) \in Int
  BY Integers DEF CoreInv, TypeOK, SendTypeOK
<1>2. Open(e)
  BY DEF Open, Calling
<1>3. FifoAt(e)
  BY DEF FifoInv
<1>4. /\ \A i \in 1..q : 2 * (mSendQueue[e][i].nth - i) = TwicePopped(e)
      /\ \A i \in 1..s : 2 * (sendStrand[e][i].nth - i - q) = TwicePopped(e)
      /\ 2 * (Len(sent[e]) - q - s) = TwicePopped(e)
  BY <1>2, <1>3 DEF FifoAt, SendChain
<1>5. /\ \A i \in 1..q : mSendQueue[e][i].type = "SendData" /\ mSendQueue[e][i].nth \in Int
      /\ \A i \in 1..s : sendStrand[e][i].type = "SendData" /\ sendStrand[e][i].nth \in Int
  BY Integers, Fields DEF CoreInv, SendCloseLast
<1>6. ASSUME sendStrand[e] # << >>
      PROVE  s \in 1..s /\ sendStrand[e][s].nth = Len(sent[e])
  <2>1. s \in 1..s
    BY <1>1, <1>6, EmptySeq
  <2>2. 2 * (sendStrand[e][s].nth - s - q) = TwicePopped(e) /\ sendStrand[e][s].nth \in Int
    BY <1>4, <1>5, <2>1
  <2>3. Len(sent[e]) = sendStrand[e][s].nth
    <3>1. s \in Int /\ q \in Int /\ Len(sent[e]) \in Int /\ TwicePopped(e) \in Int
      BY <1>1
    <3>2. 2 * (Len(sent[e]) - q - s) = TwicePopped(e)
      BY <1>4, Zenon
    <3> HIDE DEF s, q
    <3> QED BY <2>2, <3>1, <3>2, SameNumber, Zenon
  <2> QED BY <2>1, <2>3
<1>7. ASSUME sendStrand[e] = << >>, mSendQueue[e] # << >>
      PROVE  q \in 1..q /\ mSendQueue[e][q].nth = Len(sent[e])
  <2>1. q \in 1..q /\ s = 0
    BY <1>1, <1>7, EmptySeq
  <2>2. 2 * (mSendQueue[e][q].nth - q) = TwicePopped(e) /\ mSendQueue[e][q].nth \in Int
    BY <1>4, <1>5, <2>1
  <2>3. 2 * (Len(sent[e]) - q - 0) = TwicePopped(e)
    BY <1>4, <2>1
  <2>4. q \in Int /\ Len(sent[e]) \in Int /\ TwicePopped(e) \in Int
    BY <1>1
  <2> HIDE DEF q
  <2>5. Len(sent[e]) = mSendQueue[e][q].nth
    BY <2>2, <2>3, <2>4, SameNumber, Zenon
  <2> QED BY <2>1, <2>5
<1> QED BY <1>5, <1>6, <1>7

(***************************************************************************)
(* Each step keeps StackInv.                                               *)
(***************************************************************************)

LEMMA InitStack == Init => StackInv
  BY EmptySeq DEF Init, StackInv, StackAt

(* A step that completes no send and pushes or pops none.                  *)
LEMMA StackFrame ==
  ASSUME NEW e \in Ends, StackAt(e), Alive(e)' => Alive(e),
         pc[e] = "waitSend" => pc'[e] = "waitSend",
         mSendQueue'[e] = mSendQueue[e], sendStrand'[e] = sendStrand[e],
         sent'[e] = sent[e], writing'[e] = "pop" <=> writing[e] = "pop",
         \A p \in kept'[e] : p[1] = "SendData" => p \in kept[e]
  PROVE  StackAt(e)'
  BY DEF StackAt, Awaited, Fulfilled

LEMMA SendStack ==
  ASSUME CoreInv, CoreInv', StackInv, NEW e \in Ends, Send(e) PROVE StackInv'
<1>1. Head(todo[e]) \in Call /\ sent[e] \in Seq(Nat) /\ sendStrand[e] \in Seq(SendOp)
  BY HeadTail DEF Send, CoreInv, TypeOK, UserTypeOK, SendTypeOK
<1>2. PICK c \in Call : c = Head(todo[e])
  BY <1>1
<1>3. PICK op \in SendOp :
          /\ op = Operation("SendData", Len(sent[e]) + 1, c.size, c.sync)
          /\ op.type = "SendData" /\ op.nth = Len(sent[e]) + 1 /\ op.flag = c.sync
  <2>1. c.size \in Nat /\ c.sync \in BOOLEAN /\ Len(sent[e]) + 1 \in Nat
    BY <1>1, LenProperties DEF Call
  <2>2. Operation("SendData", Len(sent[e]) + 1, c.size, c.sync) \in SendOp
    BY <2>1 DEF Operation, SendOp
  <2> QED BY <2>2 DEF Operation
<1>4. /\ pc[e] = "run" /\ sent' = [sent EXCEPT ![e] = Append(@, c.size)]
      /\ sendStrand' = [sendStrand EXCEPT ![e] = Append(@, op)]
      /\ pc' = [pc EXCEPT ![e] = IF c.sync THEN "waitSend" ELSE "run"]
      /\ UNCHANGED <<mSendQueue, writing, kept>>
  BY <1>2, <1>3 DEF Send
<1>5. /\ Len(sent[e]) \in Nat /\ Len(sent'[e]) = Len(sent[e]) + 1
      /\ Len(sendStrand'[e]) = Len(sendStrand[e]) + 1 /\ Len(sendStrand[e]) \in Nat
      /\ \A i \in 1..Len(sendStrand[e]) : sendStrand'[e][i] = sendStrand[e][i]
      /\ sendStrand'[e][Len(sendStrand[e]) + 1] = op
  <2>1. c.size \in Nat
    BY DEF Call
  <2>2. sent'[e] = Append(sent[e], c.size) /\ sendStrand'[e] = Append(sendStrand[e], op)
    BY <1>4 DEF CoreInv, TypeOK, UserTypeOK, SendTypeOK
  <2> QED BY <1>1, <2>1, <2>2, Appended
<1>6. StackAt(e) /\ Alive(e) /\ \A p \in kept[e] : p[1] = "SendData" => p[2] \in Nat
  BY <1>4 DEF StackInv, Alive, CoreInv, TypeOK, KeptTypeOK, Promise
<1>7. \A x : Awaited(e, x) => Awaited(e, x)'
  BY <1>4 DEF Awaited, Fulfilled
<1>8. Awaited(e, op)'
  <2>1. ~Fulfilled(e, "SendData", op.nth)'
    <3>1. \A p \in kept[e] : p[1] = "SendData" => p[2] <= Len(sent[e])
      BY <1>6 DEF StackAt
    <3> QED BY <1>3, <1>4, <1>5, <1>6, <3>1 DEF Fulfilled
  <2>2. op.flag => pc'[e] = "waitSend"
    BY <1>4, <1>3 DEF CoreInv, TypeOK, UserTypeOK
  <2> QED BY <1>5, <1>3, <2>1, <2>2 DEF Awaited, Fulfilled
<1>9. StackAt(e)'
  <2>1. \A p \in kept'[e] : p[1] = "SendData" => p[2] <= Len(sent'[e])
    BY <1>4, <1>5, <1>6 DEF StackAt
  <2>2. \A i \in 1..Len(sendStrand'[e]) : Awaited(e, sendStrand[e][i])'
    <3> SUFFICES ASSUME NEW i \in 1..Len(sendStrand'[e]) PROVE Awaited(e, sendStrand[e][i])'
      OBVIOUS
    <3>1. CASE i = Len(sendStrand[e]) + 1
      BY <1>5, <1>8, <3>1 DEF Awaited, Fulfilled
    <3>2. CASE i \in 1..Len(sendStrand[e])
      BY <1>5, <1>6, <1>7, <3>2 DEF StackAt, Awaited, Fulfilled
    <3> QED BY <1>5, <3>1, <3>2
  <2>3. \A i \in 1..Len(mSendQueue'[e]) :
           i # 1 \/ writing'[e] # "pop" => Awaited(e, mSendQueue[e][i])'
    BY <1>4, <1>6, <1>7 DEF StackAt, Awaited, Fulfilled
  <2> QED BY <2>1, <2>2, <2>3 DEF StackAt
<1>10. ASSUME NEW f \in Ends \ {e} PROVE StackAt(f)'
  <2>1. /\ pc'[f] = pc[f] /\ sent'[f] = sent[f] /\ sendStrand'[f] = sendStrand[f]
    BY <1>4 DEF CoreInv, TypeOK, UserTypeOK, SendTypeOK
  <2> QED BY <1>4, <2>1, StackFrame DEF StackInv, Alive
<1> QED BY <1>9, <1>10 DEF StackInv

(* The steps that touch neither the sends nor the promises of sends.       *)
LEMMA OtherStack ==
  ASSUME CoreInv, CoreInv', StackInv, NEW e \in Ends,
         Recv(e) \/ CloseReturn(e) \/ ReadFails(e) \/ WriteFails(e) \/ Reset(e)
  PROVE  StackInv'
<1>1. /\ UNCHANGED <<mSendQueue, sendStrand, writing, sent, kept>>
      /\ \A f \in Ends : /\ Alive(f)' => Alive(f)
                         /\ Alive(f)' /\ pc[f] = "waitSend" => pc'[f] = "waitSend"
  BY DEF Recv, CloseReturn, ReadFails, WriteFails, Reset, Alive, Open, CoreInv, TypeOK,
         UserTypeOK, userVars, sendVars
<1>2. ASSUME NEW f \in Ends PROVE StackAt(f)'
  <2>1. CASE ~Alive(f)'
    BY <2>1 DEF StackAt
  <2>2. CASE Alive(f)'
    BY <1>1, <2>2, StackFrame DEF StackInv
  <2> QED BY <2>1, <2>2
<1> QED BY <1>2 DEF StackInv

LEMMA ReturnStack ==
  ASSUME CoreInv, CoreInv', StackInv, NEW e \in Ends, Return(e) PROVE StackInv'
<1>1. /\ pc' = [pc EXCEPT ![e] = "run"] /\ pc[e] \in {"waitSend", "waitRecv"}
      /\ UNCHANGED <<mSendQueue, sendStrand, writing, sent, kept>>
      /\ pc[e] = "waitSend" => Fulfilled(e, "SendData", Len(sent[e]))
  BY DEF Return, userVars, sendVars
<1>2. \A x : Awaited(e, x) => Awaited(e, x)'
  BY <1>1 DEF Awaited, Fulfilled
<1>3. StackAt(e) /\ Alive(e)
  BY <1>1 DEF StackInv, Alive
<1>4. StackAt(e)'
  BY <1>1, <1>2, <1>3 DEF StackAt
<1>5. ASSUME NEW f \in Ends \ {e} PROVE StackAt(f)'
  <2>1. pc'[f] = pc[f]
    BY <1>1 DEF CoreInv, TypeOK, UserTypeOK
  <2> QED BY <1>1, <2>1, StackFrame DEF StackInv, Alive
<1> QED BY <1>4, <1>5 DEF StackInv

LEMMA CloseStack ==
  ASSUME CoreInv, CoreInv', StackInv, NEW e \in Ends, Close(e) PROVE StackInv'
<1>1. PICK op : op = Operation("CloseSend", Len(sent[e]) + 1, 0, TRUE)
  OBVIOUS
<1>2. /\ pc[e] = "run" /\ pc' = [pc EXCEPT ![e] = "closing"]
      /\ sendStrand' = [sendStrand EXCEPT ![e] = Append(@, op)]
      /\ UNCHANGED <<mSendQueue, writing, sent, kept>>
  BY <1>1 DEF Close, userVars
<1>3. op \in SendOp /\ op.type = "CloseSend"
  <2>1. Len(sent[e]) \in Nat
    BY Integers
  <2> QED BY <1>1, <2>1 DEF Operation, SendOp
<1>4. /\ Len(sendStrand'[e]) = Len(sendStrand[e]) + 1 /\ Len(sendStrand[e]) \in Nat
      /\ \A i \in 1..Len(sendStrand[e]) : sendStrand'[e][i] = sendStrand[e][i]
      /\ sendStrand'[e][Len(sendStrand[e]) + 1] = op
  <2>1. sendStrand[e] \in Seq(SendOp) /\ sendStrand'[e] = Append(sendStrand[e], op)
    BY <1>2 DEF CoreInv, TypeOK, SendTypeOK
  <2> QED BY <1>3, <2>1, Appended
<1>5. \A x : Awaited(e, x) => Awaited(e, x)'
  BY <1>2 DEF Awaited, Fulfilled
<1>6. StackAt(e) /\ Alive(e)
  BY <1>2 DEF StackInv, Alive
<1>7. StackAt(e)'
  <2>1. \A i \in 1..Len(sendStrand'[e]) : Awaited(e, sendStrand[e][i])'
    <3> SUFFICES ASSUME NEW i \in 1..Len(sendStrand'[e]) PROVE Awaited(e, sendStrand[e][i])'
      OBVIOUS
    <3>1. CASE i = Len(sendStrand[e]) + 1
      BY <1>3, <1>4, <3>1 DEF Awaited
    <3>2. CASE i \in 1..Len(sendStrand[e])
      BY <1>4, <1>5, <1>6, <3>2 DEF StackAt, Awaited, Fulfilled
    <3> QED BY <1>4, <3>1, <3>2
  <2>2. \A i \in 1..Len(mSendQueue'[e]) :
           i # 1 \/ writing'[e] # "pop" => Awaited(e, mSendQueue[e][i])'
    BY <1>2, <1>5, <1>6 DEF StackAt, Awaited, Fulfilled
  <2> QED BY <1>2, <1>6, <2>1, <2>2 DEF StackAt
<1>8. ASSUME NEW f \in Ends \ {e} PROVE StackAt(f)'
  <2>1. pc'[f] = pc[f] /\ sendStrand'[f] = sendStrand[f]
    BY <1>2 DEF CoreInv, TypeOK, UserTypeOK, SendTypeOK
  <2> QED BY <1>2, <2>1, StackFrame DEF StackInv, Alive
<1> QED BY <1>7, <1>8 DEF StackInv

LEMMA PushSendStack ==
  ASSUME CoreInv, CoreInv', StackInv, NEW e \in Ends, PushSend(e) PROVE StackInv'
<1>1. PICK op \in SendOp, q \in Seq(SendOp), rest \in Seq(SendOp) :
         PushSendResult(e, op, q, rest)
  BY PushSendEffect
<1>2. /\ op = sendStrand[e][1] /\ 1 \in 1..Len(sendStrand[e])
      /\ Len(rest) = Len(sendStrand[e]) - 1 /\ Len(sendStrand[e]) \in Nat
      /\ \A i \in 1..Len(rest) : rest[i] = sendStrand[e][i + 1]
      /\ Len(mSendQueue[e]) \in Nat /\ Len(q) = Len(mSendQueue[e]) + 1
      /\ \A i \in 1..Len(mSendQueue[e]) : q[i] = mSendQueue[e][i]
      /\ q[Len(mSendQueue[e]) + 1] = op
      /\ mSendQueue[e] = << >> <=> Len(mSendQueue[e]) = 0
      /\ UNCHANGED <<userVars, pc>>
  BY <1>1 DEF PushSendResult
<1>3. /\ sendStrand'[e] = rest
      /\ \/ /\ mSendQueue'[e] = q
            /\ mSendQueue[e] = << >> \/ writing'[e] = writing[e]
            /\ mSendQueue[e] = << >> => writing'[e] = "header"
         \/ mSendQueue'[e] = << >>
      /\ \A f \in Ends \ {e} : /\ sendStrand'[f] = sendStrand[f]
                               /\ mSendQueue'[f] = mSendQueue[f] /\ writing'[f] = writing[f]
  BY <1>1 DEF PushSendResult, CoreInv, TypeOK, SendTypeOK
<1>4. \A f \in Ends : \A p \in kept'[f] : p[1] = "SendData" => p \in kept[f]
  BY <1>1 DEF PushSendResult, CoreInv, TypeOK, KeptTypeOK
<1>5. StackAt(e)'
  <2> SUFFICES ASSUME Alive(e) PROVE StackAt(e)'
    BY <1>2 DEF StackAt, Alive
  <2>1. /\ \A p \in kept[e] : p[1] = "SendData" => p[2] <= Len(sent[e])
        /\ \A i \in 1..Len(sendStrand[e]) : Awaited(e, sendStrand[e][i])
        /\ \A i \in 1..Len(mSendQueue[e]) :
              i # 1 \/ writing[e] # "pop" => Awaited(e, mSendQueue[e][i])
    BY DEF StackInv, StackAt
  <2>2. \A i \in 1..Len(rest) : i + 1 \in 1..Len(sendStrand[e])
    BY <1>2
  <2>3. \A i \in 1..Len(sendStrand'[e]) : Awaited(e, sendStrand[e][i])'
    <3> SUFFICES ASSUME NEW i \in 1..Len(rest) PROVE Awaited(e, sendStrand[e][i])'
      BY <1>3
    <3>1. sendStrand'[e][i] = sendStrand[e][i + 1] /\ Awaited(e, sendStrand[e][i + 1])
      BY <1>2, <1>3, <2>1, <2>2
    <3> QED BY <1>2, <1>4, <3>1 DEF Awaited, Fulfilled, userVars
  <2>4. CASE mSendQueue'[e] = << >>
    BY <1>2, <1>4, <2>1, <2>3, <2>4, EmptySeq DEF StackAt, userVars
  <2>5. CASE /\ mSendQueue'[e] = q
             /\ mSendQueue[e] = << >> \/ writing'[e] = writing[e]
             /\ mSendQueue[e] = << >> => writing'[e] = "header"
    <3>1. ASSUME NEW i \in 1..Len(q), i # 1 \/ writing'[e] # "pop"
          PROVE  Awaited(e, mSendQueue[e][i])'
      <4>1. CASE i = Len(mSendQueue[e]) + 1
        <5>1. mSendQueue'[e][i] = sendStrand[e][1] /\ Awaited(e, sendStrand[e][1])
          BY <1>2, <2>1, <2>5, <4>1
        <5> QED BY <1>2, <1>4, <5>1 DEF Awaited, Fulfilled, userVars
      <4>2. CASE i \in 1..Len(mSendQueue[e])
        <5>1. mSendQueue'[e][i] = mSendQueue[e][i] /\ writing'[e] = writing[e]
          BY <1>2, <2>5, <4>2
        <5>2. Awaited(e, mSendQueue[e][i])
          BY <2>1, <3>1, <4>2, <5>1
        <5> QED BY <1>2, <1>4, <5>1, <5>2 DEF Awaited, Fulfilled, userVars
      <4> QED BY <1>2, <4>1, <4>2
    <3>2. \A p \in kept'[e] : p[1] = "SendData" => p[2] <= Len(sent'[e])
      BY <1>2, <1>4, <2>1 DEF userVars
    <3> QED BY <2>3, <2>5, <3>1, <3>2 DEF StackAt
  <2> QED BY <1>3, <2>4, <2>5
<1>6. ASSUME NEW f \in Ends \ {e} PROVE StackAt(f)'
  BY <1>2, <1>3, <1>4, StackFrame DEF StackInv, Alive, userVars
<1> QED BY <1>5, <1>6 DEF StackInv

LEMMA PopSendStack ==
  ASSUME CoreInv, CoreInv', StackInv, NEW e \in Ends, PopSend(e) PROVE StackInv'
<1>1. PICK q \in Seq(SendOp) : PopSendResult(e, q)
  BY PopSendEffect
<1>2. /\ Len(mSendQueue[e]) \in Nat \ {0} /\ Len(q) = Len(mSendQueue[e]) - 1
      /\ \A i \in 1..Len(q) : q[i] = mSendQueue[e][i + 1]
      /\ UNCHANGED <<userVars, pc, sendStrand>>
  BY <1>1 DEF PopSendResult
<1>3. /\ mSendQueue'[e] = q \/ mSendQueue'[e] = << >>
      /\ \A f \in Ends \ {e} : mSendQueue'[f] = mSendQueue[f] /\ writing'[f] = writing[f]
  BY <1>1 DEF PopSendResult, CoreInv, TypeOK, SendTypeOK
<1>4. \A f \in Ends : \A p \in kept'[f] : p[1] = "SendData" => p \in kept[f]
  BY <1>1 DEF PopSendResult, CoreInv, TypeOK, KeptTypeOK
<1>5. StackAt(e)'
  <2> SUFFICES ASSUME Alive(e) PROVE StackAt(e)'
    BY <1>2 DEF StackAt, Alive
  <2>1. /\ \A p \in kept[e] : p[1] = "SendData" => p[2] <= Len(sent[e])
        /\ \A i \in 1..Len(sendStrand[e]) : Awaited(e, sendStrand[e][i])
        /\ \A i \in 1..Len(mSendQueue[e]) : i # 1 => Awaited(e, mSendQueue[e][i])
    BY DEF StackInv, StackAt
  <2>2. \A i \in 1..Len(q) : i + 1 \in 1..Len(mSendQueue[e]) /\ i + 1 # 1
    BY <1>2
  <2>3. /\ \A i \in 1..Len(sendStrand'[e]) : Awaited(e, sendStrand[e][i])'
        /\ \A p \in kept'[e] : p[1] = "SendData" => p[2] <= Len(sent'[e])
    BY <1>2, <1>4, <2>1 DEF Awaited, Fulfilled, userVars
  <2>4. CASE mSendQueue'[e] = << >>
    BY <2>3, <2>4, EmptySeq DEF StackAt
  <2>5. CASE mSendQueue'[e] = q
    <3>1. \A i \in 1..Len(q) : Awaited(e, mSendQueue[e][i])'
      BY <1>2, <1>4, <2>1, <2>2, <2>5 DEF Awaited, Fulfilled, userVars
    <3> QED BY <2>3, <2>5, <3>1 DEF StackAt
  <2> QED BY <1>3, <2>4, <2>5
<1>6. ASSUME NEW f \in Ends \ {e} PROVE StackAt(f)'
  BY <1>2, <1>3, <1>4, StackFrame DEF StackInv, Alive, userVars
<1> QED BY <1>5, <1>6 DEF StackInv

(* A write that completes fulfils the promise of its own send only.        *)
LEMMA WriteDoneStack ==
  ASSUME CoreInv, CoreInv', FifoInv, StackInv, NEW e \in Ends, WriteDone(e)
  PROVE  StackInv'
<1>1. /\ writing[e] = "written" /\ writing' = [writing EXCEPT ![e] = "pop"] /\ Alive(e)
      /\ UNCHANGED <<userVars, pc, sendStrand, mSendQueue>>
  BY DEF WriteDone
<1>2. Open(e)
  BY <1>1, Closed DEF Open, Alive, CoreInv, TypeOK, UserTypeOK
<1>3. PICK op : op = mSendQueue[e][1]
  OBVIOUS
<1>4. /\ 1 \in 1..Len(mSendQueue[e]) /\ op.type = "SendData" /\ Head(mSendQueue[e]) = op
      /\ op.nth \in 1..Len(sent[e])
      /\ \A i \in 1..Len(mSendQueue[e]) : i # 1 => mSendQueue[e][i].nth # op.nth
      /\ \A i \in 1..Len(sendStrand[e]) : sendStrand[e][i].nth # op.nth
  BY <1>1, <1>2, <1>3, FrontAlone
<1>5. /\ \A p \in kept'[e] : p[1] = "SendData" => p \in kept[e] \/ p[2] = op.nth
      /\ \A f \in Ends \ {e} : kept'[f] = kept[f]
  <2>1. \/ kept' = kept
        \/ kept' = [kept EXCEPT ![e] = @ \cup {Kept(op, "value")}]
    <3>1. CASE op.flag
      BY <1>4, <3>1 DEF WriteDone
    <3>2. CASE ~op.flag
      BY <1>4, <3>2 DEF WriteDone, CoreInv, TypeOK, KeptTypeOK
    <3> QED BY <3>1, <3>2
  <2>2. Kept(op, "value")[2] = op.nth
    BY DEF Kept
  <2> QED BY <2>1, <2>2 DEF CoreInv, TypeOK, KeptTypeOK
<1>6. StackAt(e)'
  <2>1. /\ \A p \in kept[e] : p[1] = "SendData" => p[2] <= Len(sent[e])
        /\ \A i \in 1..Len(sendStrand[e]) : Awaited(e, sendStrand[e][i])
        /\ \A i \in 1..Len(mSendQueue[e]) : Awaited(e, mSendQueue[e][i])
    BY <1>1 DEF StackInv, StackAt
  <2>2. \A p \in kept'[e] : p[1] = "SendData" => p[2] <= Len(sent'[e])
    <3>1. op.nth <= Len(sent[e])
      BY <1>4
    <3> QED BY <1>1, <1>5, <2>1, <3>1 DEF userVars
  <2>3. \A i \in 1..Len(sendStrand'[e]) : Awaited(e, sendStrand[e][i])'
    BY <1>1, <1>4, <1>5, <2>1 DEF Awaited, Fulfilled, userVars
  <2>4. \A i \in 1..Len(mSendQueue'[e]) : i # 1 => Awaited(e, mSendQueue[e][i])'
    BY <1>1, <1>4, <1>5, <2>1 DEF Awaited, Fulfilled, userVars
  <2>5. writing'[e] = "pop"
    BY <1>1 DEF CoreInv, TypeOK, SendTypeOK
  <2> QED BY <2>2, <2>3, <2>4, <2>5 DEF StackAt
<1>7. ASSUME NEW f \in Ends \ {e} PROVE StackAt(f)'
  <2>1. writing'[f] = writing[f]
    BY <1>1 DEF CoreInv, TypeOK, SendTypeOK
  <2> QED BY <1>1, <1>5, <2>1, StackFrame DEF StackInv, Alive, userVars
<1> QED BY <1>6, <1>7 DEF StackInv

LEMMA WriteStack ==
  ASSUME CoreInv, CoreInv', StackInv, NEW e \in Ends, Write(e) PROVE StackInv'
<1>1. UNCHANGED <<userVars, pc, sendStrand, mSendQueue, kept>>
  BY DEF Write
<1>2. \A f \in Ends : writing'[f] = "pop" <=> writing[f] = "pop"
  BY DEF Write, CoreInv, TypeOK, SendTypeOK
<1>3. ASSUME NEW f \in Ends PROVE StackAt(f)'
  BY <1>1, <1>2, StackFrame DEF StackInv, Alive, userVars
<1> QED BY <1>3 DEF StackInv

LEMMA RecvSideStack ==
  ASSUME CoreInv, CoreInv', StackInv, NEW e \in Ends, RecvStep(e) PROVE StackInv'
<1>1. /\ UNCHANGED <<userVars, pc, sendVars>>
      /\ \A f \in Ends : \A p \in kept'[f] : p[1] = "SendData" => p \in kept[f]
  <2>1. CASE PushRecv(e)
    <3>1. PICK op \in RecvOp, q \in Seq(RecvOp), rest \in Seq(RecvOp) :
             PushRecvResult(e, op, q, rest)
      BY <2>1, PushRecvEffect
    <3> QED BY <3>1 DEF PushRecvResult, CoreInv, TypeOK, KeptTypeOK
  <2>2. CASE PopRecv(e)
    <3>1. PICK q \in Seq(RecvOp) : PopRecvResult(e, q)
      BY <2>2, PopRecvEffect
    <3> QED BY <3>1 DEF PopRecvResult, CoreInv, TypeOK, KeptTypeOK
  <2>3. CASE ReadHeader(e)
    <3>1. PICK t \in Seq(RecvOp), rest \in Seq(WirePart) : ReadHeaderResult(e, t, rest)
      BY <2>3, ReadHeaderEffect
    <3>2. /\ UNCHANGED <<userVars, pc, sendVars>>
          /\ \/ kept' = kept
             \/ \E p \in Promise : p[1] = "RecvData" /\ kept' = [kept EXCEPT ![e] = @ \cup {p}]
      BY <3>1 DEF ReadHeaderResult
    <3>3. kept \in [Ends -> SUBSET Promise]
      BY DEF CoreInv, TypeOK, KeptTypeOK
    <3> QED BY <3>2, <3>3
  <2>4. CASE ReadBody(e)
    <3>1. Head(mRecvQueue[e]).type = "RecvData"
      BY <2>4 DEF ReadBody, CoreInv, QueueDriven
    <3>2. Kept(Head(mRecvQueue[e]), "value")[1] = "RecvData"
      BY <3>1 DEF Kept
    <3> QED BY <2>4, <3>2 DEF ReadBody, CoreInv, TypeOK, KeptTypeOK
  <2> QED BY <2>1, <2>2, <2>3, <2>4 DEF RecvStep
<1>2. ASSUME NEW f \in Ends PROVE StackAt(f)'
  BY <1>1, StackFrame DEF StackInv, Alive, userVars, sendVars
<1> QED BY <1>2 DEF StackInv

LEMMA NextStack ==
  CoreInv /\ CoreInv' /\ FifoInv /\ StackInv /\ [Next]_vars => StackInv'
<1> SUFFICES ASSUME CoreInv, CoreInv', FifoInv, StackInv, [Next]_vars PROVE StackInv'
  OBVIOUS
<1>1. CASE UNCHANGED vars
  <2>1. ASSUME NEW f \in Ends PROVE StackAt(f)'
    BY <1>1, StackFrame DEF StackInv, Alive, vars
  <2> QED BY <2>1 DEF StackInv
<1>2. ASSUME NEW e \in Ends, UserStep(e) PROVE StackInv'
  BY <1>2, SendStack, OtherStack, ReturnStack, CloseStack DEF UserStep
<1>3. ASSUME NEW e \in Ends, SendStep(e) PROVE StackInv'
  BY <1>3, PushSendStack, WriteStack, WriteDoneStack, PopSendStack DEF SendStep
<1>4. ASSUME NEW e \in Ends, Failure(e) PROVE StackInv'
  BY <1>4, OtherStack DEF Failure
<1> QED BY <1>1, <1>2, <1>3, <1>4, RecvSideStack DEF Next

(* A send whose write has not completed is unfulfilled, and its thread     *)
(* waits for it if it is synchronous.                                      *)
THEOREM SpecStack == Spec => []StackInv
<1>1. Spec => []CoreInv /\ []FifoInv
  BY SpecCore, SpecFifo, PTL
<1> QED BY <1>1, InitStack, NextStack, PTL DEF Spec

(* As long as the promise of a send() or close() can still be fulfilled,   *)
(* the thread is inside that call, and the promise on its stack alive.     *)
THEOREM PromisesAlive == Spec => []StackPromiseAlive
<1>1. CoreInv /\ StackInv => StackPromiseAlive
  <2> SUFFICES ASSUME CoreInv, StackInv, NEW e \in Ends, Alive(e)
               PROVE  LET pending(s, from) == {s[i] : i \in from..Len(s)}
                          first == IF writing[e] = "pop" THEN 2 ELSE 1
                          sends == pending(sendStrand[e], 1) \cup pending(mSendQueue[e], first)
                          recvOps == pending(recvStrand[e], 1) \cup pending(mRecvQueue[e], 1)
                      IN  /\ \A op \in sends :
                               /\ op.type = "SendData" /\ op.flag => pc[e] = "waitSend"
                               /\ op.type = "CloseSend" => pc[e] = "closing"
                          /\ \A op \in recvOps : op.type = "CloseRecv" => pc[e] = "closing"
    BY DEF StackPromiseAlive
  <2>1. pc[e] = "closed" =>
          /\ sendStrand[e] = << >> /\ mSendQueue[e] = << >>
          /\ recvStrand[e] = << >> /\ mRecvQueue[e] = << >>
    <3> SUFFICES ASSUME pc[e] = "closed"
                 PROVE  /\ sendStrand[e] = << >> /\ mSendQueue[e] = << >>
                        /\ recvStrand[e] = << >> /\ mRecvQueue[e] = << >>
      OBVIOUS
    <3>1. \E p \in kept[e] : p[1] = "CloseRecv"
      BY DEF CoreInv, RecvCloseLast
    <3> QED BY <3>1, Closed DEF CoreInv, RecvCloseLast
  <2>2. pc[e] \notin Calling /\ pc[e] # "closed" => pc[e] = "closing"
    BY DEF Alive, Calling, CoreInv, TypeOK, UserTypeOK
  <2>3. ASSUME NEW i \in 1..Len(sendStrand[e])
        PROVE  /\ sendStrand[e][i].type = "SendData" /\ sendStrand[e][i].flag => pc[e] = "waitSend"
               /\ sendStrand[e][i].type = "CloseSend" => pc[e] = "closing"
    BY <2>1, <2>2, EmptySeq DEF StackInv, StackAt, Awaited, CoreInv, SendCloseLast
  <2>4. ASSUME NEW i \in (IF writing[e] = "pop" THEN 2 ELSE 1)..Len(mSendQueue[e])
        PROVE  /\ mSendQueue[e][i].type = "SendData" /\ mSendQueue[e][i].flag => pc[e] = "waitSend"
               /\ mSendQueue[e][i].type = "CloseSend" => pc[e] = "closing"
    <3>1. Len(mSendQueue[e]) \in Nat
      BY Integers
    <3>2. i \in 1..Len(mSendQueue[e]) /\ (i # 1 \/ writing[e] # "pop")
      <4>1. CASE writing[e] = "pop"
        BY <3>1, <4>1
      <4>2. CASE writing[e] # "pop"
        BY <3>1, <4>2
      <4> QED BY <4>1, <4>2
    <3>3. Awaited(e, mSendQueue[e][i])
      BY <3>2 DEF StackInv, StackAt
    <3>4. mSendQueue[e][i].type = "CloseSend" => pc[e] \notin Calling
      BY <3>2 DEF CoreInv, SendCloseLast
    <3>5. pc[e] # "closed"
      BY <2>1, <3>2, EmptySeq
    <3> QED BY <2>2, <3>3, <3>4, <3>5 DEF Awaited
  <2>5. ASSUME NEW i \in 1..Len(recvStrand[e]), recvStrand[e][i].type = "CloseRecv"
        PROVE  pc[e] = "closing"
    BY <2>1, <2>2, <2>5, EmptySeq DEF CoreInv, RecvCloseLast
  <2>6. ASSUME NEW i \in 1..Len(mRecvQueue[e]), mRecvQueue[e][i].type = "CloseRecv"
        PROVE  pc[e] = "closing"
    BY <2>1, <2>2, <2>6, EmptySeq DEF CoreInv, RecvCloseLast
  <2> QED BY <2>3, <2>4, <2>5, <2>6
<1> QED BY <1>1, SpecCore, SpecStack, PTL

(* A send() that returns has flushed: its message and all the messages its *)
(* end sent before are in the hands of the kernel.                         *)
THEOREM SendsFlush == Spec => SendFlushes
<1> DEFINE Flushed == \A e \in Ends : pc[e] = "waitSend" /\ pc'[e] = "run" =>
             /\ sendStrand[e] = << >>
             /\ mSendQueue[e] = << >> \/ (Len(mSendQueue[e]) = 1 /\ writing[e] = "pop")
<1>1. CoreInv /\ FifoInv /\ StackInv /\ [Next]_vars => [Flushed]_vars
  <2> SUFFICES ASSUME CoreInv, FifoInv, StackInv, [Next]_vars, NEW e \in Ends,
                      pc[e] = "waitSend", pc'[e] = "run"
               PROVE  /\ sendStrand[e] = << >>
                      /\ mSendQueue[e] = << >> \/ (Len(mSendQueue[e]) = 1 /\ writing[e] = "pop")
    OBVIOUS
  <2>1. Return(e)
    <3>1. pc \in [Ends -> {"run", "waitSend", "waitRecv", "closing", "closed", "dead"}]
      BY DEF CoreInv, TypeOK, UserTypeOK
    <3>2. pc' # pc
      OBVIOUS
    <3>3. PICK f \in Ends : UserStep(f) \/ SendStep(f) \/ RecvStep(f) \/ Failure(f)
      BY <3>2 DEF Next, vars
    <3>4. ~SendStep(f)
      BY <3>2 DEF SendStep, PushSend, Write, WriteDone, PopSend
    <3>5. ~RecvStep(f)
      BY <3>2 DEF RecvStep, PushRecv, ReadHeader, ReadBody, PopRecv
    <3>6. ~Failure(f)
      BY <3>1, <3>2 DEF Failure, ReadFails, WriteFails, Reset
    <3>7. ~Send(f) /\ ~Recv(f) /\ ~Close(f) /\ ~CloseReturn(f)
      BY <3>1 DEF Send, Recv, Close, CloseReturn
    <3>8. Return(f)
      BY <3>3, <3>4, <3>5, <3>6, <3>7 DEF UserStep
    <3>9. f = e
      BY <3>1, <3>8 DEF Return
    <3> QED BY <3>8, <3>9
  <2>2. Fulfilled(e, "SendData", Len(sent[e]))
    BY <2>1 DEF Return
  <2>3. /\ \A i \in 1..Len(sendStrand[e]) : Awaited(e, sendStrand[e][i])
        /\ \A i \in 1..Len(mSendQueue[e]) :
              i # 1 \/ writing[e] # "pop" => Awaited(e, mSendQueue[e][i])
    BY DEF StackInv, StackAt, Alive
  <2>4. sendStrand[e] = << >>
    BY <2>2, <2>3, LastSend DEF Calling, Awaited
  <2>5. ASSUME mSendQueue[e] # << >> PROVE Len(mSendQueue[e]) = 1 /\ writing[e] = "pop"
    <3>1. /\ Len(mSendQueue[e]) \in 1..Len(mSendQueue[e])
          /\ ~Awaited(e, mSendQueue[e][Len(mSendQueue[e])])
      BY <2>2, <2>4, <2>5, LastSend DEF Calling, Awaited
    <3> QED BY <2>3, <3>1
  <2> QED BY <2>4, <2>5
<1>2. Spec => [][Flushed]_vars
  BY <1>1, SpecCore, SpecFifo, SpecStack, PTL DEF Spec
<1> QED BY <1>2 DEF SendFlushes

(***************************************************************************)
(* Where the messages come from: the plans.                                *)
(***************************************************************************)

LEMMA PlanTypes ==
  ASSUME NEW p \in Plans, NEW e \in Ends
  PROVE  p[e] \in Seq(Call) /\ Len(p[e]) \in Nat /\ DOMAIN p[e] = 1..Len(p[e])
<1>1. p[e] \in Seq(Call)
  BY PlansAssumption
<1> QED BY <1>1, LenProperties

LEMMA InitPlan == Init => PlanInv
<1> SUFFICES ASSUME Init PROVE PlanInv
  OBVIOUS
<1>1. todo \in Plans /\ sent = [e \in Ends |-> << >>]
  BY DEF Init
<1>2. ASSUME NEW e \in Ends PROVE PlanOf(todo, e)
  <2>1. Len(todo[e]) \in Nat
    BY <1>1, PlanTypes
  <2>2. sent[e] = << >> /\ Len(sent[e]) = 0
    BY <1>1, EmptySeq
  <2> QED BY <2>1, <2>2 DEF PlanOf
<1> QED BY <1>1, <1>2 DEF PlanInv

(* b calls of a are left, c messages were sent.                            *)
LEMMA CallsLeft ==
  /\ \A a, b, c \in Nat : b # 0 /\ b + c <= a =>
       /\ 1 \in 1..b /\ a - b + 1 \in 1..a /\ c + 1 \in 1..a
       /\ (b - 1) + c <= a /\ (b - 1) + (c + 1) <= a
  /\ \A a, b, i \in Int : a - b + (i + 1) = a - (b - 1) + i
  OBVIOUS

(* The next call of an end is a call of its plan.                          *)
LEMMA NextCall ==
  ASSUME CoreInv, NEW p \in Plans, NEW e \in Ends, PlanOf(p, e), todo[e] # << >>
  PROVE  /\ Len(todo[e]) \in Nat \ {0} /\ Len(sent[e]) \in Nat
         /\ Len(Tail(todo[e])) = Len(todo[e]) - 1
         /\ \A i \in 1..Len(Tail(todo[e])) :
               Tail(todo[e])[i] = p[e][Len(p[e]) - Len(Tail(todo[e])) + i]
         /\ \E i \in 1..Len(p[e]) : Head(todo[e]) = p[e][i]
         /\ Len(sent[e]) + 1 \in 1..Len(p[e])
<1>1. todo[e] \in Seq(Call) /\ Len(p[e]) \in Nat /\ Len(sent[e]) \in Nat
  BY PlanTypes, Integers DEF CoreInv, TypeOK, UserTypeOK
<1>2. /\ Len(todo[e]) \in Nat \ {0} /\ Len(Tail(todo[e])) = Len(todo[e]) - 1
      /\ Head(todo[e]) = todo[e][1]
      /\ \A i \in 1..Len(Tail(todo[e])) : Tail(todo[e])[i] = todo[e][i + 1]
  BY <1>1, HeadTail
<1>3. /\ Len(todo[e]) + Len(sent[e]) <= Len(p[e])
      /\ \A i \in 1..Len(todo[e]) : todo[e][i] = p[e][Len(p[e]) - Len(todo[e]) + i]
  BY DEF PlanOf
<1>4. ASSUME NEW i \in 1..Len(Tail(todo[e]))
      PROVE  Tail(todo[e])[i] = p[e][Len(p[e]) - Len(Tail(todo[e])) + i]
  <2>1. i + 1 \in 1..Len(todo[e]) /\ Tail(todo[e])[i] = todo[e][i + 1]
    BY <1>2
  <2>2. todo[e][i + 1] = p[e][Len(p[e]) - Len(todo[e]) + (i + 1)]
    BY <1>3, <2>1
  <2>3. Len(p[e]) - Len(todo[e]) + (i + 1) = Len(p[e]) - (Len(todo[e]) - 1) + i
    <3>1. Len(p[e]) \in Int /\ Len(todo[e]) \in Int /\ i \in Int
      BY <1>1, <1>2
    <3> QED BY <3>1, CallsLeft, Zenon
  <2>4. Len(Tail(todo[e])) = Len(todo[e]) - 1
    BY <1>2
  <2> QED BY <2>1, <2>2, <2>3, <2>4, Zenon
<1>5. /\ 1 \in 1..Len(todo[e]) /\ Len(p[e]) - Len(todo[e]) + 1 \in 1..Len(p[e])
      /\ Len(sent[e]) + 1 \in 1..Len(p[e])
  <2>1. /\ Len(p[e]) \in Nat /\ Len(todo[e]) \in Nat /\ Len(sent[e]) \in Nat
        /\ Len(todo[e]) # 0 /\ Len(todo[e]) + Len(sent[e]) <= Len(p[e])
    BY <1>1, <1>2, <1>3
  <2> QED BY <2>1, CallsLeft, Zenon
<1>6. \E i \in 1..Len(p[e]) : Head(todo[e]) = p[e][i]
  BY <1>2, <1>3, <1>5, Zenon
<1>7. Len(sent[e]) + 1 \in 1..Len(p[e])
  BY <1>5
<1> QED BY <1>1, <1>2, <1>4, <1>6, <1>7

LEMMA CallPlan ==
  ASSUME CoreInv, CoreInv', PlanInv, NEW e \in Ends, Send(e) \/ Recv(e) PROVE PlanInv'
<1>1. PICK p \in Plans : \A f \in Ends : PlanOf(p, f)
  BY DEF PlanInv
<1>2. /\ todo[e] # << >> /\ todo'[e] = Tail(todo[e])
      /\ \A f \in Ends \ {e} : todo'[f] = todo[f] /\ sent'[f] = sent[f]
      /\ Len(sent'[e]) \in {Len(sent[e]), Len(sent[e]) + 1}
  <2>1. /\ todo[e] # << >> /\ todo' = [todo EXCEPT ![e] = Tail(@)]
        /\ sent' = sent \/ sent' = [sent EXCEPT ![e] = Append(@, Head(todo[e]).size)]
    BY DEF Send, Recv
  <2>2. Head(todo[e]).size \in Nat /\ sent[e] \in Seq(Nat)
    <3>1. Head(todo[e]) \in Call
      BY <2>1, HeadTail DEF CoreInv, TypeOK, UserTypeOK
    <3> QED BY <3>1 DEF Call, CoreInv, TypeOK, UserTypeOK
  <2>3. Len(Append(sent[e], Head(todo[e]).size)) = Len(sent[e]) + 1
    BY <2>2, Appended
  <2> QED BY <2>1, <2>3 DEF CoreInv, TypeOK, UserTypeOK
<1>3. PlanOf(p, e)'
  <2>1. /\ Len(todo[e]) \in Nat \ {0} /\ Len(sent[e]) \in Nat
        /\ Len(todo'[e]) = Len(todo[e]) - 1
        /\ \A i \in 1..Len(todo'[e]) : todo'[e][i] = p[e][Len(p[e]) - Len(todo'[e]) + i]
    <3>1. PlanOf(p, e) /\ todo[e] # << >> /\ todo'[e] = Tail(todo[e])
      BY <1>1, <1>2
    <3>2. /\ Len(todo[e]) \in Nat \ {0} /\ Len(sent[e]) \in Nat
          /\ Len(Tail(todo[e])) = Len(todo[e]) - 1
          /\ \A i \in 1..Len(Tail(todo[e])) :
                Tail(todo[e])[i] = p[e][Len(p[e]) - Len(Tail(todo[e])) + i]
      BY <3>1, NextCall
    <3> QED BY <3>1, <3>2, Zenon
  <2>2. Len(todo[e]) + Len(sent[e]) <= Len(p[e]) /\ Len(p[e]) \in Nat
    BY <1>1, PlanTypes DEF PlanOf
  <2>3. Len(todo'[e]) + Len(sent'[e]) <= Len(p[e])
    <3>1. /\ (Len(todo[e]) - 1) + Len(sent[e]) <= Len(p[e])
          /\ (Len(todo[e]) - 1) + (Len(sent[e]) + 1) <= Len(p[e])
      <4>1. /\ Len(p[e]) \in Nat /\ Len(todo[e]) \in Nat /\ Len(sent[e]) \in Nat
            /\ Len(todo[e]) # 0 /\ Len(todo[e]) + Len(sent[e]) <= Len(p[e])
        BY <2>1, <2>2
      <4> QED BY <4>1, CallsLeft, Zenon
    <3>2. Len(todo'[e]) = Len(todo[e]) - 1
      BY <2>1
    <3>3. Len(sent'[e]) = Len(sent[e]) \/ Len(sent'[e]) = Len(sent[e]) + 1
      BY <1>2
    <3> QED BY <3>1, <3>2, <3>3, Zenon
  <2> QED BY <2>1, <2>3 DEF PlanOf
<1>4. ASSUME NEW f \in Ends \ {e} PROVE PlanOf(p, f)'
  BY <1>1, <1>2 DEF PlanOf
<1> QED BY <1>3, <1>4 DEF PlanInv

LEMMA NextPlan == CoreInv /\ CoreInv' /\ PlanInv /\ [Next]_vars => PlanInv'
<1> SUFFICES ASSUME CoreInv, CoreInv', PlanInv, [Next]_vars PROVE PlanInv'
  OBVIOUS
<1>1. CASE UNCHANGED <<todo, sent>>
  BY <1>1 DEF PlanInv, PlanOf
<1>2. CASE ~UNCHANGED <<todo, sent>>
  <2>1. PICK e \in Ends : UserStep(e) \/ SendStep(e) \/ RecvStep(e) \/ Failure(e)
    BY <1>2 DEF Next, vars
  <2>2. ~SendStep(e)
    BY <1>2 DEF SendStep, PushSend, Write, WriteDone, PopSend, userVars
  <2>3. ~RecvStep(e)
    BY <1>2 DEF RecvStep, PushRecv, ReadHeader, ReadBody, PopRecv, userVars
  <2>4. ~Failure(e)
    BY <1>2 DEF Failure, ReadFails, WriteFails, Reset, userVars
  <2>5. ~Return(e) /\ ~Close(e) /\ ~CloseReturn(e)
    BY <1>2 DEF Return, Close, CloseReturn, userVars
  <2> QED BY <2>1, <2>2, <2>3, <2>4, <2>5, CallPlan DEF UserStep
<1> QED BY <1>1, <1>2

(***************************************************************************)
(* The socket machinery implements the pipe, step by step.                 *)
(***************************************************************************)

LEMMA InitPipe == Init => Pipe!PipeInit
<1> SUFFICES ASSUME Init PROVE Pipe!PipeInit
  OBVIOUS
<1>1. /\ sent = [e \in Ends |-> << >>] /\ got = [e \in Ends |-> << >>]
      /\ pc = [e \in Ends |-> "run"]
  BY DEF Init
<1>2. PipeSent = [e \in Ends |-> << >>]
  BY <1>1, EmptySeq DEF PipeSent
<1>3. PipeGot = [e \in Ends |-> << >>]
  BY <1>1, EmptySeq DEF PipeGot
<1>4. PipeLeft = [e \in Ends |-> FALSE]
  BY <1>1 DEF PipeLeft, Open
<1> QED BY <1>2, <1>3, <1>4 DEF Pipe!PipeInit, Pipe!Ends, Ends

(* A step that sends and delivers nothing and leaves no end.               *)
LEMMA PipeStutter ==
  ASSUME sent' = sent, got' = got, \A e \in Ends : Open(e)' = Open(e)
  PROVE  UNCHANGED Pipe!pipeVars
<1>1. PipeSent' = PipeSent
  BY DEF PipeSent
<1>2. PipeGot' = PipeGot
  BY DEF PipeGot
<1>3. PipeLeft' = PipeLeft
  BY DEF PipeLeft
<1> QED BY <1>1, <1>2, <1>3 DEF Pipe!pipeVars

LEMMA SendPipe ==
  ASSUME CoreInv, CoreInv', PlanInv, NEW e \in Ends, Send(e) PROVE Pipe!PipeSend(e)
<1>1. PICK p \in Plans : \A f \in Ends : PlanOf(p, f)
  BY DEF PlanInv
<1>2. /\ pc[e] = "run" /\ pc'[e] \in {"run", "waitSend"} /\ todo[e] # << >>
      /\ sent' = [sent EXCEPT ![e] = Append(@, Head(todo[e]).size)]
      /\ \A f \in Ends \ {e} : pc'[f] = pc[f]
      /\ got' = got
  BY DEF Send, CoreInv, TypeOK, UserTypeOK
<1>3. /\ Head(todo[e]) \in Call /\ Len(sent[e]) + 1 \in 1..Len(p[e])
      /\ \E i \in 1..Len(p[e]) : Head(todo[e]) = p[e][i]
  <2>1. todo[e] \in Seq(Call)
    BY DEF CoreInv, TypeOK, UserTypeOK
  <2> QED BY <1>1, <1>2, <2>1, HeadTail, NextCall
<1>4. PICK m : m = <<Len(sent[e]) + 1, Head(todo[e]).size>>
  OBVIOUS
<1>5. m \in Message
  <2>1. DOMAIN p[e] = 1..Len(p[e])
    BY PlanTypes
  <2>2. Len(sent[e]) + 1 \in UNION {DOMAIN r[f] : r \in Plans, f \in Ends}
    <3> DEFINE S == {DOMAIN r[f] : r \in Plans, f \in Ends}
    <3>1. DOMAIN p[e] \in S
      OBVIOUS
    <3>2. Len(sent[e]) + 1 \in DOMAIN p[e]
      BY <1>3, <2>1
    <3> HIDE DEF S
    <3>3. Len(sent[e]) + 1 \in UNION S
      BY <3>1, <3>2
    <3> QED BY <3>3 DEF S
  <2>3. Head(todo[e]).size
          \in UNION {{r[f][i].size : i \in DOMAIN r[f]} : r \in Plans, f \in Ends}
    <3> DEFINE S == {{r[f][i].size : i \in DOMAIN r[f]} : r \in Plans, f \in Ends}
               T == {p[e][i].size : i \in DOMAIN p[e]}
    <3>1. T \in S
      OBVIOUS
    <3>2. Head(todo[e]).size \in T
      BY <1>3, <2>1
    <3> HIDE DEF S, T
    <3>3. Head(todo[e]).size \in UNION S
      BY <3>1, <3>2
    <3> QED BY <3>3 DEF S
  <2> QED BY <1>4, <2>2, <2>3 DEF Message
<1>6. PICK n \in Nat : n = Head(todo[e]).size
  BY <1>3 DEF Call
<1>7. /\ sent \in [Ends -> Seq(Nat)] /\ sent'[e] = Append(sent[e], n)
      /\ Len(sent[e]) \in Nat /\ Len(sent'[e]) = Len(sent[e]) + 1
      /\ \A i \in 1..Len(sent[e]) : sent'[e][i] = sent[e][i]
      /\ sent'[e][Len(sent[e]) + 1] = n
      /\ \A f \in Ends \ {e} : sent'[f] = sent[f]
  <2>1. sent \in [Ends -> Seq(Nat)]
    BY DEF CoreInv, TypeOK, UserTypeOK
  <2> QED BY <1>2, <1>6, <2>1, Appended
<1>8. PipeSent' = [PipeSent EXCEPT ![e] = Append(@, m)]
  <2> DEFINE old == [k \in 1..Len(sent[e]) |-> <<k, sent[e][k]>>]
             new == [k \in 1..(Len(sent[e]) + 1) |-> <<k, sent'[e][k]>>]
  <2>1. new = Append(old, m)
    <3>1. Len(old) = Len(sent[e])
      BY <1>7
    <3>2. Append(old, m) = [k \in 1..(Len(old) + 1) |-> IF k = Len(old) + 1 THEN m ELSE old[k]]
      BY <1>7, <3>1
    <3>3. ASSUME NEW k \in 1..(Len(sent[e]) + 1)
          PROVE  <<k, sent'[e][k]>> = IF k = Len(sent[e]) + 1 THEN m ELSE old[k]
      <4>1. CASE k = Len(sent[e]) + 1
        BY <1>4, <1>6, <1>7, <4>1
      <4>2. CASE k # Len(sent[e]) + 1
        <5>1. k \in 1..Len(sent[e])
          BY <1>7, <4>2
        <5> QED BY <1>7, <4>2, <5>1
      <4> QED BY <4>1, <4>2
    <3> HIDE DEF old
    <3> QED BY <3>1, <3>2, <3>3
  <2>2. PipeSent[e] = old /\ PipeSent'[e] = new
    BY <1>7 DEF PipeSent
  <2>3. \A f \in Ends \ {e} : PipeSent'[f] = PipeSent[f]
    BY <1>7 DEF PipeSent
  <2>4. PipeSent = [f \in Ends |-> PipeSent[f]] /\ PipeSent' = [f \in Ends |-> PipeSent'[f]]
    BY DEF PipeSent
  <2> HIDE DEF old, new
  <2> QED BY <2>1, <2>2, <2>3, <2>4
<1>9. PipeGot' = PipeGot
  BY <1>2 DEF PipeGot
<1>10. PipeLeft' = PipeLeft /\ ~PipeLeft[e]
  BY <1>2 DEF PipeLeft, Open
<1> QED BY <1>5, <1>8, <1>9, <1>10 DEF Pipe!PipeSend

(* What is delivered is the next message of the peer.                      *)
LEMMA ReadBodyPipe ==
  ASSUME CoreInv, CoreInv', FifoInv', NEW e \in Ends, ReadBody(e)
  PROVE  Pipe!PipeDeliver(e)
<1>1. /\ Alive(e) /\ reading[e] = "body" /\ UNCHANGED <<sent, pc>>
      /\ \E x : got' = [got EXCEPT ![e] = Append(@, x)]
  BY DEF ReadBody, userVars
<1>2. Open(e) /\ \A f \in Ends : Open(f)' = Open(f)
  <2>1. pc[e] # "closed"
    <3>1. mRecvQueue[e] # << >>
      BY <1>1 DEF CoreInv, QueueDriven
    <3>2. pc[e] = "closed" => \E p \in kept[e] : p[1] = "CloseRecv"
      BY DEF CoreInv, RecvCloseLast
    <3> QED BY <3>1, <3>2 DEF CoreInv, RecvCloseLast
  <2> QED BY <1>1, <2>1 DEF Open, Alive
<1>3. /\ got \in [Ends -> Seq(Receipt)] /\ got' \in [Ends -> Seq(Receipt)]
      /\ sent \in [Ends -> Seq(Nat)]
  BY DEF CoreInv, TypeOK, UserTypeOK, GotTypeOK
<1>4. /\ Len(got[e]) \in Nat /\ Len(got'[e]) = Len(got[e]) + 1
      /\ \A k \in 1..Len(got[e]) : got'[e][k] = got[e][k]
      /\ \A f \in Ends \ {e} : got'[f] = got[f]
  <2>1. PICK x : got' = [got EXCEPT ![e] = Append(@, x)]
    BY <1>1
  <2>2. got'[e] = Append(got[e], x) /\ got[e] \in Seq(Receipt) /\ Len(got[e]) \in Nat
    BY <1>3, <2>1, LenProperties
  <2>3. Append(got[e], x)
          = [k \in 1..(Len(got[e]) + 1) |-> IF k = Len(got[e]) + 1 THEN x ELSE got[e][k]]
    BY <2>2
  <2>4. Len(got'[e]) = Len(got[e]) + 1
    BY <2>2, <2>3
  <2>5. \A k \in 1..Len(got[e]) : k \in 1..(Len(got[e]) + 1) /\ k # Len(got[e]) + 1
    BY <2>2
  <2> QED BY <1>3, <2>1, <2>2, <2>3, <2>4, <2>5
<1>5. /\ Len(got'[e]) <= Len(sent'[Peer(e)])
      /\ \A k \in 1..Len(got'[e]) :
            got'[e][k] = [recv |-> k, msg |-> k, len |-> sent'[Peer(e)][k]]
  <2>1. InOrder(e)'
    BY DEF FifoInv, FifoAt
  <2> QED BY <2>1 DEF InOrder
<1>6. /\ Peer(e) \in Ends /\ Len(sent[Peer(e)]) \in Nat /\ sent' = sent
      /\ Len(got[e]) + 1 \in 1..Len(sent[Peer(e)])
  <2>1. Peer(e) \in Ends
    BY PeerType
  <2>2. sent[Peer(e)] \in Seq(Nat)
    BY <1>3, <2>1
  <2> QED BY <1>1, <1>4, <1>5, <2>1, <2>2, LenProperties
<1> DEFINE g == Len(got[e])
           m == <<g + 1, sent[Peer(e)][g + 1]>>
<1>7. PipeSent[Peer(e)][g + 1] = m /\ Len(PipeSent[Peer(e)]) = Len(sent[Peer(e)])
  BY <1>6 DEF PipeSent
<1>8. Len(PipeGot[e]) = g
  BY <1>4 DEF PipeGot
<1>9. PipeGot' = [PipeGot EXCEPT ![e] = Append(@, m)]
  <2> DEFINE old == [k \in 1..g |-> <<got[e][k].msg, got[e][k].len>>]
             new == [k \in 1..(g + 1) |-> <<got'[e][k].msg, got'[e][k].len>>]
  <2>1. new = Append(old, m)
    <3>1. Len(old) = g
      BY <1>4
    <3>2. Append(old, m) = [k \in 1..(Len(old) + 1) |-> IF k = Len(old) + 1 THEN m ELSE old[k]]
      BY <1>4, <3>1
    <3>3. ASSUME NEW k \in 1..(g + 1)
          PROVE  <<got'[e][k].msg, got'[e][k].len>> = IF k = g + 1 THEN m ELSE old[k]
      <4>1. CASE k = g + 1
        <5>1. k \in 1..Len(got'[e])
          BY <1>4
        <5>2. got'[e][k] = [recv |-> k, msg |-> k, len |-> sent[Peer(e)][k]]
          BY <1>5, <1>6, <5>1
        <5> QED BY <4>1, <5>2
      <4>2. CASE k # g + 1
        <5>1. k \in 1..g
          BY <1>4, <4>2
        <5> QED BY <1>4, <4>2, <5>1
      <4> QED BY <4>1, <4>2
    <3> HIDE DEF old, m, g
    <3> QED BY <3>1, <3>2, <3>3
  <2>2. PipeGot[e] = old /\ PipeGot'[e] = new
    BY <1>4 DEF PipeGot
  <2>3. \A f \in Ends \ {e} : PipeGot'[f] = PipeGot[f]
    BY <1>4 DEF PipeGot
  <2>4. PipeGot = [f \in Ends |-> PipeGot[f]] /\ PipeGot' = [f \in Ends |-> PipeGot'[f]]
    BY DEF PipeGot
  <2> HIDE DEF old, new, m
  <2> QED BY <2>1, <2>2, <2>3, <2>4
<1>10. PipeSent' = PipeSent /\ PipeLeft' = PipeLeft /\ ~PipeLeft[e]
  BY <1>1, <1>2 DEF PipeSent, PipeLeft
<1>11. g < Len(sent[Peer(e)])
  BY <1>4, <1>6
<1> HIDE DEF g, m
<1> QED BY <1>7, <1>8, <1>9, <1>10, <1>11 DEF Pipe!PipeDeliver, Pipe!Peer, Peer

(* An end leaves when its close returns, or when its process dies.         *)
LEMMA LeavePipe ==
  ASSUME CoreInv, NEW e \in Ends, CloseReturn(e) \/ ReadFails(e) \/ WriteFails(e)
  PROVE  Pipe!PipeLeave(e)
<1>1. /\ Open(e) /\ ~Open(e)' /\ \A f \in Ends \ {e} : pc'[f] = pc[f]
      /\ sent' = sent /\ got' = got
  BY DEF CloseReturn, ReadFails, WriteFails, Open, CoreInv, TypeOK, UserTypeOK,
         userVars, recvVars
<1>2. PipeSent' = PipeSent /\ PipeGot' = PipeGot
  BY <1>1 DEF PipeSent, PipeGot
<1>3. ~PipeLeft[e] /\ PipeLeft' = [PipeLeft EXCEPT ![e] = TRUE]
  BY <1>1 DEF PipeLeft, Open
<1> QED BY <1>2, <1>3 DEF Pipe!PipeLeave

LEMMA NextPipe ==
  CoreInv /\ CoreInv' /\ FifoInv' /\ PlanInv /\ [Next]_vars
    => [Pipe!PipeNext]_(Pipe!pipeVars)
<1> SUFFICES ASSUME CoreInv, CoreInv', FifoInv', PlanInv, [Next]_vars
             PROVE  Pipe!PipeNext \/ UNCHANGED Pipe!pipeVars
  OBVIOUS
<1> USE DEF Pipe!Ends, Ends
<1>1. CASE UNCHANGED vars
  BY <1>1, PipeStutter DEF vars, Open
<1>2. ASSUME NEW e \in Ends, Send(e) PROVE Pipe!PipeNext
  BY <1>2, SendPipe DEF Pipe!PipeNext
<1>3. ASSUME NEW e \in Ends, ReadBody(e) PROVE Pipe!PipeNext
  BY <1>3, ReadBodyPipe DEF Pipe!PipeNext
<1>4. ASSUME NEW e \in Ends, CloseReturn(e) \/ ReadFails(e) \/ WriteFails(e)
      PROVE  Pipe!PipeNext
  BY <1>4, LeavePipe DEF Pipe!PipeNext
<1>5. ASSUME NEW e \in Ends, Recv(e) \/ Return(e) \/ Close(e)
      PROVE  UNCHANGED Pipe!pipeVars
  BY <1>5, PipeStutter DEF Recv, Return, Close, Open, CoreInv, TypeOK, UserTypeOK,
                          userVars, recvVars
<1>6. ASSUME NEW e \in Ends, SendStep(e) PROVE UNCHANGED Pipe!pipeVars
  BY <1>6, PipeStutter DEF SendStep, PushSend, Write, WriteDone, PopSend, Open, userVars, recvVars
<1>7. ASSUME NEW e \in Ends, PushRecv(e) \/ PopRecv(e) \/ ReadHeader(e)
      PROVE  UNCHANGED Pipe!pipeVars
  BY <1>7, PipeStutter DEF PushRecv, PopRecv, ReadHeader, Open, userVars
<1>8. ASSUME NEW e \in Ends, Reset(e) PROVE UNCHANGED Pipe!pipeVars
  BY <1>8, PipeStutter DEF Reset, Open, userVars, recvVars
<1> HIDE DEF Pipe!Ends, Ends
<1> QED BY <1>1, <1>2, <1>3, <1>4, <1>5, <1>6, <1>7, <1>8
        DEF Next, UserStep, RecvStep, Failure

(* Through strands, queues, headers, bodies, closes, resets and deaths,    *)
(* what the users of a pair of channels see is a reliable ordered pipe.    *)
THEOREM PipeImplemented == Spec => ImplementsPipe
<1>1. Spec => []CoreInv /\ []FifoInv
  BY SpecCore, SpecFifo, PTL
<1>2. Spec => []PlanInv
  BY <1>1, InitPlan, NextPlan, PTL DEF Spec
<1> QED BY <1>1, <1>2, InitPipe, NextPipe, PTL DEF Spec, ImplementsPipe, Pipe!PipeSpec
(***************************************************************************)
(* The bytes of a queue.  BytesUpTo is a recursive function; that there is *)
(* one for every queue, and what it says of a longer queue, follows from   *)
(* the least number for which it would fail.                               *)
(***************************************************************************)

LEMMA Smallest ==
  ASSUME NEW T \in SUBSET Nat, T # {}
  PROVE  \E n \in T : \A m \in T : n <= m
<1> DEFINE R == OpToRel(<, Nat)
<1>1. IsWellFoundedOn(R, Nat)
  BY NatLessThanWellFounded
<1>2. PICK n \in T : \A m \in T : <<m, n>> \notin R
  <2> HIDE DEF R
  <2> QED BY <1>1, WFMin
<1>3. \A m \in T : ~(m < n)
  BY <1>2 DEF OpToRel
<1> QED BY <1>3

Adds(f, q, n) == \A i \in 1..n : f[i] = f[i - 1] + q[i].size
Counts(f, q, n) == f \in [0..n -> Nat] /\ f[0] = 0 /\ Adds(f, q, n)

LEMMA Countable ==
  ASSUME NEW q \in Seq(SendOp), NEW n \in 0..Len(q)
  PROVE  \E f : Counts(f, q, n)
<1>1. Len(q) \in Nat /\ \A i \in 1..Len(q) : q[i].size \in Nat
  BY Fields
<1> DEFINE T == {m \in 0..Len(q) : ~\E f : Counts(f, q, m)}
<1> SUFFICES ASSUME T # {} PROVE FALSE
  OBVIOUS
<1>2. PICK m \in T : \A l \in T : m <= l
  <2>1. T \in SUBSET Nat
    BY <1>1
  <2> HIDE DEF T
  <2> QED BY <2>1, Smallest
<1>3. m \in 0..Len(q) /\ m \in Nat
  BY <1>1
<1>4. m # 0
  <2>1. ~\E f : Counts(f, q, m)
    OBVIOUS
  <2>2. ASSUME m = 0 PROVE Counts([i \in 0..0 |-> 0], q, m)
    BY <2>2 DEF Counts, Adds
  <2> QED BY <2>1, <2>2
<1>5. m - 1 \in 0..Len(q) /\ m - 1 \notin T /\ m - 1 \in Nat
  <2> HIDE DEF T
  <2> QED BY <1>1, <1>2, <1>3, <1>4
<1>6. PICK f : Counts(f, q, m - 1)
  BY <1>5
<1> DEFINE g == [i \in 0..m |-> IF i = m THEN f[m - 1] + q[m].size ELSE f[i]]
<1>7. \A i \in 0..(m - 1) : f[i] \in Nat /\ g[i] = f[i]
  BY <1>1, <1>3, <1>4, <1>6 DEF Counts
<1>8. g[m] = f[m - 1] + q[m].size /\ g[m] \in Nat
  <2>1. m - 1 \in 0..(m - 1) /\ m \in 0..m /\ m \in 1..Len(q)
    BY <1>1, <1>3, <1>4
  <2>2. g[m] = f[m - 1] + q[m].size
    BY <2>1
  <2>3. f[m - 1] \in Nat /\ q[m].size \in Nat
    <3> HIDE DEF g
    <3> QED BY <1>1, <1>7, <2>1
  <2> HIDE DEF g
  <2> QED BY <2>2, <2>3
<1>9. g \in [0..m -> Nat]
  <2> SUFFICES ASSUME NEW i \in 0..m PROVE g[i] \in Nat
    OBVIOUS
  <2>1. i = m \/ i \in 0..(m - 1)
    BY <1>3
  <2> HIDE DEF g
  <2> QED BY <1>7, <1>8, <2>1
<1>10. Adds(g, q, m)
  <2> SUFFICES ASSUME NEW i \in 1..m PROVE g[i] = g[i - 1] + q[i].size
    BY DEF Adds
  <2>1. i = m \/ (i \in 1..(m - 1) /\ i \in 0..(m - 1))
    BY <1>3
  <2>2. i - 1 \in 0..(m - 1)
    BY <1>3
  <2>3. g[i - 1] = f[i - 1]
    <3> HIDE DEF g
    <3> QED BY <1>7, <2>2
  <2>4. CASE i = m
    <3> HIDE DEF g
    <3> QED BY <1>8, <2>3, <2>4
  <2>5. CASE i \in 1..(m - 1) /\ i \in 0..(m - 1)
    <3>1. f[i] = f[i - 1] + q[i].size
      BY <1>6, <2>5 DEF Counts, Adds
    <3> HIDE DEF g
    <3> QED BY <1>7, <2>3, <2>5, <3>1
  <2> HIDE DEF g
  <2> QED BY <2>1, <2>4, <2>5
<1>11. g[0] = 0
  <2>1. 0 \in 0..(m - 1)
    BY <1>3, <1>4
  <2>2. f[0] = 0
    BY <1>6 DEF Counts
  <2> HIDE DEF g
  <2> QED BY <1>7, <2>1, <2>2
<1>12. Counts(g, q, m)
  <2> HIDE DEF g
  <2> QED BY <1>9, <1>10, <1>11 DEF Counts
<1> QED BY <1>12

(* Two counts that grow alike keep their distance.                         *)
GrowAlike(F, G, d, n, c) ==
  /\ G \in [0..n -> Nat] /\ F[0] = G[0] + c
  /\ \A i \in 1..n : F[i] = F[i - 1] + d[i] /\ G[i] = G[i - 1] + d[i] /\ d[i] \in Nat

LEMMA SameSteps ==
  ASSUME NEW n \in Nat, NEW c \in Nat, NEW F, NEW G, NEW d, GrowAlike(F, G, d, n, c)
  PROVE  \A i \in 0..n : F[i] = G[i] + c
<1> DEFINE T == {i \in 0..n : F[i] # G[i] + c}
<1> SUFFICES ASSUME T # {} PROVE FALSE
  OBVIOUS
<1>1. T \in SUBSET Nat
  OBVIOUS
<1>2. PICK m \in T : \A l \in T : m <= l
  <2> HIDE DEF T
  <2> QED BY <1>1, Smallest
<1>3. m \in 1..n /\ m - 1 \in 0..n /\ F[m] # G[m] + c
  BY DEF GrowAlike
<1>4. m - 1 \notin T
  <2> HIDE DEF T
  <2> QED BY <1>2, <1>3
<1>5. F[m - 1] = G[m - 1] + c
  BY <1>3, <1>4
<1>6. F[m] = F[m - 1] + d[m] /\ G[m] = G[m - 1] + d[m] /\ d[m] \in Nat /\ G[m - 1] \in Nat
  BY <1>3 DEF GrowAlike
<1> HIDE DEF T
<1> QED BY <1>3, <1>5, <1>6

(* BytesUpTo counts the bytes of a queue.                                  *)
LEMMA BytesCounted ==
  ASSUME NEW q \in Seq(SendOp)
  PROVE  Counts(BytesUpTo(q), q, Len(q)) /\ Bytes(q) \in Nat
<1>1. Len(q) \in Nat /\ \A i \in 1..Len(q) : q[i].size \in Nat
  BY Fields
<1> DEFINE Is(f) == f = [i \in 0..Len(q) |-> IF i = 0 THEN 0 ELSE f[i - 1] + q[i].size]
<1>2. PICK f : Counts(f, q, Len(q))
  <2>1. Len(q) \in 0..Len(q)
    BY <1>1
  <2> QED BY <2>1, Countable
<1>3. Is(f)
  <2> DEFINE g == [i \in 0..Len(q) |-> IF i = 0 THEN 0 ELSE f[i - 1] + q[i].size]
  <2>1. f \in [0..Len(q) -> Nat] /\ f[0] = 0
    BY <1>2 DEF Counts
  <2>2. \A i \in 0..Len(q) : f[i] = g[i]
    <3> SUFFICES ASSUME NEW i \in 0..Len(q) PROVE f[i] = IF i = 0 THEN 0 ELSE f[i - 1] + q[i].size
      OBVIOUS
    <3>1. i = 0 \/ i \in 1..Len(q)
      BY <1>1
    <3> QED BY <1>2, <2>1, <3>1 DEF Counts, Adds
  <2>3. f = g
    BY <2>1, <2>2
  <2> QED BY <2>3
<1> DEFINE b == BytesUpTo(q)
<1>4. Is(b)
  <2>1. b = CHOOSE h : Is(h)
    BY DEF BytesUpTo
  <2> HIDE DEF Is, b
  <2> QED BY <1>3, <2>1
<1>5. \A i \in 0..Len(q) : b[i] = IF i = 0 THEN 0 ELSE b[i - 1] + q[i].size
  <2> HIDE DEF b
  <2> QED BY <1>4
<1>6. \A i \in 0..Len(q) : b[i] = f[i] + 0
  <2> DEFINE d == [i \in 1..Len(q) |-> q[i].size]
  <2>1. f \in [0..Len(q) -> Nat] /\ f[0] = 0
    BY <1>2 DEF Counts
  <2>2. b[0] = f[0] + 0
    <3> HIDE DEF b
    <3> QED BY <1>1, <1>5, <2>1
  <2>3. \A i \in 1..Len(q) : b[i] = b[i - 1] + d[i] /\ f[i] = f[i - 1] + d[i] /\ d[i] \in Nat
    <3> TAKE i \in 1..Len(q)
    <3>1. i \in 0..Len(q) /\ i # 0
      BY <1>1
    <3>2. b[i] = b[i - 1] + q[i].size
      <4> HIDE DEF b
      <4> QED BY <1>5, <3>1
    <3>3. f[i] = f[i - 1] + q[i].size
      BY <1>2 DEF Counts, Adds
    <3> HIDE DEF b
    <3> QED BY <1>1, <3>2, <3>3
  <2> HIDE DEF b, d
  <2>4. GrowAlike(b, f, d, Len(q), 0)
    BY <2>1, <2>2, <2>3 DEF GrowAlike
  <2> QED BY <1>1, <2>4, SameSteps
<1>7. b = f
  <2>1. f \in [0..Len(q) -> Nat]
    BY <1>2 DEF Counts
  <2>2. b = [i \in 0..Len(q) |-> b[i]]
    <3> HIDE DEF b
    <3> QED BY <1>4
  <2>3. \A i \in 0..Len(q) : b[i] = f[i]
    <3> HIDE DEF b
    <3> QED BY <1>6, <2>1
  <2> HIDE DEF b
  <2> QED BY <2>1, <2>2, <2>3
<1>8. b[Len(q)] \in Nat
  <2> HIDE DEF b
  <2> QED BY <1>1, <1>2, <1>7 DEF Counts
<1> QED BY <1>2, <1>7, <1>8 DEF Bytes

(* Bytes of the empty queue, of a longer one, and of one without its front *)
LEMMA NoBytes == Bytes(<< >>) = 0
<1>1. << >> \in Seq(SendOp) /\ Len(<< >>) = 0
  BY EmptySeq
<1> QED BY <1>1, BytesCounted DEF Bytes, Counts

LEMMA BytesOfMore ==
  ASSUME NEW q \in Seq(SendOp), NEW r \in Seq(SendOp), NEW x \in SendOp,
         Len(r) = Len(q) + 1, r[Len(q) + 1] = x, \A i \in 1..Len(q) : r[i] = q[i]
  PROVE  Bytes(r) = Bytes(q) + x.size
<1> DEFINE n == Len(q)
           F == BytesUpTo(r)
           G == BytesUpTo(q)
           d == [i \in 1..n |-> q[i].size]
<1>1. n \in Nat /\ Len(r) \in Nat /\ x.size \in Nat /\ \A i \in 1..n : q[i].size \in Nat
  BY Fields
<1>2. Counts(F, r, n + 1) /\ Counts(G, q, n) /\ Bytes(q) = G[n] /\ Bytes(r) = F[n + 1]
  BY BytesCounted DEF Bytes
<1> HIDE DEF F, G
<1>3. G \in [0..n -> Nat] /\ F[0] = G[0] + 0
  BY <1>2 DEF Counts
<1>4. \A i \in 1..n : F[i] = F[i - 1] + d[i] /\ G[i] = G[i - 1] + d[i] /\ d[i] \in Nat
  <2> TAKE i \in 1..n
  <2>1. i \in 1..(n + 1) /\ r[i] = q[i]
    BY <1>1
  <2> QED BY <1>1, <1>2, <2>1 DEF Counts, Adds
<1>5. F[n + 1] = F[n] + x.size
  <2>1. n + 1 \in 1..(n + 1) /\ (n + 1) - 1 = n
    BY <1>1
  <2>2. F[n + 1] = F[(n + 1) - 1] + r[n + 1].size
    BY <1>2, <2>1 DEF Counts, Adds
  <2> QED BY <2>1, <2>2
<1> HIDE DEF n, d
<1>6. \A i \in 0..n : F[i] = G[i] + 0
  <2>1. GrowAlike(F, G, d, n, 0)
    BY <1>3, <1>4 DEF GrowAlike
  <2> QED BY <1>1, <2>1, SameSteps
<1>7. F[n] = G[n] + 0 /\ G[n] \in Nat
  BY <1>1, <1>3, <1>6
<1> QED BY <1>1, <1>2, <1>5, <1>7

LEMMA BytesOfRest ==
  ASSUME NEW q \in Seq(SendOp), NEW r \in Seq(SendOp),
         Len(q) \in Nat \ {0}, Len(r) = Len(q) - 1, \A i \in 1..Len(r) : r[i] = q[i + 1]
  PROVE  Bytes(q) = Bytes(r) + q[1].size /\ q[1].size \in Nat
<1> DEFINE n == Len(r)
           B == BytesUpTo(q)
           F == [i \in 0..n |-> B[i + 1]]
           G == BytesUpTo(r)
           d == [i \in 1..n |-> r[i].size]
           c == q[1].size
<1>1. n \in Nat /\ Len(q) = n + 1 /\ c \in Nat /\ \A i \in 1..n : r[i].size \in Nat
  BY Fields
<1>2. Counts(B, q, n + 1) /\ Counts(G, r, n) /\ Bytes(r) = G[n] /\ Bytes(q) = B[n + 1]
  BY <1>1, BytesCounted DEF Bytes
<1> HIDE DEF B, G
<1>3. G \in [0..n -> Nat] /\ G[0] = 0 /\ B \in [0..(n + 1) -> Nat] /\ B[0] = 0
  BY <1>2 DEF Counts
<1>4. F[0] = G[0] + c
  <2>1. 1 \in 1..(n + 1) /\ 1 - 1 = 0 /\ 0 \in 0..n /\ 0 + 1 = 1
    BY <1>1
  <2>2. B[1] = B[0] + q[1].size
    BY <1>2, <2>1 DEF Counts, Adds
  <2> QED BY <1>1, <1>3, <2>1, <2>2
<1>5. \A i \in 1..n : F[i] = F[i - 1] + d[i] /\ G[i] = G[i - 1] + d[i] /\ d[i] \in Nat
  <2> TAKE i \in 1..n
  <2>1. /\ i \in 0..n /\ i - 1 \in 0..n /\ i + 1 \in 1..(n + 1)
        /\ (i + 1) - 1 = i /\ (i - 1) + 1 = i
    BY <1>1
  <2>2. r[i] = q[i + 1]
    OBVIOUS
  <2>3. B[i + 1] = B[i] + q[i + 1].size
    BY <1>2, <2>1 DEF Counts, Adds
  <2>4. G[i] = G[i - 1] + r[i].size
    BY <1>2 DEF Counts, Adds
  <2>5. F[i] = B[i + 1] /\ F[i - 1] = B[i]
    BY <2>1
  <2> HIDE DEF F
  <2> QED BY <1>1, <2>2, <2>3, <2>4, <2>5
<1>6. F[n] = B[n + 1]
  BY <1>1
<1> HIDE DEF n, F, d, c
<1>7. \A i \in 0..n : F[i] = G[i] + c
  <2>1. GrowAlike(F, G, d, n, c)
    BY <1>3, <1>4, <1>5 DEF GrowAlike
  <2> QED BY <1>1, <2>1, SameSteps
<1>8. F[n] = G[n] + c /\ G[n] \in Nat
  BY <1>1, <1>3, <1>7
<1> QED BY <1>1, <1>2, <1>6, <1>8 DEF c

(***************************************************************************)
(* The outstanding bytes.                                                  *)
(***************************************************************************)

LEMMA InitOutstanding == Init => OutstandingInv
<1> SUFFICES ASSUME Init, NEW e \in Ends PROVE ClosesEmpty(e) /\ OutstandingAt(e)
  BY DEF OutstandingInv
<1>1. /\ sendStrand[e] = << >> /\ mSendQueue[e] = << >> /\ writing[e] = "idle"
      /\ stats[e].outstanding = 0 /\ stats[e].maxOut = 0
  BY DEF Init
<1> QED BY <1>1, EmptySeq, NoBytes DEF ClosesEmpty, OutstandingAt

(* A step that queues and completes nothing                                *)
LEMMA OutstandingFrame ==
  ASSUME NEW e \in Ends, OutstandingAt(e), mSendQueue'[e] = mSendQueue[e],
         writing'[e] = "pop" <=> writing[e] = "pop",
         stats'[e].outstanding = stats[e].outstanding, stats'[e].maxOut = stats[e].maxOut
  PROVE  OutstandingAt(e)'
  BY DEF OutstandingAt

LEMMA EmptyFrame ==
  ASSUME NEW e \in Ends, ClosesEmpty(e), mSendQueue'[e] = mSendQueue[e],
         sendStrand'[e] = sendStrand[e]
  PROVE  ClosesEmpty(e)'
  BY DEF ClosesEmpty

LEMMA PostOutstanding ==
  ASSUME CoreInv, OutstandingInv, NEW e \in Ends, Send(e) \/ Close(e)
  PROVE  OutstandingInv'
<1>1. PICK op \in SendOp :
        /\ sendStrand' = [sendStrand EXCEPT ![e] = Append(@, op)]
        /\ op.type = "CloseSend" => op.size = 0
  <2> DEFINE c == Head(todo[e])
             send  == Operation("SendData", Len(sent[e]) + 1, c.size, c.sync)
             close == Operation("CloseSend", Len(sent[e]) + 1, 0, TRUE)
  <2>1. Len(sent[e]) + 1 \in Nat
    BY Integers
  <2>2. CASE Send(e)
    <3>1. c \in Call
      BY <2>2, HeadTail DEF Send, CoreInv, TypeOK, UserTypeOK
    <3>2. send \in SendOp /\ send.type # "CloseSend"
      BY <2>1, <3>1 DEF Operation, SendOp, Call
    <3>3. sendStrand' = [sendStrand EXCEPT ![e] = Append(@, send)]
      BY <2>2 DEF Send
    <3> QED BY <3>2, <3>3
  <2>3. CASE Close(e)
    <3>1. close \in SendOp /\ close.size = 0
      BY <2>1 DEF Operation, SendOp
    <3>2. sendStrand' = [sendStrand EXCEPT ![e] = Append(@, close)]
      BY <2>3 DEF Close
    <3> QED BY <3>1, <3>2
  <2> QED BY <2>2, <2>3
<1>2. UNCHANGED <<mSendQueue, writing, stats>>
  BY DEF Send, Close
<1>3. /\ sendStrand'[e] = Append(sendStrand[e], op)
      /\ \A f \in Ends \ {e} : sendStrand'[f] = sendStrand[f]
      /\ sendStrand[e] \in Seq(SendOp)
  BY <1>1 DEF CoreInv, TypeOK, SendTypeOK
<1>4. /\ Len(sendStrand[e]) \in Nat /\ Len(sendStrand'[e]) = Len(sendStrand[e]) + 1
      /\ \A i \in 1..Len(sendStrand[e]) : sendStrand'[e][i] = sendStrand[e][i]
      /\ sendStrand'[e][Len(sendStrand[e]) + 1] = op
  BY <1>3, Appended
<1>5. ClosesEmpty(e)'
  <2>1. \A i \in 1..Len(sendStrand'[e]) :
          i \in 1..Len(sendStrand[e]) \/ i = Len(sendStrand[e]) + 1
    BY <1>4
  <2> QED BY <1>1, <1>2, <1>4, <2>1 DEF ClosesEmpty, OutstandingInv
<1>6. ASSUME NEW f \in Ends PROVE ClosesEmpty(f)' /\ OutstandingAt(f)'
  <2>1. OutstandingAt(f)'
    BY <1>2, OutstandingFrame DEF OutstandingInv
  <2>2. f # e => ClosesEmpty(f)'
    BY <1>2, <1>3, EmptyFrame DEF OutstandingInv
  <2> QED BY <1>5, <2>1, <2>2
<1> QED BY <1>6 DEF OutstandingInv

(* What is charged for an operation                                        *)
LEMMA Charge ==
  ASSUME CoreInv, NEW e \in Ends, NEW op \in SendOp
  PROVE  /\ Charged(op, stats[e]).outstanding = stats[e].outstanding + op.size
         /\ Charged(op, stats[e]).outstanding <= Charged(op, stats[e]).maxOut
         /\ stats[e].outstanding \in Int /\ stats[e].maxOut \in Int /\ op.size \in Nat
<1>1. stats[e].outstanding \in Int /\ stats[e].maxOut \in Int /\ op.size \in Nat
  BY Fields DEF CoreInv, TypeOK, StatsTypeOK, Counters
<1> QED BY <1>1 DEF Charged

LEMMA PushSendOutstanding ==
  ASSUME CoreInv, OutstandingInv, NEW e \in Ends, PushSend(e) PROVE OutstandingInv'
<1>1. PICK op \in SendOp, q \in Seq(SendOp), rest \in Seq(SendOp) :
         PushSendResult(e, op, q, rest)
  BY PushSendEffect
<1>2. /\ op = sendStrand[e][1] /\ 1 \in 1..Len(sendStrand[e])
      /\ Len(rest) = Len(sendStrand[e]) - 1 /\ Len(sendStrand[e]) \in Nat
      /\ \A i \in 1..Len(rest) : rest[i] = sendStrand[e][i + 1]
      /\ Len(mSendQueue[e]) \in Nat /\ Len(q) = Len(mSendQueue[e]) + 1
      /\ \A i \in 1..Len(mSendQueue[e]) : q[i] = mSendQueue[e][i]
      /\ q[Len(mSendQueue[e]) + 1] = op
      /\ Head(q) = IF mSendQueue[e] = << >> THEN op ELSE Head(mSendQueue[e])
  BY <1>1 DEF PushSendResult
<1>3. /\ sendStrand'[e] = rest /\ stats'[e] = Charged(op, stats[e])
      /\ \/ /\ mSendQueue'[e] = q
            /\ \/ mSendQueue[e] # << >> /\ writing'[e] = writing[e]
               \/ mSendQueue[e] = << >> /\ writing'[e] = "header"
         \/ /\ mSendQueue[e] = << >> /\ mSendQueue'[e] = << >> /\ op.type = "CloseSend"
            /\ writing'[e] = "idle"
      /\ \A f \in Ends \ {e} : /\ sendStrand'[f] = sendStrand[f] /\ stats'[f] = stats[f]
                               /\ mSendQueue'[f] = mSendQueue[f] /\ writing'[f] = writing[f]
  BY <1>1 DEF PushSendResult, CoreInv, TypeOK, SendTypeOK, StatsTypeOK
<1>4. ClosesEmpty(e) /\ OutstandingAt(e)
  BY DEF OutstandingInv
<1>5. op.type = "CloseSend" => op.size = 0
  BY <1>2, <1>4 DEF ClosesEmpty
<1>6. ClosesEmpty(e)'
  <2>1. \A i \in 1..Len(rest) : i + 1 \in 1..Len(sendStrand[e])
    BY <1>2
  <2>2. \A i \in 1..Len(sendStrand'[e]) :
          sendStrand'[e][i].type = "CloseSend" => sendStrand'[e][i].size = 0
    BY <1>2, <1>3, <1>4, <2>1 DEF ClosesEmpty
  <2>3. \A i \in 1..Len(q) : i \in 1..Len(mSendQueue[e]) \/ i = Len(mSendQueue[e]) + 1
    BY <1>2
  <2>4. \A i \in 1..Len(q) : q[i].type = "CloseSend" => q[i].size = 0
    BY <1>2, <1>4, <1>5, <2>3 DEF ClosesEmpty
  <2>5. \A i \in 1..Len(mSendQueue'[e]) :
          mSendQueue'[e][i].type = "CloseSend" => mSendQueue'[e][i].size = 0
    BY <1>3, <2>4, EmptySeq
  <2> QED BY <2>2, <2>5 DEF ClosesEmpty
<1>7. OutstandingAt(e)'
  <2>1. /\ stats'[e].outstanding = stats[e].outstanding + op.size
        /\ stats'[e].outstanding <= stats'[e].maxOut
        /\ stats[e].outstanding \in Int /\ op.size \in Nat
    BY <1>3, Charge
  <2>2. mSendQueue[e] \in Seq(SendOp)
    BY DEF CoreInv, TypeOK, SendTypeOK
  <2>3. Bytes(q) = Bytes(mSendQueue[e]) + op.size /\ Bytes(mSendQueue[e]) \in Nat
    BY <1>2, <2>2, BytesOfMore, BytesCounted
  <2>4. writing[e] = "pop" => mSendQueue[e] # << >> /\ Head(mSendQueue[e]).size \in Nat
    BY <2>2, HeadTail, Fields DEF CoreInv, QueueDriven
  <2>5. CASE mSendQueue[e] = << >>
    <3>1. Bytes(mSendQueue[e]) = 0 /\ stats[e].outstanding = 0
      BY <1>4, <2>4, <2>5, NoBytes DEF OutstandingAt
    <3>2. writing'[e] # "pop" /\ stats'[e].outstanding = Bytes(mSendQueue'[e])
      BY <1>3, <1>5, <2>1, <2>3, <2>5, <3>1, NoBytes
    <3>3. Bytes(mSendQueue'[e]) \in Int
      BY <2>1, <3>2
    <3> QED BY <2>1, <3>2, <3>3 DEF OutstandingAt
  <2>6. CASE mSendQueue[e] # << >>
    <3>1. mSendQueue'[e] = q /\ writing'[e] = writing[e] /\ Head(q) = Head(mSendQueue[e])
      BY <1>2, <1>3, <2>6
    <3> QED BY <1>4, <2>1, <2>3, <2>4, <3>1 DEF OutstandingAt
  <2> QED BY <2>5, <2>6
<1>8. ASSUME NEW f \in Ends PROVE ClosesEmpty(f)' /\ OutstandingAt(f)'
  <2>1. f # e => OutstandingAt(f)'
    BY <1>3, OutstandingFrame DEF OutstandingInv
  <2>2. f # e => ClosesEmpty(f)'
    BY <1>3, EmptyFrame DEF OutstandingInv
  <2> QED BY <1>6, <1>7, <2>1, <2>2
<1> QED BY <1>8 DEF OutstandingInv

LEMMA PopSendOutstanding ==
  ASSUME CoreInv, OutstandingInv, NEW e \in Ends, PopSend(e) PROVE OutstandingInv'
<1>1. PICK q \in Seq(SendOp) : PopSendResult(e, q)
  BY PopSendEffect
<1>2. /\ writing[e] = "pop" /\ Len(mSendQueue[e]) \in Nat \ {0} /\ mSendQueue[e] # << >>
      /\ Len(q) = Len(mSendQueue[e]) - 1
      /\ \A i \in 1..Len(q) : q[i] = mSendQueue[e][i + 1]
      /\ UNCHANGED <<sendStrand, stats>>
  BY <1>1 DEF PopSendResult
<1>3. /\ \/ mSendQueue'[e] = q
         \/ mSendQueue'[e] = << >> /\ Len(q) = 1 /\ q[1].type = "CloseSend"
      /\ writing'[e] \in {"idle", "header"}
      /\ \A f \in Ends \ {e} : mSendQueue'[f] = mSendQueue[f] /\ writing'[f] = writing[f]
  BY <1>1 DEF PopSendResult, CoreInv, TypeOK, SendTypeOK
<1>4. ClosesEmpty(e) /\ OutstandingAt(e)
  BY DEF OutstandingInv
<1>5. \A i \in 1..Len(q) : q[i].type = "CloseSend" => q[i].size = 0
  <2>1. \A i \in 1..Len(q) : i + 1 \in 1..Len(mSendQueue[e])
    BY <1>2
  <2> QED BY <1>2, <1>4, <2>1 DEF ClosesEmpty
<1>6. ClosesEmpty(e)'
  <2>1. \A i \in 1..Len(mSendQueue'[e]) :
          mSendQueue'[e][i].type = "CloseSend" => mSendQueue'[e][i].size = 0
    BY <1>3, <1>5, EmptySeq
  <2> QED BY <1>2, <1>4, <2>1 DEF ClosesEmpty
<1>7. OutstandingAt(e)'
  <2>1. /\ mSendQueue[e] \in Seq(SendOp) /\ Head(mSendQueue[e]) = mSendQueue[e][1]
        /\ stats[e].outstanding \in Int /\ stats[e].maxOut \in Int
    BY <1>2, HeadTail DEF CoreInv, TypeOK, SendTypeOK, StatsTypeOK, Counters
  <2>2. /\ Bytes(mSendQueue[e]) = Bytes(q) + mSendQueue[e][1].size
        /\ mSendQueue[e][1].size \in Nat /\ Bytes(q) \in Nat
    BY <1>2, <2>1, BytesOfRest, BytesCounted
  <2>3. stats[e].outstanding = Bytes(q) /\ stats[e].outstanding <= stats[e].maxOut
    BY <1>2, <1>4, <2>1, <2>2 DEF OutstandingAt
  <2>4. Bytes(mSendQueue'[e]) = Bytes(q)
    <3>1. CASE Len(q) = 1 /\ q[1].type = "CloseSend" /\ mSendQueue'[e] = << >>
      <4>1. q[1].size = 0
        BY <1>5, <3>1
      <4>2. << >> \in Seq(SendOp) /\ Len(<< >>) = 0
        BY EmptySeq
      <4>3. /\ Len(q) \in Nat \ {0} /\ Len(<< >>) = Len(q) - 1
            /\ \A i \in 1..Len(<< >>) : << >>[i] = q[i + 1]
        BY <3>1, <4>2
      <4>4. Bytes(q) = Bytes(<< >>) + q[1].size
        BY <4>2, <4>3, BytesOfRest
      <4> QED BY <3>1, <4>1, <4>4, NoBytes
    <3> QED BY <1>3, <3>1
  <2> QED BY <1>2, <1>3, <2>2, <2>3, <2>4 DEF OutstandingAt
<1>8. ASSUME NEW f \in Ends PROVE ClosesEmpty(f)' /\ OutstandingAt(f)'
  <2>1. f # e => OutstandingAt(f)'
    BY <1>2, <1>3, OutstandingFrame DEF OutstandingInv
  <2>2. f # e => ClosesEmpty(f)'
    BY <1>2, <1>3, EmptyFrame DEF OutstandingInv
  <2> QED BY <1>6, <1>7, <2>1, <2>2
<1> QED BY <1>8 DEF OutstandingInv

LEMMA WriteDoneOutstanding ==
  ASSUME CoreInv, OutstandingInv, NEW e \in Ends, WriteDone(e) PROVE OutstandingInv'
<1> DEFINE op == Head(mSendQueue[e])
<1>1. /\ writing[e] = "written" /\ op.size \in Nat
  <2>1. mSendQueue[e] # << >> /\ mSendQueue[e] \in Seq(SendOp) /\ writing[e] = "written"
    BY DEF WriteDone, CoreInv, TypeOK, QueueDriven, SendTypeOK
  <2> QED BY <2>1, HeadTail, Fields
<1>2. /\ stats' = [stats EXCEPT ![e].outstanding = @ - op.size]
      /\ writing' = [writing EXCEPT ![e] = "pop"]
      /\ UNCHANGED <<sendStrand, mSendQueue>>
  BY DEF WriteDone, Uncharged
<1>3. /\ stats'[e].outstanding = stats[e].outstanding - op.size
      /\ stats'[e].maxOut = stats[e].maxOut /\ writing'[e] = "pop"
      /\ stats[e].outstanding \in Int /\ stats[e].maxOut \in Int
      /\ \A f \in Ends \ {e} : stats'[f] = stats[f] /\ writing'[f] = writing[f]
  BY <1>2 DEF CoreInv, TypeOK, SendTypeOK, StatsTypeOK, Counters
<1>4. OutstandingAt(e)'
  <2>1. Bytes(mSendQueue[e]) \in Nat
    BY BytesCounted DEF CoreInv, TypeOK, SendTypeOK
  <2>2. /\ stats[e].outstanding = Bytes(mSendQueue[e]) - 0
        /\ stats[e].outstanding <= stats[e].maxOut
    BY <1>1 DEF OutstandingInv, OutstandingAt
  <2>3. mSendQueue'[e] = mSendQueue[e]
    BY <1>2
  <2> HIDE DEF op
  <2>4. /\ stats'[e].outstanding = Bytes(mSendQueue[e]) - op.size
        /\ stats'[e].outstanding <= stats'[e].maxOut
    BY <1>1, <1>3, <2>1, <2>2
  <2> QED BY <1>3, <2>3, <2>4 DEF OutstandingAt, op
<1>5. ASSUME NEW f \in Ends PROVE ClosesEmpty(f)' /\ OutstandingAt(f)'
  <2>1. f # e => OutstandingAt(f)'
    BY <1>2, <1>3, OutstandingFrame DEF OutstandingInv
  <2>2. ClosesEmpty(f)'
    BY <1>2, EmptyFrame DEF OutstandingInv
  <2> QED BY <1>4, <2>1, <2>2
<1> QED BY <1>5 DEF OutstandingInv

(* No other step queues a send or completes one.                           *)
LEMMA OtherOutstanding ==
  ASSUME CoreInv, OutstandingInv, NEW e \in Ends,
         \/ Recv(e) \/ Return(e) \/ CloseReturn(e) \/ Write(e) \/ RecvStep(e) \/ Failure(e)
  PROVE  OutstandingInv'
<1>1. /\ UNCHANGED <<sendStrand, mSendQueue>>
      /\ \A f \in Ends : /\ stats'[f].outstanding = stats[f].outstanding
                         /\ stats'[f].maxOut = stats[f].maxOut
                         /\ writing'[f] = "pop" <=> writing[f] = "pop"
  <2>1. CASE Recv(e) \/ Return(e) \/ CloseReturn(e) \/ Failure(e)
    BY <2>1 DEF Recv, Return, CloseReturn, Failure, ReadFails, WriteFails, Reset, sendVars
  <2>2. CASE Write(e)
    BY <2>2 DEF Write, CoreInv, TypeOK, SendTypeOK
  <2>3. CASE PushRecv(e)
    <3>1. PICK op \in RecvOp : stats' = [stats EXCEPT ![e].in = @ + op.size]
      BY <2>3, PushRecvEffect DEF PushRecvResult
    <3>2. UNCHANGED sendVars
      BY <2>3 DEF PushRecv
    <3> QED BY <3>1, <3>2 DEF CoreInv, TypeOK, StatsTypeOK, Counters, sendVars
  <2>4. CASE ReadHeader(e) \/ ReadBody(e) \/ PopRecv(e)
    BY <2>4 DEF ReadHeader, ReadBody, PopRecv, sendVars
  <2> QED BY <2>1, <2>2, <2>3, <2>4 DEF RecvStep
<1>2. ASSUME NEW f \in Ends PROVE ClosesEmpty(f)' /\ OutstandingAt(f)'
  BY <1>1, OutstandingFrame, EmptyFrame DEF OutstandingInv
<1> QED BY <1>2 DEF OutstandingInv

LEMMA NextOutstanding == CoreInv /\ OutstandingInv /\ [Next]_vars => OutstandingInv'
<1> SUFFICES ASSUME CoreInv, OutstandingInv, [Next]_vars PROVE OutstandingInv'
  OBVIOUS
<1>1. CASE UNCHANGED vars
  <2>1. ASSUME NEW f \in Ends PROVE ClosesEmpty(f)' /\ OutstandingAt(f)'
    BY <1>1, OutstandingFrame, EmptyFrame DEF OutstandingInv, vars
  <2> QED BY <2>1 DEF OutstandingInv
<1>2. ASSUME NEW e \in Ends, UserStep(e) PROVE OutstandingInv'
  BY <1>2, PostOutstanding, OtherOutstanding DEF UserStep
<1>3. ASSUME NEW e \in Ends, SendStep(e) PROVE OutstandingInv'
  BY <1>3, PushSendOutstanding, PopSendOutstanding, WriteDoneOutstanding, OtherOutstanding
     DEF SendStep
<1> QED BY <1>1, <1>2, <1>3, OtherOutstanding DEF Next

(* The counter of outstanding bytes of BtSocket is exact, and its maximum  *)
(* is one: every message is charged once, when it is queued, and taken off *)
(* once, when its write completes.                                         *)
THEOREM OutstandingCounted == Spec => []OutstandingExact
<1>1. Spec => []OutstandingInv
  BY SpecCore, InitOutstanding, NextOutstanding, PTL DEF Spec
<1>2. OutstandingInv => OutstandingExact
  BY DEF OutstandingInv, OutstandingExact
<1> QED BY <1>1, <1>2, PTL

(***************************************************************************)
(* Programs that match in number.                                          *)
(***************************************************************************)

LEMMA NoCalls == \A kind : Count(<< >>, kind) = 0
<1>1. \A kind : {i \in 1..Len(<< >>) : << >>[i].op = kind} = {}
  BY EmptySeq
<1> QED BY <1>1, FS_EmptySet DEF Count

LEMMA CountType ==
  ASSUME NEW calls \in Seq(Call), NEW kind
  PROVE  /\ IsFiniteSet({i \in 1..Len(calls) : calls[i].op = kind})
         /\ Count(calls, kind) \in Nat
<1>1. Len(calls) \in Nat
  OBVIOUS
<1>2. IsFiniteSet(1..Len(calls))
  BY <1>1, FS_Interval
<1>3. IsFiniteSet({i \in 1..Len(calls) : calls[i].op = kind})
  BY <1>2, FS_Subset
<1> QED BY <1>3, FS_CardinalityType DEF Count

(* What a call takes off the calls that are left                           *)
LEMMA CountRest ==
  ASSUME NEW calls \in Seq(Call), calls # << >>, NEW kind
  PROVE  /\ Count(Tail(calls), kind) \in Nat
         /\ Count(calls, kind) =
              Count(Tail(calls), kind) + (IF Head(calls).op = kind THEN 1 ELSE 0)
<1> DEFINE rest == Tail(calls)
           A == {i \in 1..Len(calls) : calls[i].op = kind}
           B == {i \in 1..Len(rest) : rest[i].op = kind}
           up == [i \in B |-> i + 1]
<1>1. /\ rest \in Seq(Call) /\ Len(calls) \in Nat \ {0} /\ Len(rest) = Len(calls) - 1
      /\ Head(calls) = calls[1] /\ \A i \in 1..Len(rest) : rest[i] = calls[i + 1]
  BY HeadTail
<1>2. IsFiniteSet(A) /\ IsFiniteSet(B) /\ Count(calls, kind) = Cardinality(A)
      /\ Count(rest, kind) = Cardinality(B) /\ Cardinality(B) \in Nat /\ Cardinality(A) \in Nat
  BY <1>1, CountType DEF Count
<1>3. \A j \in A \ {1} : j - 1 \in B /\ j = (j - 1) + 1
  <2> SUFFICES ASSUME NEW j \in A \ {1} PROVE j - 1 \in B /\ j = (j - 1) + 1
    OBVIOUS
  <2>1. j - 1 \in 1..Len(rest) /\ j = (j - 1) + 1
    BY <1>1
  <2>2. rest[j - 1] = calls[(j - 1) + 1]
    BY <1>1, <2>1
  <2> HIDE DEF rest
  <2> QED BY <2>1, <2>2
<1>4. \A i \in B : i + 1 \in A \ {1}
  <2> SUFFICES ASSUME NEW i \in B PROVE i + 1 \in A \ {1}
    OBVIOUS
  <2>1. i + 1 \in 1..Len(calls) /\ i + 1 # 1 /\ rest[i] = calls[i + 1]
    BY <1>1
  <2> HIDE DEF rest
  <2> QED BY <2>1
<1>5. B \subseteq Int
  OBVIOUS
<1> HIDE DEF A, B
<1>6. up \in [B -> A \ {1}] /\ \A i \in B : up[i] = i + 1
  BY <1>4
<1>7. \A i, j \in B : up[i] = up[j] => i = j
  BY <1>5
<1>8. \A j \in A \ {1} : \E i \in B : up[i] = j
  BY <1>3
<1> HIDE DEF up
<1>9. up \in Bijection(B, A \ {1})
  BY <1>6, <1>7, <1>8 DEF Bijection, Injection, Surjection, IsInjective
<1>10. Cardinality(A \ {1}) = Cardinality(B)
  <2>1. ExistsBijection(B, A \ {1})
    BY <1>9 DEF ExistsBijection
  <2> QED BY <1>2, <2>1, FS_Bijection
<1>11. Cardinality(A \ {1}) = IF 1 \in A THEN Cardinality(A) - 1 ELSE Cardinality(A)
  BY <1>2, FS_RemoveElement
<1>12. 1 \in A <=> Head(calls).op = kind
  BY <1>1 DEF A
<1> QED BY <1>2, <1>10, <1>11, <1>12

LEMMA InitMatch ==
  ASSUME \A p \in Plans : Balanced(p), Init PROVE MatchInv
<1>1. PICK p \in Plans : todo = p
  BY DEF Init
<1> SUFFICES ASSUME NEW e \in Ends PROVE MatchAt(e)
  BY DEF MatchInv
<1>2. /\ sent[e] = << >> /\ recvs[Peer(e)] = 0 /\ pc[e] = "run"
      /\ sendStrand[e] = << >> /\ mSendQueue[e] = << >> /\ kept[e] = {}
  BY PeerType DEF Init
<1>3. p[e] \in Seq(Call) /\ p[Peer(e)] \in Seq(Call)
  BY PlanTypes, PeerType
<1>4. Len(sent[e]) + Count(todo[e], "send") = recvs[Peer(e)] + Count(todo[Peer(e)], "recv")
  <2>1. /\ Count(p[e], "send") = Count(p[Peer(e)], "recv")
        /\ Count(p[e], "send") \in Nat /\ Count(p[Peer(e)], "recv") \in Nat
    BY <1>3, CountType DEF Balanced
  <2> QED BY <1>1, <1>2, <2>1, EmptySeq
<1> QED BY <1>2, <1>4, EmptySeq DEF MatchAt, Alive, Calling

(* An end that has closed received all that its peer sends, and all that   *)
(* it sent has been popped.                                                *)
LEMMA AllMade ==
  ASSUME CoreInv, FifoInv, MatchInv, NEW e \in Ends, pc[e] \notin Calling
  PROVE  /\ recvs[Peer(e)] <= Len(sent[e]) /\ Len(sent[Peer(e)]) <= recvs[e]
<1>1. Peer(e) \in Ends /\ Peer(Peer(e)) = e
  BY BothEnds
<1>2. todo[e] = << >>
  BY DEF MatchInv, MatchAt
<1>3. Count(todo[e], "send") = 0 /\ Count(todo[e], "recv") = 0
  BY <1>2, NoCalls
<1>4. Count(todo[Peer(e)], "recv") \in Nat /\ Count(todo[Peer(e)], "send") \in Nat
  BY <1>1, CountType DEF CoreInv, TypeOK, UserTypeOK
<1>5. /\ Len(sent[e]) + Count(todo[e], "send")
           = recvs[Peer(e)] + Count(todo[Peer(e)], "recv")
      /\ Len(sent[Peer(e)]) + Count(todo[Peer(e)], "send")
           = recvs[e] + Count(todo[e], "recv")
  BY <1>1 DEF MatchInv, MatchAt
<1>6. /\ Len(sent[e]) \in Nat /\ Len(sent[Peer(e)]) \in Nat
      /\ recvs[e] \in Nat /\ recvs[Peer(e)] \in Nat
  BY <1>1, Integers
<1> QED BY <1>3, <1>4, <1>5, <1>6

LEMMA NotOpen ==
  ASSUME CoreInv, FifoInv, MatchInv, NEW e \in Ends, ~Open(e)
  PROVE  /\ pc[e] = "closed" /\ pc[e] \notin Calling
         /\ writing[e] = "idle" /\ reading[e] = "idle"
         /\ Len(got[e]) = recvs[e] /\ Len(got[e]) = Len(sent[Peer(e)])
         /\ TwicePopped(e) = 2 * Len(sent[e])
<1>1. pc[e] = "closed"
  BY DEF Open, MatchInv, MatchAt, Alive
<1>2. pc[e] \notin Calling
  BY <1>1 DEF Calling
<1>3. writing[e] = "idle" /\ reading[e] = "idle" /\ Len(got[e]) = recvs[e]
  BY <1>1, ClosedClean DEF CleanClose
<1>4. Len(got[e]) = Len(sent[Peer(e)])
  <2>1. Len(got[e]) <= Len(sent[Peer(e)])
    BY DEF FifoInv, FifoAt, InOrder
  <2>2. Len(sent[Peer(e)]) <= recvs[e]
    BY <1>2, AllMade
  <2>3. Len(got[e]) \in Nat /\ Len(sent[Peer(e)]) \in Nat
    BY PeerType, Integers
  <2> QED BY <1>3, <2>1, <2>2, <2>3
<1>5. TwicePopped(e) = 2 * Len(sent[e])
  <2>1. \E p \in kept[e] : p[1] = "CloseSend"
    BY <1>1 DEF CoreInv, SendCloseLast
  <2> QED BY <2>1 DEF MatchInv, MatchAt
<1> QED BY <1>1, <1>2, <1>3, <1>4, <1>5

(* The last part of the last message has been read by an end that closed.  *)
LEMMA NothingUnread ==
  ASSUME CoreInv, FifoInv, MatchInv, NEW e \in Ends, ~Open(e)
  PROVE  wire[Peer(e)] = << >>
<1> DEFINE d == Peer(e)
           x == wire[d][1]
<1> SUFFICES ASSUME wire[d] # << >> PROVE FALSE
  OBVIOUS
<1>1. d \in Ends /\ Peer(d) = e
  BY BothEnds
<1>2. wire[d] \in Seq(WirePart) /\ 1 \in 1..Len(wire[d]) /\ x \in WirePart
  <2>1. wire[d] \in Seq(WirePart)
    BY <1>1 DEF CoreInv, TypeOK, WireTypeOK
  <2> QED BY <2>1, HeadTail
<1>3. PartPlace(x) = PartsRead(e) + 1 /\ IsMessage(d, x)
  BY <1>1, <1>2 DEF FifoInv, FifoAt, WireChain
<1>4. /\ PartsRead(e) = 2 * Len(got[e]) + 0 /\ Len(got[e]) = Len(sent[d])
      /\ Len(sent[d]) \in Nat
  BY <1>1, NotOpen, Integers DEF PartsRead
<1>5. x.nth \in 1..Len(sent[d])
  BY <1>3 DEF IsMessage
<1>6. PartPlace(x) <= 2 * x.nth
  BY <1>4, <1>5 DEF PartPlace
<1> HIDE DEF x, d
<1> QED BY <1>3, <1>4, <1>5, <1>6

LEMMA NoReset ==
  ASSUME CoreInv, FifoInv, MatchInv, NEW e \in Ends PROVE ~Reset(e)
BY NothingUnread DEF Reset

LEMMA ReadSucceeds ==
  ASSUME CoreInv, FifoInv, MatchInv, NEW e \in Ends PROVE ~ReadFails(e)
<1> DEFINE d == Peer(e)
<1> SUFFICES ASSUME ReadFails(e) PROVE FALSE
  OBVIOUS
<1>1. d \in Ends /\ Peer(d) = e
  BY BothEnds
<1>2. ~Open(d) /\ reading[e] \in {"header", "body"} /\ wire[d] = << >>
  BY DEF ReadFails
<1>3. TwicePopped(d) = 2 * Len(sent[d]) /\ writing[d] = "idle" /\ pc[d] \notin Calling
  BY <1>1, <1>2, NotOpen
<1>4. PartsRead(e) = 2 * Len(sent[d]) /\ Len(sent[d]) \in Nat
  <2>1. Len(wire[d]) = 0 /\ PartsWritten(d) = 0
    BY <1>2, <1>3, EmptySeq DEF PartsWritten
  <2>2. PartsRead(e) + 0 - 0 = 2 * Len(sent[d])
    BY <1>1, <1>3, <2>1 DEF TwicePopped
  <2> QED BY <1>1, <2>2, Integers
<1>5. Len(got[e]) \in Nat
  BY Integers
<1>6. CASE reading[e] = "body"
  <2>1. PartsRead(e) = 2 * Len(got[e]) + 1
    BY <1>6 DEF PartsRead
  <2> HIDE DEF d
  <2> QED BY <1>4, <1>5, <2>1
<1>7. CASE reading[e] = "header"
  <2>1. PartsRead(e) = 2 * Len(got[e]) + 0 /\ RecvsPopped(e) = Len(got[e]) - 0
    BY <1>7 DEF PartsRead, RecvsPopped
  <2>2. /\ mRecvQueue[e] # << >> /\ mRecvQueue[e] \in Seq(RecvOp)
        /\ Head(mRecvQueue[e]).type = "RecvData"
    BY <1>7 DEF CoreInv, TypeOK, RecvTypeOK, QueueDriven
  <2>3. 1 \in 1..Len(mRecvQueue[e]) /\ mRecvQueue[e][1].type = "RecvData"
    BY <2>2, HeadTail
  <2>4. mRecvQueue[e][1].nth = RecvsPopped(e) + 1 /\ mRecvQueue[e][1].nth \in 1..recvs[e]
    BY <2>3 DEF FifoInv, FifoAt, RecvChain, RecvCount, NthRecv
  <2>5. recvs[e] <= Len(sent[d]) /\ recvs[e] \in Nat
    BY <1>1, <1>3, AllMade, Integers
  <2> HIDE DEF d
  <2> QED BY <1>4, <1>5, <2>1, <2>4, <2>5
<1> QED BY <1>2, <1>6, <1>7

LEMMA WriteSucceeds ==
  ASSUME CoreInv, FifoInv, MatchInv, NEW e \in Ends PROVE ~WriteFails(e)
<1> DEFINE d == Peer(e)
<1> SUFFICES ASSUME WriteFails(e) PROVE FALSE
  OBVIOUS
<1>1. d \in Ends /\ Peer(d) = e
  BY BothEnds
<1>2. Open(e) /\ ~Open(d) /\ writing[e] \in {"header", "body"}
  BY DEF WriteFails
<1>3. reading[d] = "idle" /\ Len(got[d]) = Len(sent[e]) /\ Len(sent[e]) \in Nat
  BY <1>1, <1>2, NotOpen, Integers
<1>4. PartsRead(d) = 2 * Len(sent[e])
  <2>1. PartsRead(d) = 2 * Len(got[d]) + 0
    BY <1>3 DEF PartsRead
  <2> QED BY <1>3, <2>1
<1>5. PartsWritten(e) \in 0..1 /\ Len(wire[e]) \in Nat
  BY <1>2, Integers DEF PartsWritten
<1>6. TwicePopped(e) = 2 * Len(sent[e]) + Len(wire[e]) - PartsWritten(e)
  BY <1>4 DEF TwicePopped
<1>7. 1 \in 1..Len(mSendQueue[e]) /\ mSendQueue[e][1].nth \in 1..Len(sent[e])
  BY <1>2, FrontAlone
<1>8. 2 * (mSendQueue[e][1].nth - 1) = TwicePopped(e)
  BY <1>2, <1>7 DEF FifoInv, FifoAt, SendChain
<1> DEFINE n == mSendQueue[e][1].nth
           l == Len(sent[e])
           w == Len(wire[e])
           b == PartsWritten(e)
<1>9. 2 * (n - 1) = 2 * l + w - b /\ n \in 1..l /\ l \in Nat /\ w \in Nat /\ b \in 0..1
  BY <1>3, <1>5, <1>6, <1>7, <1>8
<1> HIDE DEF n, l, w, b
<1> QED BY <1>9

(* Nothing happens to the count of popped sends but by a write or a pop of *)
(* the end, or by a reset.                                                 *)
LEMMA TwiceKept ==
  ASSUME CoreInv, CoreInv', NEW e \in Ends,
         UserStep(e) \/ WriteDone(e) \/ RecvStep(e), NEW f \in Ends
  PROVE  TwicePopped(f)' = TwicePopped(f)
<1> DEFINE d == Peer(f)
<1>1. d \in Ends /\ Peer(d) = f /\ d # f
  BY BothEnds
<1>2. CASE UserStep(e)
  <2>1. UNCHANGED <<writing, reading, got, wire>>
    BY <1>2 DEF UserStep, Send, Recv, Return, Close, CloseReturn, sendVars, recvVars
  <2> QED BY <1>1, <2>1, QuantityFrame
<1>3. CASE WriteDone(e)
  <2>1. UNCHANGED <<recvVars, wire>>
    BY <1>3 DEF WriteDone
  <2>2. PartsWritten(f)' = PartsWritten(f)
    BY <1>3 DEF WriteDone, PartsWritten, CoreInv, TypeOK, SendTypeOK
  <2> QED BY <1>1, <2>1, <2>2, QuantityFrame DEF recvVars
<1>4. CASE PushRecv(e) \/ PopRecv(e)
  <2>1. UNCHANGED <<sendVars, got, wire>>
    BY <1>4 DEF PushRecv, PopRecv
  <2>2. PartsRead(d)' = PartsRead(d)
    <3>1. CASE PushRecv(e)
      <4>1. PICK op \in RecvOp, q \in Seq(RecvOp), rest \in Seq(RecvOp) :
               PushRecvResult(e, op, q, rest)
        BY <3>1, PushRecvEffect
      <4>2. \/ reading' = reading
            \/ /\ mRecvQueue[e] = << >>
               /\ \E r \in {"header", "idle"} : reading' = [reading EXCEPT ![e] = r]
        BY <4>1 DEF PushRecvResult
      <4>3. mRecvQueue[e] = << >> => reading[e] = "idle"
        BY DEF CoreInv, QueueDriven
      <4>4. reading[d] \in {"body", "stuck"} <=> reading'[d] \in {"body", "stuck"}
        BY <1>1, <4>2, <4>3 DEF CoreInv, TypeOK, RecvTypeOK
      <4> QED BY <2>1, <4>4 DEF PartsRead
    <3>2. CASE PopRecv(e)
      <4>1. PICK q \in Seq(RecvOp) : PopRecvResult(e, q)
        BY <3>2, PopRecvEffect
      <4>2. reading[d] \in {"body", "stuck"} <=> reading'[d] \in {"body", "stuck"}
        BY <4>1, <1>1 DEF PopRecvResult, CoreInv, TypeOK, RecvTypeOK
      <4> QED BY <2>1, <4>2 DEF PartsRead
    <3> QED BY <1>4, <3>1, <3>2
  <2> QED BY <2>1, <2>2, QuantityFrame DEF sendVars
<1>5. CASE ReadHeader(e) \/ ReadBody(e)
  <2> DEFINE c == Peer(e)
  <2>1. /\ UNCHANGED sendVars /\ c \in Ends /\ c # e /\ Peer(c) = e
        /\ wire[c] # << >> /\ wire' = [wire EXCEPT ![c] = Tail(@)]
        /\ wire[c] \in Seq(WirePart)
    BY <1>5, BothEnds DEF ReadHeader, ReadBody, CoreInv, TypeOK, WireTypeOK
  <2>2. /\ wire'[c] = Tail(wire[c]) /\ wire'[e] = wire[e]
        /\ Len(Tail(wire[c])) = Len(wire[c]) - 1 /\ Len(wire[c]) \in Nat
    BY <2>1, HeadTail DEF CoreInv, TypeOK, WireTypeOK
  <2>3. reading'[c] = reading[c] /\ got'[c] = got[c]
    BY <1>5, <2>1 DEF ReadHeader, ReadBody, CoreInv, TypeOK, RecvTypeOK, GotTypeOK
  <2>4. TwicePopped(e)' = TwicePopped(e)
    BY <2>1, <2>2, <2>3, QuantityFrame DEF sendVars
  <2>5. PartsRead(e)' = PartsRead(e) + 1 /\ PartsRead(e) \in Nat
    <3>1. Len(got[e]) \in Nat /\ PartsRead(e) \in Nat
      BY Integers
    <3>2. CASE ReadHeader(e)
      <4>1. reading[e] = "header" /\ reading'[e] \in {"body", "stuck"} /\ got' = got
        BY <3>2 DEF ReadHeader, CoreInv, TypeOK, RecvTypeOK
      <4>2. PartsRead(e) = 2 * Len(got[e]) + 0 /\ PartsRead(e)' = 2 * Len(got[e]) + 1
        BY <4>1 DEF PartsRead
      <4> QED BY <3>1, <4>2
    <3>3. CASE ReadBody(e)
      <4>1. PICK x : got' = [got EXCEPT ![e] = Append(@, x)]
        BY <3>3 DEF ReadBody
      <4>2. reading[e] = "body" /\ reading'[e] = "pop" /\ got'[e] = Append(got[e], x)
            /\ got[e] \in Seq(Receipt)
        BY <3>3, <4>1 DEF ReadBody, CoreInv, TypeOK, RecvTypeOK, GotTypeOK
      <4>3. Len(got'[e]) = Len(got[e]) + 1
        BY <4>2, AppendProperties
      <4>4. PartsRead(e) = 2 * Len(got[e]) + 1 /\ PartsRead(e)' = 2 * (Len(got[e]) + 1) + 0
        BY <4>2, <4>3 DEF PartsRead
      <4> QED BY <3>1, <4>4
    <3> QED BY <1>5, <3>2, <3>3
  <2>6. TwicePopped(c)' = TwicePopped(c)
    <3>1. PartsWritten(c)' = PartsWritten(c) /\ PartsWritten(c) \in Int
      BY <2>1, QuantityFrame, Integers DEF sendVars
    <3>2. TwicePopped(c)' = (PartsRead(e) + 1) + (Len(wire[c]) - 1) - PartsWritten(c)
      BY <2>1, <2>2, <2>5, <3>1 DEF TwicePopped
    <3> QED BY <2>1, <2>2, <2>5, <3>1, <3>2, PartTaken DEF TwicePopped
  <2> QED BY <2>4, <2>6, BothEnds
<1> QED BY <1>2, <1>3, <1>4, <1>5 DEF RecvStep

(* An end that makes no call and queues no send                            *)
LEMMA MatchFrame ==
  ASSUME NEW e \in Ends, MatchAt(e), Alive(e)',
         pc'[e] \notin Calling => pc[e] \notin Calling,
         UNCHANGED userVars,
         mSendQueue'[e] = mSendQueue[e], sendStrand'[e] = sendStrand[e],
         TwicePopped(e)' = TwicePopped(e),
         \A p \in kept'[e] : p[1] = "CloseSend" => p \in kept[e]
  PROVE  MatchAt(e)'
  BY DEF MatchAt, userVars

(* The arithmetic of a call: one moves from the left to the made.          *)
LEMMA MoveLeft ==
  ASSUME NEW l \in Nat, NEW t, NEW u \in Nat, NEW a \in Nat, NEW x \in Nat, t = u + a, l + t = x
  PROVE  l + a + u = x
OBVIOUS

LEMMA MoveRight ==
  ASSUME NEW l \in Nat, NEW t, NEW u \in Nat, NEW b \in Nat, NEW x \in Nat, t = u + b, x = l + t
  PROVE  x = l + b + u
OBVIOUS

(* A call moves one message from what is left to call to what was called.  *)
LEMMA CallMatch ==
  ASSUME CoreInv, CoreInv', MatchInv, NEW e \in Ends, Send(e) \/ Recv(e) PROVE MatchInv'
<1> DEFINE d == Peer(e)
           c == Head(todo[e])
<1>1. d \in Ends /\ Peer(d) = e /\ d # e /\ \A f \in Ends : f = e \/ f = d
  BY BothEnds
<1>2. /\ pc[e] = "run" /\ pc[e] \in Calling /\ todo[e] # << >> /\ todo[e] \in Seq(Call)
      /\ todo'[e] = Tail(todo[e]) /\ todo'[d] = todo[d] /\ pc'[d] = pc[d]
      /\ UNCHANGED <<mSendQueue, kept>>
  BY <1>1 DEF Send, Recv, Calling, CoreInv, TypeOK, UserTypeOK
<1>3. pc'[e] \in {"run", "waitSend", "waitRecv"}
  BY DEF Send, Recv, CoreInv, TypeOK, UserTypeOK
<1>4. /\ Count(todo'[e], "send") \in Nat /\ Count(todo'[e], "recv") \in Nat
      /\ Count(todo[e], "send") = Count(todo'[e], "send") + (IF c.op = "send" THEN 1 ELSE 0)
      /\ Count(todo[e], "recv") = Count(todo'[e], "recv") + (IF c.op = "recv" THEN 1 ELSE 0)
  BY <1>2, CountRest
<1>5. /\ Count(todo[d], "send") \in Nat /\ Count(todo[d], "recv") \in Nat
      /\ Len(sent[e]) \in Nat /\ Len(sent[d]) \in Nat
      /\ recvs[e] \in Nat /\ recvs[d] \in Nat
  BY <1>1, CountType, Integers DEF CoreInv, TypeOK, UserTypeOK
<1>6. /\ Len(sent'[e]) = Len(sent[e]) + (IF c.op = "send" THEN 1 ELSE 0)
      /\ recvs'[e] = recvs[e] + (IF c.op = "recv" THEN 1 ELSE 0)
      /\ sent'[d] = sent[d] /\ recvs'[d] = recvs[d]
  <2>1. CASE Send(e)
    <3>1. c.op = "send" /\ sent' = [sent EXCEPT ![e] = Append(@, c.size)] /\ recvs' = recvs
          /\ c \in Call
      BY <1>2, <2>1, HeadTail DEF Send
    <3>2. sent[e] \in Seq(Nat) /\ c.size \in Nat /\ sent'[e] = Append(sent[e], c.size)
          /\ sent'[d] = sent[d]
      BY <1>1, <3>1 DEF Call, CoreInv, TypeOK, UserTypeOK
    <3>3. Len(sent'[e]) = Len(sent[e]) + 1
      BY <3>2, AppendProperties
    <3> QED BY <1>5, <3>1, <3>2, <3>3
  <2>2. CASE Recv(e)
    <3>1. c.op = "recv" /\ recvs' = [recvs EXCEPT ![e] = @ + 1] /\ sent' = sent
      BY <2>2 DEF Recv
    <3> QED BY <1>1, <1>5, <3>1 DEF CoreInv, TypeOK, UserTypeOK
  <2> QED BY <2>1, <2>2
<1>7. /\ Len(sent'[e]) + Count(todo'[e], "send") = recvs'[d] + Count(todo'[d], "recv")
      /\ Len(sent'[d]) + Count(todo'[d], "send") = recvs'[e] + Count(todo'[e], "recv")
  <2>1. /\ Len(sent[e]) + Count(todo[e], "send") = recvs[d] + Count(todo[d], "recv")
        /\ Len(sent[d]) + Count(todo[d], "send") = recvs[e] + Count(todo[e], "recv")
    BY <1>1 DEF MatchInv, MatchAt
  <2> DEFINE a == IF c.op = "send" THEN 1 ELSE 0
             b == IF c.op = "recv" THEN 1 ELSE 0
  <2>2. a \in Nat /\ b \in Nat
    OBVIOUS
  <2>3. /\ Len(sent[e]) + a + Count(todo'[e], "send") = recvs[d] + Count(todo[d], "recv")
        /\ Len(sent[d]) + Count(todo[d], "send") = recvs[e] + b + Count(todo'[e], "recv")
    <3>1. /\ Count(todo[e], "send") = Count(todo'[e], "send") + a
          /\ Count(todo[e], "recv") = Count(todo'[e], "recv") + b
      BY <1>4
    <3>2. Count(todo'[e], "send") \in Nat /\ Count(todo'[e], "recv") \in Nat
      BY <1>4
    <3>3. Len(sent[e]) + a + Count(todo'[e], "send") = recvs[d] + Count(todo[d], "recv")
      <4> HIDE DEF a, b, c, d
      <4> QED BY <1>5, <2>1, <2>2, <3>1, <3>2, MoveLeft
    <3>4. Len(sent[d]) + Count(todo[d], "send") = recvs[e] + b + Count(todo'[e], "recv")
      <4> HIDE DEF a, b, c, d
      <4> QED BY <1>5, <2>1, <2>2, <3>1, <3>2, MoveRight
    <3> QED BY <3>3, <3>4
  <2> HIDE DEF a, b
  <2> QED BY <1>2, <1>6, <2>3 DEF a, b
<1>8. \A x \in 1..Len(sendStrand'[e]) : sendStrand'[e][x].type # "CloseSend"
  <2>1. \A i \in 1..Len(sendStrand[e]) : sendStrand[e][i].type # "CloseSend"
    BY <1>2 DEF CoreInv, SendCloseLast
  <2>2. CASE Send(e)
    <3> DEFINE op == Operation("SendData", Len(sent[e]) + 1, c.size, c.sync)
    <3>1. c \in Call
      BY <1>2, HeadTail
    <3>2. op \in SendOp /\ op.type # "CloseSend"
      BY <1>5, <3>1 DEF Operation, SendOp, Call
    <3>3. sendStrand'[e] = Append(sendStrand[e], op) /\ sendStrand[e] \in Seq(SendOp)
      BY <2>2 DEF Send, CoreInv, TypeOK, SendTypeOK
    <3> HIDE DEF op
    <3>4. /\ Len(sendStrand[e]) \in Nat /\ Len(sendStrand'[e]) = Len(sendStrand[e]) + 1
          /\ \A i \in 1..Len(sendStrand[e]) : sendStrand'[e][i] = sendStrand[e][i]
          /\ sendStrand'[e][Len(sendStrand[e]) + 1] = op
      BY <3>2, <3>3, Appended
    <3>5. \A i \in 1..Len(sendStrand'[e]) :
            i \in 1..Len(sendStrand[e]) \/ i = Len(sendStrand[e]) + 1
      BY <3>4
    <3> QED BY <2>1, <3>2, <3>4, <3>5
  <2>3. CASE Recv(e)
    BY <2>1, <2>3 DEF Recv
  <2> QED BY <2>2, <2>3
<1>9. MatchAt(e)'
  <2>1. \A i \in 1..Len(mSendQueue'[e]) : mSendQueue'[e][i].type # "CloseSend"
    BY <1>2 DEF CoreInv, SendCloseLast
  <2>2. ~\E p \in kept'[e] : p[1] = "CloseSend"
    BY <1>2 DEF CoreInv, SendCloseLast
  <2> QED BY <1>1, <1>3, <1>7, <1>8, <2>1, <2>2 DEF MatchAt, Alive, Calling
<1>10. MatchAt(d)'
  <2>1. sendStrand'[d] = sendStrand[d]
    BY <1>1 DEF Send, Recv, CoreInv, TypeOK, SendTypeOK
  <2>2. TwicePopped(d)' = TwicePopped(d)
    BY <1>1, TwiceKept DEF UserStep
  <2>3. MatchAt(d)
    BY <1>1 DEF MatchInv
  <2> QED BY <1>1, <1>2, <1>6, <1>7, <2>1, <2>2, <2>3 DEF MatchAt, Alive
<1> QED BY <1>1, <1>9, <1>10 DEF MatchInv

LEMMA CloseMatch ==
  ASSUME CoreInv, CoreInv', MatchInv, NEW e \in Ends, Close(e) PROVE MatchInv'
<1> DEFINE op == Operation("CloseSend", Len(sent[e]) + 1, 0, TRUE)
<1>1. /\ todo[e] = << >> /\ UNCHANGED <<userVars, mSendQueue, kept>>
      /\ sendStrand'[e] = Append(sendStrand[e], op) /\ sendStrand[e] \in Seq(SendOp)
      /\ \A f \in Ends \ {e} : sendStrand'[f] = sendStrand[f] /\ pc'[f] = pc[f]
      /\ pc'[e] = "closing"
  BY DEF Close, CoreInv, TypeOK, UserTypeOK, SendTypeOK
<1>2. op \in SendOp /\ op.nth = Len(sent[e]) + 1
  <2>1. Len(sent[e]) + 1 \in Nat
    BY Integers
  <2> QED BY <2>1 DEF Operation, SendOp
<1> HIDE DEF op
<1>3. \A f \in Ends : TwicePopped(f)' = TwicePopped(f)
  BY TwiceKept DEF UserStep
<1>4. /\ Len(sendStrand[e]) \in Nat /\ Len(sendStrand'[e]) = Len(sendStrand[e]) + 1
      /\ \A i \in 1..Len(sendStrand[e]) : sendStrand'[e][i] = sendStrand[e][i]
      /\ sendStrand'[e][Len(sendStrand[e]) + 1] = op
  BY <1>1, <1>2, Appended
<1>5. \A i \in 1..Len(sendStrand'[e]) :
        i \in 1..Len(sendStrand[e]) \/ i = Len(sendStrand[e]) + 1
  BY <1>4
<1>6. MatchAt(e)'
  <2>1. MatchAt(e)
    BY DEF MatchInv
  <2>2. \A i \in 1..Len(sendStrand'[e]) :
          sendStrand'[e][i].type = "CloseSend" => sendStrand'[e][i].nth = Len(sent[e]) + 1
    BY <1>2, <1>4, <1>5, <2>1 DEF MatchAt
  <2> QED BY <1>1, <1>3, <2>1, <2>2 DEF MatchAt, Alive, userVars
<1>7. ASSUME NEW f \in Ends \ {e} PROVE MatchAt(f)'
  <2>1. MatchAt(f) /\ Alive(f)'
    BY <1>1 DEF MatchInv, MatchAt, Alive
  <2> QED BY <1>1, <1>3, <2>1, MatchFrame
<1> QED BY <1>6, <1>7 DEF MatchInv

(* The close is popped when it is started: all sends before it are popped. *)
LEMMA PushSendMatch ==
  ASSUME CoreInv, CoreInv', FifoInv, MatchInv, NEW e \in Ends, PushSend(e) PROVE MatchInv'
<1>1. PICK op \in SendOp, q \in Seq(SendOp), rest \in Seq(SendOp) :
         PushSendResult(e, op, q, rest)
  BY PushSendEffect
<1>2. /\ op = sendStrand[e][1] /\ 1 \in 1..Len(sendStrand[e])
      /\ Len(rest) = Len(sendStrand[e]) - 1 /\ Len(sendStrand[e]) \in Nat
      /\ \A i \in 1..Len(rest) : rest[i] = sendStrand[e][i + 1]
      /\ Len(mSendQueue[e]) \in Nat /\ Len(q) = Len(mSendQueue[e]) + 1
      /\ \A i \in 1..Len(mSendQueue[e]) : q[i] = mSendQueue[e][i]
      /\ q[Len(mSendQueue[e]) + 1] = op /\ sendStrand[e] # << >>
      /\ UNCHANGED <<userVars, pc, recvVars, wire>>
  BY <1>1 DEF PushSendResult
<1>3. /\ sendStrand'[e] = rest
      /\ \/ /\ mSendQueue'[e] = q /\ kept'[e] = kept[e]
            /\ \/ mSendQueue[e] # << >> /\ writing'[e] = writing[e]
               \/ mSendQueue[e] = << >> /\ writing'[e] = "header"
         \/ /\ mSendQueue[e] = << >> /\ mSendQueue'[e] = << >> /\ op.type = "CloseSend"
            /\ writing'[e] = "idle"
      /\ \A f \in Ends \ {e} : /\ sendStrand'[f] = sendStrand[f] /\ kept'[f] = kept[f]
                               /\ mSendQueue'[f] = mSendQueue[f] /\ writing'[f] = writing[f]
  BY <1>1 DEF PushSendResult, CoreInv, TypeOK, SendTypeOK, KeptTypeOK
<1>4. MatchAt(e)
  BY DEF MatchInv
<1>5. TwicePopped(e)' = TwicePopped(e)
  <2>1. PartsWritten(e)' = PartsWritten(e)
    <3>1. mSendQueue[e] = << >> => writing[e] = "idle"
      BY DEF CoreInv, QueueDriven
    <3> QED BY <1>3, <3>1 DEF PartsWritten
  <2> QED BY <1>2, <2>1, QuantityFrame, PeerType DEF recvVars
<1>6. op.type = "CloseSend" => op.nth = Len(sent[e]) + 1
  BY <1>2, <1>4 DEF MatchAt
<1>7. \A i \in 1..Len(sendStrand'[e]) :
        sendStrand'[e][i].type = "CloseSend" => sendStrand'[e][i].nth = Len(sent[e]) + 1
  <2>1. \A i \in 1..Len(rest) : i + 1 \in 1..Len(sendStrand[e])
    BY <1>2
  <2> QED BY <1>2, <1>3, <1>4, <2>1 DEF MatchAt
<1>8. \A i \in 1..Len(mSendQueue'[e]) :
        mSendQueue'[e][i].type = "CloseSend" => mSendQueue'[e][i].nth = Len(sent[e]) + 1
  <2>1. \A i \in 1..Len(q) : i \in 1..Len(mSendQueue[e]) \/ i = Len(mSendQueue[e]) + 1
    BY <1>2
  <2>2. \A i \in 1..Len(q) : q[i].type = "CloseSend" => q[i].nth = Len(sent[e]) + 1
    BY <1>2, <1>4, <1>6, <2>1 DEF MatchAt
  <2> QED BY <1>3, <2>2, EmptySeq
<1>9. (\E p \in kept'[e] : p[1] = "CloseSend") => TwicePopped(e)' = 2 * Len(sent[e])
  <2>1. CASE kept'[e] = kept[e]
    BY <1>4, <1>5, <2>1 DEF MatchAt
  <2>2. CASE mSendQueue[e] = << >> /\ op.type = "CloseSend"
    <3>1. Open(e)
      BY <1>2, <1>4, Closed DEF Open, MatchAt, Alive
    <3>2. 2 * (op.nth - 1 - Len(mSendQueue[e])) = TwicePopped(e)
      BY <1>2, <3>1 DEF FifoInv, FifoAt, SendChain
    <3>3. Len(mSendQueue[e]) = 0 /\ Len(sent[e]) \in Nat /\ op.nth = Len(sent[e]) + 1
      BY <1>6, <2>2, EmptySeq, Integers
    <3> QED BY <1>5, <3>2, <3>3
  <2> QED BY <1>3, <2>1, <2>2
<1>10. MatchAt(e)'
  BY <1>2, <1>4, <1>7, <1>8, <1>9 DEF MatchAt, Alive, userVars
<1>11. ASSUME NEW f \in Ends \ {e} PROVE MatchAt(f)'
  <2>1. MatchAt(f) /\ Alive(f)'
    BY <1>2 DEF MatchInv, MatchAt, Alive
  <2>2. TwicePopped(f)' = TwicePopped(f)
    BY <1>2, <1>3, QuantityFrame, PeerType DEF recvVars
  <2> QED BY <1>2, <1>3, <2>1, <2>2, MatchFrame
<1> QED BY <1>10, <1>11 DEF MatchInv

LEMMA PopSendMatch ==
  ASSUME CoreInv, CoreInv', FifoInv, MatchInv, NEW e \in Ends, PopSend(e) PROVE MatchInv'
<1>1. PICK q \in Seq(SendOp) : PopSendResult(e, q)
  BY PopSendEffect
<1>2. /\ writing[e] = "pop" /\ Len(mSendQueue[e]) \in Nat \ {0} /\ mSendQueue[e] # << >>
      /\ Len(q) = Len(mSendQueue[e]) - 1
      /\ \A i \in 1..Len(q) : q[i] = mSendQueue[e][i + 1]
      /\ UNCHANGED <<userVars, pc, sendStrand, recvVars, wire>>
  BY <1>1 DEF PopSendResult
<1>3. /\ \/ mSendQueue'[e] = q /\ kept'[e] = kept[e]
         \/ mSendQueue'[e] = << >> /\ Len(q) = 1 /\ q[1].type = "CloseSend"
      /\ writing'[e] \in {"idle", "header"}
      /\ \A f \in Ends \ {e} : /\ mSendQueue'[f] = mSendQueue[f] /\ writing'[f] = writing[f]
                               /\ kept'[f] = kept[f]
  BY <1>1 DEF PopSendResult, CoreInv, TypeOK, SendTypeOK, KeptTypeOK
<1>4. MatchAt(e)
  BY DEF MatchInv
<1>5. \A i \in 1..Len(q) : i + 1 \in 1..Len(mSendQueue[e])
  BY <1>2
<1>6. \A i \in 1..Len(q) : q[i].type = "CloseSend" => q[i].nth = Len(sent[e]) + 1
  BY <1>2, <1>4, <1>5 DEF MatchAt
<1>7. \A i \in 1..Len(mSendQueue'[e]) :
        mSendQueue'[e][i].type = "CloseSend" => mSendQueue'[e][i].nth = Len(sent[e]) + 1
  BY <1>3, <1>6, EmptySeq
<1>8. (\E p \in kept'[e] : p[1] = "CloseSend") => TwicePopped(e)' = 2 * Len(sent[e])
  <2>1. CASE kept'[e] = kept[e]
    <3>1. ~\E p \in kept[e] : p[1] = "CloseSend"
      BY <1>2 DEF CoreInv, SendCloseLast
    <3> QED BY <2>1, <3>1
  <2>2. CASE Len(q) = 1 /\ q[1].type = "CloseSend"
    <3>1. Open(e)
      BY <1>2, <1>4, Closed DEF Open, MatchAt, Alive
    <3>2. /\ 2 \in 1..Len(mSendQueue[e]) /\ mSendQueue[e][2] = q[1]
          /\ q[1].nth = Len(sent[e]) + 1
      <4>1. \A n \in Nat \ {0} : 1 = n - 1 => n = 2
        OBVIOUS
      <4>2. Len(mSendQueue[e]) = 2
        BY <1>2, <2>2, <4>1
      <4>3. 1 \in 1..Len(q) /\ 2 \in 1..Len(mSendQueue[e]) /\ 1 + 1 = 2
        BY <2>2, <4>2
      <4>4. mSendQueue[e][2] = q[1]
        BY <1>2, <4>3
      <4> QED BY <1>6, <2>2, <4>3, <4>4
    <3>3. 2 * (q[1].nth - 2) = TwicePopped(e)
      BY <3>1, <3>2 DEF FifoInv, FifoAt, SendChain
    <3> DEFINE r == PartsRead(Peer(e))
               w == Len(wire[e])
               l == Len(sent[e])
    <3>4. PartsRead(Peer(e))' = PartsRead(Peer(e))
      BY <1>2, PeerType, QuantityFrame DEF recvVars
    <3>5. TwicePopped(e) = r + w - 2 /\ TwicePopped(e)' = r + w - 0
      BY <1>2, <1>3, <3>4 DEF TwicePopped, PartsWritten
    <3>6. r \in Nat /\ w \in Nat /\ l \in Nat
      BY Integers
    <3>7. 2 * ((l + 1) - 2) = r + w - 2
      BY <3>2, <3>3, <3>5
    <3>8. TwicePopped(e)' = 2 * l
      <4> HIDE DEF r, w, l
      <4> QED BY <3>5, <3>6, <3>7
    <3> QED BY <3>8
  <2> QED BY <1>3, <2>1, <2>2
<1>9. MatchAt(e)'
  BY <1>2, <1>4, <1>7, <1>8 DEF MatchAt, Alive, userVars
<1>10. ASSUME NEW f \in Ends \ {e} PROVE MatchAt(f)'
  <2>1. MatchAt(f) /\ Alive(f)'
    BY <1>2 DEF MatchInv, MatchAt, Alive
  <2>2. TwicePopped(f)' = TwicePopped(f)
    BY <1>2, <1>3, QuantityFrame, PeerType DEF recvVars
  <2> QED BY <1>2, <1>3, <2>1, <2>2, MatchFrame
<1> QED BY <1>9, <1>10 DEF MatchInv

LEMMA WriteMatch ==
  ASSUME CoreInv, CoreInv', MatchInv, NEW e \in Ends, Write(e) PROVE MatchInv'
<1>1. /\ UNCHANGED <<userVars, pc, sendStrand, mSendQueue, recvVars, kept>>
      /\ writing[e] \in {"header", "body"}
      /\ \A f \in Ends \ {e} : wire'[f] = wire[f] /\ writing'[f] = writing[f]
  BY DEF Write, CoreInv, TypeOK, SendTypeOK, WireTypeOK
<1>2. ASSUME NEW f \in Ends PROVE MatchAt(f)'
  <2>1. MatchAt(f)
    BY DEF MatchInv
  <2>2. f # e => TwicePopped(f)' = TwicePopped(f)
    BY <1>1, QuantityFrame, PeerType DEF recvVars
  <2>3. f = e => ~\E p \in kept[f] : p[1] = "CloseSend"
    BY <1>1 DEF CoreInv, QueueDriven, SendCloseLast
  <2> QED BY <1>1, <2>1, <2>2, <2>3 DEF MatchAt, Alive, userVars
<1> QED BY <1>2 DEF MatchInv

LEMMA OtherMatch ==
  ASSUME CoreInv, CoreInv', MatchInv, NEW e \in Ends,
         Return(e) \/ CloseReturn(e) \/ WriteDone(e) \/ RecvStep(e)
  PROVE  MatchInv'
<1>1. UNCHANGED <<userVars, sendStrand, mSendQueue>>
  BY DEF Return, CloseReturn, WriteDone, RecvStep, PushRecv, ReadHeader, ReadBody, PopRecv,
         sendVars
<1>2. \A f \in Ends : /\ Alive(f) => Alive(f)'
                      /\ pc'[f] \notin Calling => pc[f] \notin Calling
  BY DEF Return, CloseReturn, WriteDone, RecvStep, PushRecv, ReadHeader, ReadBody, PopRecv,
         Alive, Calling, CoreInv, TypeOK, UserTypeOK
<1>3. \A f \in Ends : TwicePopped(f)' = TwicePopped(f)
  BY TwiceKept DEF UserStep
<1>4. \A f \in Ends : \A p \in kept'[f] : p[1] = "CloseSend" => p \in kept[f]
  <2>1. CASE Return(e) \/ CloseReturn(e)
    BY <2>1 DEF Return, CloseReturn
  <2>2. CASE WriteDone(e)
    <3>1. mSendQueue[e] # << >> /\ Head(mSendQueue[e]).type = "SendData"
      BY <2>2 DEF WriteDone, CoreInv, QueueDriven
    <3>2. Kept(Head(mSendQueue[e]), "value")[1] # "CloseSend"
      BY <3>1 DEF Kept
    <3> QED BY <2>2, <3>2 DEF WriteDone, CoreInv, TypeOK, KeptTypeOK
  <2>3. CASE PushRecv(e)
    <3>1. PICK op \in RecvOp, q \in Seq(RecvOp), rest \in Seq(RecvOp) :
             PushRecvResult(e, op, q, rest)
      BY <2>3, PushRecvEffect
    <3>2. \/ kept' = kept
          \/ \E p \in Promise : p[1] = "CloseRecv" /\ kept' = [kept EXCEPT ![e] = @ \cup {p}]
      BY <3>1 DEF PushRecvResult
    <3> QED BY <3>2 DEF CoreInv, TypeOK, KeptTypeOK
  <2>4. CASE PopRecv(e)
    <3>1. PICK q \in Seq(RecvOp) : PopRecvResult(e, q)
      BY <2>4, PopRecvEffect
    <3>2. \/ kept' = kept
          \/ \E p \in Promise : p[1] = "CloseRecv" /\ kept' = [kept EXCEPT ![e] = @ \cup {p}]
      BY <3>1 DEF PopRecvResult
    <3> QED BY <3>2 DEF CoreInv, TypeOK, KeptTypeOK
  <2>5. CASE ReadHeader(e) \/ ReadBody(e)
    <3>1. mRecvQueue[e] # << >> /\ Head(mRecvQueue[e]).type = "RecvData"
      BY <2>5 DEF ReadHeader, ReadBody, CoreInv, QueueDriven
    <3>2. \A o : Kept(Head(mRecvQueue[e]), o)[1] # "CloseSend"
      BY <3>1 DEF Kept
    <3> QED BY <2>5, <3>2 DEF ReadHeader, ReadBody, CoreInv, TypeOK, KeptTypeOK
  <2> QED BY <2>1, <2>2, <2>3, <2>4, <2>5 DEF RecvStep
<1>5. ASSUME NEW f \in Ends PROVE MatchAt(f)'
  <2>1. MatchAt(f) /\ Alive(f)'
    BY <1>2 DEF MatchInv, MatchAt
  <2> QED BY <1>1, <1>2, <1>3, <1>4, <2>1, MatchFrame
<1> QED BY <1>5 DEF MatchInv

LEMMA NextMatch ==
  CoreInv /\ CoreInv' /\ FifoInv /\ MatchInv /\ [Next]_vars => MatchInv'
<1> SUFFICES ASSUME CoreInv, CoreInv', FifoInv, MatchInv, [Next]_vars PROVE MatchInv'
  OBVIOUS
<1>1. CASE UNCHANGED vars
  <2>1. ASSUME NEW f \in Ends PROVE MatchAt(f)'
    <3>1. MatchAt(f) /\ Alive(f)'
      BY <1>1 DEF MatchInv, MatchAt, Alive, vars
    <3>2. TwicePopped(f)' = TwicePopped(f)
      BY <1>1, QuantityFrame, PeerType DEF vars
    <3>3. UNCHANGED <<userVars, pc, mSendQueue, sendStrand, kept>>
      BY <1>1 DEF vars, userVars
    <3> QED BY <3>1, <3>2, <3>3, MatchFrame
  <2> QED BY <2>1 DEF MatchInv
<1>2. ASSUME NEW e \in Ends, UserStep(e) PROVE MatchInv'
  BY <1>2, CallMatch, CloseMatch, OtherMatch DEF UserStep
<1>3. ASSUME NEW e \in Ends, SendStep(e) PROVE MatchInv'
  BY <1>3, PushSendMatch, WriteMatch, OtherMatch, PopSendMatch DEF SendStep
<1>4. ASSUME NEW e \in Ends, Failure(e) PROVE FALSE
  BY <1>4, ReadSucceeds, WriteSucceeds, NoReset DEF Failure
<1> QED BY <1>1, <1>2, <1>3, <1>4, OtherMatch DEF Next

(* If each end of every plan receives as many messages as the other sends, *)
(* then no handler ever sees an error, in any order of the calls, with any *)
(* lengths and with kernels that buffer as little as they like.            *)
THEOREM NeverFails ==
  ASSUME \A p \in Plans : Balanced(p)
  PROVE  Spec => []NoFailure
<1>1. Init => MatchInv
  BY InitMatch
<1>2. Spec => []MatchInv
  BY <1>1, NextMatch, SpecCore, SpecFifo, PTL DEF Spec
<1>3. MatchInv => NoFailure
  BY DEF MatchInv, MatchAt, NoFailure, Alive
<1> QED BY <1>2, <1>3, PTL
=============================================================================
