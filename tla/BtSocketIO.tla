----------------------------- MODULE BtSocketIO -----------------------------
(***************************************************************************)
(* The I/O core of cryptoTools/Network: the two BtSockets of one connected *)
(* pair of channels, the strands and queues through which BtIOService      *)
(* drives them, and the user thread of each end that calls the BtChannel   *)
(* operations.                                                             *)
(*                                                                         *)
(* One user thread per end issues calls (asyncSend, send, asyncRecv, recv) *)
(* and then close.  A call only posts an operation to a strand.  On the    *)
(* strand the operation is pushed on a queue, and a push on an empty queue *)
(* starts sendOne / receiveOne.  The asynchronous read or write completes  *)
(* outside the strand, fulfils the promise and dispatches a pop, which     *)
(* starts the next operation.  All of these steps interleave freely: the   *)
(* io_service has several worker threads.                                  *)
(***************************************************************************)
EXTENDS Integers, Sequences, FiniteSets

CONSTANTS
  Plans,     (* the programs explored: functions from an end to its calls  *)
  WireCap    (* how many header or body parts the two kernels buffer       *)

Ends    == {0, 1}
Peer(e) == 1 - e

(* A call of a user program.  size is the length passed to the call; a     *)
(* receive into a ChannelBuffer, which is resized to fit, has size 0.      *)
Call == [op : {"send", "recv"}, sync : BOOLEAN, size : Nat]

ASSUME PlansAssumption ==
  \A p \in Plans : /\ p \in [Ends -> Seq(Call)]
                   /\ \A e \in Ends : \A i \in 1..Len(p[e]) :
                         p[e][i].op = "send" => p[e][i].size > 0

ASSUME WireCapAssumption == WireCap \in Nat \ {0}

VARIABLES
  todo,        (* the calls the user thread has still to make              *)
  pc,          (* where the user thread is                                 *)
  sendStrand,  (* operations posted to mSendStrand and not yet run         *)
  recvStrand,  (* the same for mRecvStrand                                 *)
  mSendQueue,
  mRecvQueue,
  writing,     (* progress of the write of the front of mSendQueue         *)
  reading,     (* progress of the read for the front of mRecvQueue         *)
  wire,        (* wire[e]: the parts e wrote that its peer has not read    *)
  kept,        (* the promises that were fulfilled, with their outcome     *)
  sent,        (* history: the lengths of the messages e sent, in order    *)
  got,         (* history: what the receives of e were fulfilled with      *)
  recvs,       (* history: the number of receives e has posted             *)
  stats        (* the four byte counters of BtSocket                       *)

userVars  == <<todo, sent, recvs>>
sendVars  == <<sendStrand, mSendQueue, writing>>
recvVars  == <<recvStrand, mRecvQueue, reading, got>>
vars == <<todo, pc, sendStrand, recvStrand, mSendQueue, mRecvQueue, writing,
          reading, wire, kept, sent, got, recvs, stats>>

(***************************************************************************)
(* Operations, promises and parts of messages.                             *)
(***************************************************************************)

(* A BoostIOOperation.  nth numbers the operations of a direction at an    *)
(* end: the nth send carries the nth message.  flag is mPromise # nullptr  *)
(* for a send and mOther = nullptr (a buffer of fixed size) for a receive. *)
Operation(type, nth, size, flag) ==
  [type |-> type, nth |-> nth, size |-> size, flag |-> flag]

(* The promise of an operation, fulfilled with an outcome.  "null" is      *)
(* set_exception of an empty exception_ptr: get() then returns normally.   *)
Kept(op, outcome) == <<op.type, op.nth, outcome>>

(* Half a message on the wire: the length header or the body.              *)
Part(kind, op) == [kind |-> kind, nth |-> op.nth, size |-> op.size]

Alive(e) == pc[e] # "dead"
Open(e)  == pc[e] \notin {"closed", "dead"}

Init == /\ todo \in Plans
        /\ pc         = [e \in Ends |-> "run"]
        /\ sendStrand = [e \in Ends |-> << >>]
        /\ recvStrand = [e \in Ends |-> << >>]
        /\ mSendQueue = [e \in Ends |-> << >>]
        /\ mRecvQueue = [e \in Ends |-> << >>]
        /\ writing    = [e \in Ends |-> "idle"]
        /\ reading    = [e \in Ends |-> "idle"]
        /\ wire       = [e \in Ends |-> << >>]
        /\ kept       = [e \in Ends |-> {}]
        /\ sent       = [e \in Ends |-> << >>]
        /\ got        = [e \in Ends |-> << >>]
        /\ recvs      = [e \in Ends |-> 0]
        /\ stats      = [e \in Ends |->
                           [outstanding |-> 0, maxOut |-> 0, out |-> 0, in |-> 0]]

(***************************************************************************)
(* The user thread: BtChannel.                                             *)
(***************************************************************************)

(* asyncSend, or send, which blocks on a promise that lives on its stack.  *)
Send(e) ==
  /\ pc[e] = "run"
  /\ todo[e] # << >>
  /\ LET c == Head(todo[e]) IN
       /\ c.op = "send"
       /\ sent' = [sent EXCEPT ![e] = Append(@, c.size)]
       /\ sendStrand' = [sendStrand EXCEPT ![e] =
            Append(@, Operation("SendData", Len(sent[e]) + 1, c.size, c.sync))]
       /\ pc' = [pc EXCEPT ![e] = IF c.sync THEN "waitSend" ELSE "run"]
  /\ todo' = [todo EXCEPT ![e] = Tail(@)]
  /\ UNCHANGED <<recvStrand, mSendQueue, mRecvQueue, writing, reading, wire,
                 kept, got, recvs, stats>>

(* asyncRecv, or recv, which waits for the future at once.                 *)
Recv(e) ==
  /\ pc[e] = "run"
  /\ todo[e] # << >>
  /\ LET c == Head(todo[e]) IN
       /\ c.op = "recv"
       /\ recvStrand' = [recvStrand EXCEPT ![e] =
            Append(@, Operation("RecvData", recvs[e] + 1, c.size, c.size > 0))]
       /\ pc' = [pc EXCEPT ![e] = IF c.sync THEN "waitRecv" ELSE "run"]
  /\ recvs' = [recvs EXCEPT ![e] = @ + 1]
  /\ todo' = [todo EXCEPT ![e] = Tail(@)]
  /\ UNCHANGED <<sendStrand, mSendQueue, mRecvQueue, writing, reading, wire,
                 kept, sent, got, stats>>

(* Bug: a call returns on the promise of an earlier call.                  *)
FulfilledEarlier(e, type, nth) == \E p \in kept[e] : p[1] = type

(* get() on the future of an operation returns.                            *)
Fulfilled(e, type, nth) == \E p \in kept[e] : p[1] = type /\ p[2] = nth

(* The promise a blocked send or recv waits for has been fulfilled.        *)
Return(e) ==
  /\ \/ pc[e] = "waitSend" /\ Fulfilled(e, "SendData", Len(sent[e]))
     \/ pc[e] = "waitRecv" /\ Fulfilled(e, "RecvData", recvs[e])
  /\ pc' = [pc EXCEPT ![e] = "run"]
  /\ UNCHANGED <<userVars, sendVars, recvVars, wire, kept, stats>>

(* Bug: close queues the send's close operation on both sides.             *)
CloseSendTwice(e) == Operation("CloseSend", recvs[e] + 1, 0, FALSE)

(* The operation close queues behind the receives.                         *)
CloseRecvOp(e) == Operation("CloseRecv", recvs[e] + 1, 0, FALSE)

(* close: mStopped is set, and CloseRecv and CloseSend queue up behind     *)
(* everything that was posted before.                                      *)
Close(e) ==
  /\ pc[e] = "run"
  /\ todo[e] = << >>
  /\ pc' = [pc EXCEPT ![e] = "closing"]
  /\ recvStrand' = [recvStrand EXCEPT ![e] =
       Append(@, CloseRecvOp(e))]
  /\ sendStrand' = [sendStrand EXCEPT ![e] =
       Append(@, Operation("CloseSend", Len(sent[e]) + 1, 0, TRUE))]
  /\ UNCHANGED <<userVars, mSendQueue, mRecvQueue, writing, reading, wire,
                 kept, got, stats>>

(* Bug: close does not wait for the receives.                              *)
OnlySendsClosed(e) == Fulfilled(e, "CloseSend", Len(sent[e]) + 1)

(* The two promises close waits for.                                       *)
QueuesClosed(e) == /\ Fulfilled(e, "CloseRecv", recvs[e] + 1)
                   /\ Fulfilled(e, "CloseSend", Len(sent[e]) + 1)

(* Both promises of close are fulfilled: the handle is closed and the      *)
(* channel, with its socket and queues, is deallocated.                    *)
CloseReturn(e) ==
  /\ pc[e] = "closing"
  /\ QueuesClosed(e)
  /\ pc' = [pc EXCEPT ![e] = "closed"]
  /\ UNCHANGED <<userVars, sendVars, recvVars, wire, kept, stats>>

(***************************************************************************)
(* When an operation is started: by dispatch if it finds the queue empty,  *)
(* by the pop of its predecessor otherwise.                                *)
(***************************************************************************)

(* Bug: dispatch starts every operation it pushes.                         *)
StartsAlways(q) == Len(q) >= 1

StartsNow(q) == Len(q) = 1

(* Bug: the pop looks at the queue before it removes the front.            *)
StopsEarly(q) == Len(q) > 1

MoreToDo(q) == q # << >>

(***************************************************************************)
(* The send side: dispatch, sendOne and its handlers.                      *)
(***************************************************************************)

(* sendOne on a queue q: a data operation starts a write, a close is       *)
(* popped and its promise fulfilled, and nothing is started behind it.     *)
SendOne(e, q) ==
  \/ /\ Head(q).type = "SendData"
     /\ mSendQueue' = [mSendQueue EXCEPT ![e] = q]
     /\ writing' = [writing EXCEPT ![e] = "header"]
     /\ UNCHANGED kept
  \/ /\ Head(q).type = "CloseSend"
     /\ mSendQueue' = [mSendQueue EXCEPT ![e] = Tail(q)]
     /\ writing' = [writing EXCEPT ![e] = "idle"]
     /\ kept' = [kept EXCEPT ![e] = @ \cup {Kept(Head(q), "value")}]

(* The counters after a send has been queued.                              *)
Charged(op, s) ==
  LET now == s.outstanding + op.size
  IN [outstanding |-> now, maxOut |-> IF now > s.maxOut THEN now ELSE s.maxOut,
      out |-> s.out + op.size, in |-> s.in]

(* The handler dispatch posts to mSendStrand.                              *)
PushSend(e) ==
  /\ Alive(e)
  /\ sendStrand[e] # << >>
  /\ LET op == Head(sendStrand[e])
         q  == Append(mSendQueue[e], op)
     IN /\ IF StartsNow(q)
             THEN SendOne(e, q)
             ELSE /\ mSendQueue' = [mSendQueue EXCEPT ![e] = q]
                  /\ UNCHANGED <<writing, kept>>
        /\ stats' = [stats EXCEPT ![e] = Charged(op, @)]
  /\ sendStrand' = [sendStrand EXCEPT ![e] = Tail(@)]
  /\ UNCHANGED <<userVars, pc, recvVars, wire>>

(* async_write hands the header, then the body, to the kernel, which takes *)
(* them while it has room.  A peer that closed takes anything.             *)
Write(e) ==
  /\ Alive(e)
  /\ writing[e] \in {"header", "body"}
  /\ Len(wire[e]) < WireCap \/ ~Open(Peer(e))
  /\ wire' = [wire EXCEPT ![e] = Append(@, Part(writing[e], Head(mSendQueue[e])))]
  /\ writing' = [writing EXCEPT ![e] =
       IF @ = "header" THEN "body" ELSE "written"]
  /\ UNCHANGED <<userVars, pc, sendStrand, mSendQueue, recvVars, kept, stats>>

(* Bug: only synchronous sends are taken off the outstanding bytes.        *)
UnchargedIfSync(op, outstanding) ==
  IF op.flag THEN outstanding - op.size ELSE outstanding

Uncharged(op, outstanding) == outstanding - op.size

(* The completion handler of the write, which runs outside the strand.     *)
WriteDone(e) ==
  /\ Alive(e)
  /\ writing[e] = "written"
  /\ LET op == Head(mSendQueue[e]) IN
       /\ stats' = [stats EXCEPT ![e].outstanding = Uncharged(op, @)]
       /\ kept' = [kept EXCEPT ![e] =
            IF op.flag THEN @ \cup {Kept(op, "value")} ELSE @]
  /\ writing' = [writing EXCEPT ![e] = "pop"]
  /\ UNCHANGED <<userVars, pc, sendStrand, mSendQueue, recvVars, wire>>

(* The pop that handler dispatched to the strand.  The strand may run it   *)
(* before or after the pushes that wait there.                             *)
PopSend(e) ==
  /\ Alive(e)
  /\ writing[e] = "pop"
  /\ LET q == Tail(mSendQueue[e]) IN
       IF MoreToDo(q)
         THEN SendOne(e, q)
         ELSE /\ mSendQueue' = [mSendQueue EXCEPT ![e] = q]
              /\ writing' = [writing EXCEPT ![e] = "idle"]
              /\ UNCHANGED kept
  /\ UNCHANGED <<userVars, pc, sendStrand, recvVars, wire, stats>>

(***************************************************************************)
(* The receive side: dispatch, receiveOne and its handlers.                *)
(***************************************************************************)

ReceiveOne(e, q) ==
  \/ /\ Head(q).type = "RecvData"
     /\ mRecvQueue' = [mRecvQueue EXCEPT ![e] = q]
     /\ reading' = [reading EXCEPT ![e] = "header"]
     /\ UNCHANGED kept
  \/ /\ Head(q).type = "CloseRecv"
     /\ mRecvQueue' = [mRecvQueue EXCEPT ![e] = Tail(q)]
     /\ reading' = [reading EXCEPT ![e] = "idle"]
     /\ kept' = [kept EXCEPT ![e] = @ \cup {Kept(Head(q), "value")}]

PushRecv(e) ==
  /\ Alive(e)
  /\ recvStrand[e] # << >>
  /\ LET op == Head(recvStrand[e])
         q  == Append(mRecvQueue[e], op)
     IN /\ IF StartsNow(q)
             THEN ReceiveOne(e, q)
             ELSE /\ mRecvQueue' = [mRecvQueue EXCEPT ![e] = q]
                  /\ UNCHANGED <<reading, kept>>
        /\ stats' = [stats EXCEPT ![e].in = @ + op.size]
  /\ recvStrand' = [recvStrand EXCEPT ![e] = Tail(@)]
  /\ UNCHANGED <<userVars, pc, sendVars, wire, got>>

(* The header has been read into mSize.  A buffer of fixed size that does  *)
(* not fit ends the operation: its promise gets current_exception(), which *)
(* is empty there, the operation stays at the front and nothing follows.   *)
ReadHeader(e) ==
  /\ Alive(e)
  /\ reading[e] = "header"
  /\ wire[Peer(e)] # << >>
  /\ LET op  == Head(mRecvQueue[e])
         len == Head(wire[Peer(e)]).size
         fits == op.flag => op.size = len
     IN /\ reading' = [reading EXCEPT ![e] = IF fits THEN "body" ELSE "stuck"]
        /\ kept' = [kept EXCEPT ![e] =
             IF fits THEN @ ELSE @ \cup {Kept(op, "null")}]
        /\ mRecvQueue' = [mRecvQueue EXCEPT ![e][1].size = len]
  /\ wire' = [wire EXCEPT ![Peer(e)] = Tail(@)]
  /\ UNCHANGED <<userVars, pc, sendVars, recvStrand, got, stats>>

(* The body is in the buffer and the promise is fulfilled, both outside    *)
(* the strand and before the pop is dispatched to it.                      *)
ReadBody(e) ==
  /\ Alive(e)
  /\ reading[e] = "body"
  /\ wire[Peer(e)] # << >>
  /\ LET op   == Head(mRecvQueue[e])
         part == Head(wire[Peer(e)])
     IN /\ got' = [got EXCEPT ![e] = Append(@,
             [recv |-> op.nth, msg |-> part.nth, len |-> op.size])]
        /\ kept' = [kept EXCEPT ![e] = @ \cup {Kept(op, "value")}]
  /\ reading' = [reading EXCEPT ![e] = "pop"]
  /\ wire' = [wire EXCEPT ![Peer(e)] = Tail(@)]
  /\ UNCHANGED <<userVars, pc, sendVars, recvStrand, mRecvQueue, stats>>

PopRecv(e) ==
  /\ Alive(e)
  /\ reading[e] = "pop"
  /\ LET q == Tail(mRecvQueue[e]) IN
       IF MoreToDo(q)
         THEN ReceiveOne(e, q)
         ELSE /\ mRecvQueue' = [mRecvQueue EXCEPT ![e] = q]
              /\ reading' = [reading EXCEPT ![e] = "idle"]
              /\ UNCHANGED kept
  /\ UNCHANGED <<userVars, pc, sendVars, recvStrand, got, wire, stats>>

(***************************************************************************)
(* Failures.  A handler that sees an error throws out of io_service::run,  *)
(* which terminates the process; its peer then finds the socket closed.    *)
(***************************************************************************)

ReadFails(e) ==
  /\ Open(e) /\ ~Open(Peer(e))
  /\ reading[e] \in {"header", "body"}
  /\ wire[Peer(e)] = << >>
  /\ pc' = [pc EXCEPT ![e] = "dead"]
  /\ UNCHANGED <<userVars, sendVars, recvVars, wire, kept, stats>>

WriteFails(e) ==
  /\ Open(e) /\ ~Open(Peer(e))
  /\ writing[e] \in {"header", "body"}
  /\ pc' = [pc EXCEPT ![e] = "dead"]
  /\ UNCHANGED <<userVars, sendVars, recvVars, wire, kept, stats>>

(* TCP: a socket closed with unread bytes resets the connection, and what  *)
(* it had sent and the peer not read may be lost, the last bytes first.    *)
Reset(e) ==
  /\ ~Open(e)
  /\ wire[Peer(e)] # << >>
  /\ \E n \in 0..(Len(wire[e]) - 1) :
       wire' = [wire EXCEPT ![e] = SubSeq(@, 1, n)]
  /\ UNCHANGED <<userVars, pc, sendVars, recvVars, kept, stats>>

UserStep(e) == Send(e) \/ Recv(e) \/ Return(e) \/ Close(e) \/ CloseReturn(e)
SendStep(e) == PushSend(e) \/ Write(e) \/ WriteDone(e) \/ PopSend(e)
RecvStep(e) == PushRecv(e) \/ ReadHeader(e) \/ ReadBody(e) \/ PopRecv(e)
Failure(e)  == ReadFails(e) \/ WriteFails(e) \/ Reset(e)

Next == \E e \in Ends : UserStep(e) \/ SendStep(e) \/ RecvStep(e) \/ Failure(e)

Spec == Init /\ [][Next]_vars

(* Every thread that can go on does: the user thread between two calls,    *)
(* and the io_service threads on each strand and completion.               *)
Fairness == \A e \in Ends :
  /\ WF_vars(UserStep(e))
  /\ WF_vars(PushSend(e)) /\ WF_vars(Write(e) \/ WriteDone(e) \/ PopSend(e))
  /\ WF_vars(PushRecv(e)) /\ WF_vars(ReadHeader(e) \/ ReadBody(e) \/ PopRecv(e))

FairSpec == Spec /\ Fairness

(***************************************************************************)
(* Types.                                                                  *)
(***************************************************************************)

SendOp == [type : {"SendData", "CloseSend"}, nth : Nat, size : Nat, flag : BOOLEAN]
RecvOp == [type : {"RecvData", "CloseRecv"}, nth : Nat, size : Nat, flag : BOOLEAN]
Promise == {"SendData", "CloseSend", "RecvData", "CloseRecv"} \X Nat
             \X {"value", "null"}
WirePart == [kind : {"header", "body"}, nth : Nat, size : Nat]
Receipt  == [recv : Nat, msg : Nat, len : Nat]
Counters == [outstanding : Int, maxOut : Int, out : Int, in : Int]

(* The shape of the state: which values a program counter and the progress *)
(* of a read or write take, and which operations travel on which side.     *)
UserTypeOK ==
  /\ todo \in [Ends -> Seq(Call)]
  /\ pc \in [Ends -> {"run", "waitSend", "waitRecv", "closing", "closed", "dead"}]
  /\ sent \in [Ends -> Seq(Nat)]
  /\ recvs \in [Ends -> Nat]
SendTypeOK ==
  /\ sendStrand \in [Ends -> Seq(SendOp)]
  /\ mSendQueue \in [Ends -> Seq(SendOp)]
  /\ writing \in [Ends -> {"idle", "header", "body", "written", "pop"}]
RecvTypeOK ==
  /\ recvStrand \in [Ends -> Seq(RecvOp)]
  /\ mRecvQueue \in [Ends -> Seq(RecvOp)]
  /\ reading \in [Ends -> {"idle", "header", "body", "pop", "stuck"}]
WireTypeOK == wire \in [Ends -> Seq(WirePart)]
KeptTypeOK == kept \in [Ends -> SUBSET Promise]
GotTypeOK  == got \in [Ends -> Seq(Receipt)]
StatsTypeOK == stats \in [Ends -> Counters]
TypeOK == /\ UserTypeOK /\ SendTypeOK /\ RecvTypeOK /\ WireTypeOK
          /\ KeptTypeOK /\ GotTypeOK /\ StatsTypeOK

(***************************************************************************)
(* Safety.                                                                 *)
(***************************************************************************)

(* The two queues never stall: a queue holds an operation exactly while a  *)
(* read or write for its front, or the pop after it, is under way, and     *)
(* that front is a data operation, never a close.  dispatch starts an      *)
(* operation only when it finds the queue empty, the pop starts the next   *)
(* one only when it leaves the queue non-empty, and neither may miss.      *)
QueueDriven == \A e \in Ends :
  /\ mSendQueue[e] = << >> <=> writing[e] = "idle"
  /\ mRecvQueue[e] = << >> <=> reading[e] = "idle"
  /\ writing[e] # "idle" => Head(mSendQueue[e]).type = "SendData"
  /\ reading[e] # "idle" => Head(mRecvQueue[e]).type = "RecvData"

(* The nth receive of an end that is fulfilled with data holds the nth     *)
(* message of its peer, with that message's length: nothing is lost,       *)
(* duplicated, reordered or cut short on the way through two strands, two  *)
(* queues and the socket, even when a peer dies in the middle.             *)
InOrder(e) ==
  /\ Len(got[e]) <= Len(sent[Peer(e)])
  /\ Len(got[e]) <= recvs[e]
  /\ \A k \in 1..Len(got[e]) :
       got[e][k] = [recv |-> k, msg |-> k, len |-> sent[Peer(e)][k]]
FifoDelivery == \A e \in Ends : InOrder(e)

(* When close() closes the handle and deallocates the channel, "the send   *)
(* and recv queues are empty": no operation, posted handler, read or write *)
(* is left that would touch the socket, and every receive was fulfilled.   *)
CleanClose == \A e \in Ends : pc[e] = "closed" =>
  /\ sendStrand[e] = << >> /\ mSendQueue[e] = << >> /\ writing[e] = "idle"
  /\ recvStrand[e] = << >> /\ mRecvQueue[e] = << >> /\ reading[e] = "idle"
  /\ Len(got[e]) = recvs[e]

(* send() and close() put the promise of their operation on their stack.   *)
(* As long as the promise can still be fulfilled, in the strand, in the    *)
(* queue or by the write under way, the thread is still inside that call.  *)
StackPromiseAlive == \A e \in Ends : Alive(e) =>
  LET pending(s, from) == {s[i] : i \in from..Len(s)}
      first == IF writing[e] = "pop" THEN 2 ELSE 1
      sends == pending(sendStrand[e], 1) \cup pending(mSendQueue[e], first)
      recvOps == pending(recvStrand[e], 1) \cup pending(mRecvQueue[e], 1)
  IN /\ \A op \in sends :
          /\ op.type = "SendData" /\ op.flag => pc[e] = "waitSend"
          /\ op.type = "CloseSend" => pc[e] = "closing"
     /\ \A op \in recvOps : op.type = "CloseRecv" => pc[e] = "closing"

(* A send() that returns has flushed: its message and all the messages     *)
(* the end had sent asynchronously before it are in the hands of the       *)
(* kernel, so their buffers may be reused.                                 *)
SendFlushes ==
  [][\A e \in Ends : pc[e] = "waitSend" /\ pc'[e] = "run" =>
       /\ sendStrand[e] = << >>
       /\ mSendQueue[e] = << >> \/ (Len(mSendQueue[e]) = 1 /\ writing[e] = "pop")]_vars

(* The bytes of the first i operations of a queue, for every i.            *)
BytesUpTo(q) ==
  LET total[i \in 0..Len(q)] == IF i = 0 THEN 0 ELSE total[i - 1] + q[i].size
  IN total

Bytes(q) == BytesUpTo(q)[Len(q)]

(* mOutstandingSendData is the bytes of the messages that are queued and   *)
(* whose write has not completed.  It is an unsigned counter that          *)
(* completion handlers decrement, so it must never be charged twice.       *)
OutstandingAt(e) ==
  LET done == IF writing[e] = "pop" THEN Head(mSendQueue[e]).size ELSE 0
  IN /\ stats[e].outstanding = Bytes(mSendQueue[e]) - done
     /\ stats[e].outstanding <= stats[e].maxOut
OutstandingExact == \A e \in Ends : OutstandingAt(e)

(* When each end receives as many messages as the other sends, no handler  *)
(* ever sees an error and so no process is terminated, whichever end       *)
(* closes first.                                                           *)
NoFailure == \A e \in Ends : pc[e] # "dead"

(* A receive into a buffer of the wrong length throws: this is what        *)
(* Channel.h:71 and BtChannel.h:55 promise ("will through if received      *)
(* message length does not match").                                        *)
MismatchThrows == \A e \in Ends : \A p \in kept[e] :
  p[1] = "RecvData" /\ p[3] # "exception" =>
    \E k \in 1..Len(got[e]) : got[e][k].recv = p[2]

(***************************************************************************)
(* Liveness.                                                               *)
(***************************************************************************)

(* When the two programs match call by call, both ends get through all     *)
(* their calls and close() returns at both: no blocked send, receive or    *)
(* close waits for ever, however little the kernels buffer.                *)
BothClose == <>(\A e \in Ends : pc[e] = "closed")

(***************************************************************************)
(* The pipe this module implements: a message is its number and length.    *)
(***************************************************************************)

PipeSent == [e \in Ends |-> [k \in 1..Len(sent[e]) |-> <<k, sent[e][k]>>]]
PipeGot  == [e \in Ends |->
               [k \in 1..Len(got[e]) |-> <<got[e][k].msg, got[e][k].len>>]]
PipeLeft == [e \in Ends |-> ~Open(e)]

(* The messages the programs can send.                                     *)
Message == (UNION {DOMAIN p[e] : p \in Plans, e \in Ends})
             \X UNION {{p[e][i].size : i \in DOMAIN p[e]} : p \in Plans, e \in Ends}

Pipe == INSTANCE FifoPipe WITH Msg <- Message, sent <- PipeSent,
                               got <- PipeGot, left <- PipeLeft

(* The socket machinery implements the ordered reliable pipe.              *)
ImplementsPipe == Pipe!PipeSpec

(***************************************************************************)
(* The inductive invariant behind QueueDriven, CleanClose and FifoDelivery.*)
(* First layer: a close is the last operation of its side.  Second layer:  *)
(* operations and parts are numbered consecutively through the strand, the *)
(* queue, the wire and the receipts.                                       *)
(***************************************************************************)
Calling == {"run", "waitSend", "waitRecv"}

SendCloseLast == \A e \in Ends :
  /\ \A i \in 1..Len(sendStrand[e]) : sendStrand[e][i].type = "CloseSend" =>
       i = Len(sendStrand[e]) /\ pc[e] \notin Calling
  /\ \A i \in 1..Len(mSendQueue[e]) : mSendQueue[e][i].type = "CloseSend" =>
       i = Len(mSendQueue[e]) /\ sendStrand[e] = << >> /\ pc[e] \notin Calling
  /\ (\E p \in kept[e] : p[1] = "CloseSend") =>
       sendStrand[e] = << >> /\ mSendQueue[e] = << >> /\ pc[e] \notin Calling
  /\ pc[e] = "closed" => \E p \in kept[e] : p[1] = "CloseSend"

RecvCloseLast == \A e \in Ends :
  /\ \A i \in 1..Len(recvStrand[e]) : recvStrand[e][i].type = "CloseRecv" =>
       i = Len(recvStrand[e]) /\ pc[e] \notin Calling
  /\ \A i \in 1..Len(mRecvQueue[e]) : mRecvQueue[e][i].type = "CloseRecv" =>
       i = Len(mRecvQueue[e]) /\ recvStrand[e] = << >> /\ pc[e] \notin Calling
  /\ (\E p \in kept[e] : p[1] = "CloseRecv") =>
       recvStrand[e] = << >> /\ mRecvQueue[e] = << >> /\ pc[e] \notin Calling
  /\ pc[e] = "closed" => \E p \in kept[e] : p[1] = "CloseRecv"

CoreInv == TypeOK /\ QueueDriven /\ SendCloseLast /\ RecvCloseLast

(* The parts of the front message that e has written, the parts e has read *)
(* in all, and the receives e has popped.                                  *)
PartsWritten(e) == IF writing[e] \in {"written", "pop"} THEN 2
                   ELSE IF writing[e] = "body" THEN 1 ELSE 0
PartsRead(e) == 2 * Len(got[e]) + (IF reading[e] \in {"body", "stuck"} THEN 1 ELSE 0)
RecvsPopped(e) == Len(got[e]) - (IF reading[e] = "pop" THEN 1 ELSE 0)

(* Twice the number of sends popped, seen from the other side of the wire. *)
TwicePopped(e) == PartsRead(Peer(e)) + Len(wire[e]) - PartsWritten(e)

SendChain(e) == Open(e) =>
  /\ \A i \in 1..Len(mSendQueue[e]) :
       2 * (mSendQueue[e][i].nth - i) = TwicePopped(e)
  /\ \A i \in 1..Len(sendStrand[e]) :
       2 * (sendStrand[e][i].nth - i - Len(mSendQueue[e])) = TwicePopped(e)
  /\ pc[e] \in Calling =>
       2 * (Len(sent[e]) - Len(mSendQueue[e]) - Len(sendStrand[e])) = TwicePopped(e)

IsMessage(e, x) == x.nth \in 1..Len(sent[e]) /\ x.size = sent[e][x.nth]

SendSizes(e) ==
  /\ \A i \in 1..Len(mSendQueue[e]) :
       mSendQueue[e][i].type = "SendData" => IsMessage(e, mSendQueue[e][i])
  /\ \A i \in 1..Len(sendStrand[e]) :
       sendStrand[e][i].type = "SendData" => IsMessage(e, sendStrand[e][i])

(* The place of a part among all the parts of its direction.               *)
PartPlace(x) == 2 * x.nth - (IF x.kind = "header" THEN 1 ELSE 0)

WireChain(e) == \A i \in 1..Len(wire[e]) :
  /\ PartPlace(wire[e][i]) = PartsRead(Peer(e)) + i
  /\ IsMessage(e, wire[e][i])

RecvChain(e) ==
  /\ \A i \in 1..Len(mRecvQueue[e]) :
       mRecvQueue[e][i].nth = RecvsPopped(e) + i
  /\ \A i \in 1..Len(recvStrand[e]) :
       recvStrand[e][i].nth = RecvsPopped(e) + Len(mRecvQueue[e]) + i
  /\ pc[e] \in Calling =>
       recvs[e] = RecvsPopped(e) + Len(mRecvQueue[e]) + Len(recvStrand[e])

NthRecv(e, op) == IF op.type = "RecvData" THEN op.nth \in 1..recvs[e]
                                          ELSE op.nth = recvs[e] + 1

RecvCount(e) ==
  /\ \A i \in 1..Len(mRecvQueue[e]) : NthRecv(e, mRecvQueue[e][i])
  /\ \A i \in 1..Len(recvStrand[e]) : NthRecv(e, recvStrand[e][i])
  /\ (\E p \in kept[e] : p[1] = "CloseRecv") => Len(got[e]) = recvs[e]

(* Between header and body the operation holds the length of the message.  *)
HeaderRead(e) == reading[e] = "body" =>
  /\ Len(got[e]) < Len(sent[Peer(e)])
  /\ mRecvQueue[e][1].size = sent[Peer(e)][Len(got[e]) + 1]

FifoAt(e) == /\ SendChain(e) /\ SendSizes(e) /\ WireChain(e)
             /\ RecvChain(e) /\ RecvCount(e) /\ HeaderRead(e) /\ InOrder(e)

FifoInv == \A e \in Ends : FifoAt(e)

(***************************************************************************)
(* The invariants behind StackPromiseAlive, SendFlushes and ImplementsPipe.*)
(***************************************************************************)

(* A send whose write has not completed is unfulfilled, and if it is       *)
(* synchronous it is the last one and the thread waits for it.             *)
Awaited(e, op) == op.type = "SendData" =>
  /\ ~Fulfilled(e, "SendData", op.nth)
  /\ op.flag => pc[e] = "waitSend" /\ op.nth = Len(sent[e])

StackAt(e) == Alive(e) =>
  /\ \A p \in kept[e] : p[1] = "SendData" => p[2] <= Len(sent[e])
  /\ \A i \in 1..Len(sendStrand[e]) : Awaited(e, sendStrand[e][i])
  /\ \A i \in 1..Len(mSendQueue[e]) :
       i # 1 \/ writing[e] # "pop" => Awaited(e, mSendQueue[e][i])

StackInv == \A e \in Ends : StackAt(e)

(* A close carries no bytes.                                               *)
ClosesEmpty(e) ==
  /\ \A i \in 1..Len(sendStrand[e]) :
       sendStrand[e][i].type = "CloseSend" => sendStrand[e][i].size = 0
  /\ \A i \in 1..Len(mSendQueue[e]) :
       mSendQueue[e][i].type = "CloseSend" => mSendQueue[e][i].size = 0

OutstandingInv == \A e \in Ends : ClosesEmpty(e) /\ OutstandingAt(e)

(* The calls of one kind in a list of calls, and programs of which each    *)
(* end receives as many messages as the other sends.                       *)
Count(calls, kind) == Cardinality({i \in 1..Len(calls) : calls[i].op = kind})
Balanced(p) == \A e \in Ends : Count(p[e], "send") = Count(p[Peer(e)], "recv")

(* The balance of what was called and what is left to call; a close comes  *)
(* when nothing is left, has the number after the last send, and is        *)
(* fulfilled when all sends have been popped.                              *)
MatchAt(e) ==
  /\ Alive(e)
  /\ pc[e] \notin Calling => todo[e] = << >>
  /\ Len(sent[e]) + Count(todo[e], "send")
       = recvs[Peer(e)] + Count(todo[Peer(e)], "recv")
  /\ \A i \in 1..Len(sendStrand[e]) :
       sendStrand[e][i].type = "CloseSend" => sendStrand[e][i].nth = Len(sent[e]) + 1
  /\ \A i \in 1..Len(mSendQueue[e]) :
       mSendQueue[e][i].type = "CloseSend" => mSendQueue[e][i].nth = Len(sent[e]) + 1
  /\ (\E p \in kept[e] : p[1] = "CloseSend") => TwicePopped(e) = 2 * Len(sent[e])

MatchInv == \A e \in Ends : MatchAt(e)

(* What an end has still to do is the end of its program, and it sent at   *)
(* most one message for each call before.                                  *)
PlanOf(p, e) == /\ Len(todo[e]) + Len(sent[e]) <= Len(p[e])
                /\ \A i \in 1..Len(todo[e]) :
                     todo[e][i] = p[e][Len(p[e]) - Len(todo[e]) + i]

PlanInv == \E p \in Plans : \A e \in Ends : PlanOf(p, e)
=============================================================================
