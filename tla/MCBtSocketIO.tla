---------------------------- MODULE MCBtSocketIO ----------------------------
(***************************************************************************)
(* Programs for the two ends of BtSocketIO.                                *)
(***************************************************************************)
EXTENDS BtSocketIO

CONSTANTS MaxCalls,   (* the calls an end makes before close               *)
          MsgSizes    (* the lengths of messages                           *)

SendCall(sync, size) == [op |-> "send", sync |-> sync, size |-> size]
RecvCall(sync, size) == [op |-> "recv", sync |-> sync, size |-> size]

(* Programs that match call by call: at each step one end sends a message  *)
(* and the other receives it, into a buffer of that length or a resizable  *)
(* one (size 0).  This is how every protocol of the repository uses its    *)
(* channels.                                                               *)
Step == [from : Ends, sendSync : BOOLEAN, recvSync : BOOLEAN,
         size : MsgSizes, fixed : BOOLEAN]

DualPlan(steps) == [e \in Ends |->
  [i \in DOMAIN steps |->
     IF steps[i].from = e
       THEN SendCall(steps[i].sendSync, steps[i].size)
       ELSE RecvCall(steps[i].recvSync,
                     IF steps[i].fixed THEN steps[i].size ELSE 0)]]

DualPlans == {DualPlan(s) : s \in UNION {[1..n -> Step] : n \in 0..MaxCalls}}

(* Programs that exchange messages: each end first sends all its messages  *)
(* asynchronously, whatever the other does, and then receives the other's. *)
ExchangePlan(a, b, sync, size) == [e \in Ends |->
  LET mine == IF e = 0 THEN a ELSE b
  IN [i \in 1..mine |-> SendCall(FALSE, size)]
       \o [i \in 1..(a + b - mine) |-> RecvCall(sync, size)]]

MatchingPlans == DualPlans \cup
  {ExchangePlan(a, b, sync, size) :
     a \in 1..MaxCalls, b \in 1..MaxCalls, sync \in BOOLEAN, size \in MsgSizes}

ASSUME MatchingAssumption == \A p \in MatchingPlans : Balanced(p)

(* Any two programs: the calls of one end need not answer those of the     *)
(* other, so ends block for ever, close early or find the socket closed.   *)
Calls == {SendCall(s, n) : s \in BOOLEAN, n \in MsgSizes}
           \cup {RecvCall(s, n) : s \in BOOLEAN, n \in MsgSizes \cup {0}}

AnyPlans == [Ends -> UNION {[1..n -> Calls] : n \in 0..MaxCalls}]
=============================================================================
