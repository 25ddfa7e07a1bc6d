------------------------------ MODULE FifoPipe ------------------------------
(***************************************************************************)
(* What a connected pair of channels promises its two users: a reliable,   *)
(* ordered pipe in each direction.  A user hands over messages one after   *)
(* the other, its peer receives exactly those messages in that order, and  *)
(* a user that has left the pipe neither sends nor receives any more.      *)
(* Nothing is said of queues, strands, headers or the socket: BtSocketIO   *)
(* is shown to implement this module.                                      *)
(***************************************************************************)
EXTENDS Integers, Sequences

CONSTANT Msg        (* what can be sent                                    *)

Ends    == {0, 1}   (* the two ends of the pipe                            *)
Peer(e) == 1 - e

VARIABLES sent,     (* sent[e]: the messages e handed over, in order       *)
          got,      (* got[e]: the messages delivered to e, in order       *)
          left      (* left[e]: e uses the pipe no more                    *)

pipeVars == <<sent, got, left>>

PipeInit == /\ sent = [e \in Ends |-> << >>]
            /\ got  = [e \in Ends |-> << >>]
            /\ left = [e \in Ends |-> FALSE]

PipeSend(e) == /\ ~left[e]
               /\ \E m \in Msg : sent' = [sent EXCEPT ![e] = Append(@, m)]
               /\ UNCHANGED <<got, left>>

PipeDeliver(e) == /\ ~left[e]
                  /\ Len(got[e]) < Len(sent[Peer(e)])
                  /\ got' = [got EXCEPT ![e] =
                               Append(@, sent[Peer(e)][Len(@) + 1])]
                  /\ UNCHANGED <<sent, left>>

PipeLeave(e) == /\ ~left[e]
                /\ left' = [left EXCEPT ![e] = TRUE]
                /\ UNCHANGED <<sent, got>>

PipeNext == \E e \in Ends : PipeSend(e) \/ PipeDeliver(e) \/ PipeLeave(e)

PipeSpec == PipeInit /\ [][PipeNext]_pipeVars
=============================================================================
