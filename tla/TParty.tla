------------------------------- MODULE TParty -------------------------------
(***************************************************************************)
(* tparty of frontend/OtBinMain.cpp, run by all parties at once.           *)
(*                                                                         *)
(* Each trial has four phases.  In each, a party starts one thread for     *)
(* every party it talks to and joins them: base OTs (init), OPRF keys      *)
(* (oprf), shares of zero between the clients (share), and the sums of the *)
(* clients to the leader (leader).  Parties enter a phase on their own.    *)
(*                                                                         *)
(* A thread is a list of rounds: it waits for a message, if the round      *)
(* awaits one, and then sends one, if it replies.  asyncSend never blocks. *)
(* Channels are the ordered pipes of module FifoPipe.                      *)
(*                                                                         *)
(* A block is the set of random atoms of which it is the XOR.  An OPPRF    *)
(* gives the receiver of an item the value that the sender programmed for  *)
(* it, and a random value when the sender does not hold the item.          *)
(***************************************************************************)
EXTENDS Roles, Sequences, FiniteSets

CONSTANTS
  Items,     (* what the sets of the parties are made of                   *)
  Inputs,    (* what is explored: n, t and the sets of the parties         *)
  Trials,    (* nTrials                                                    *)
  BaseOts    (* whether the phase of the base OTs is explored              *)

ASSUME InputsAssumption == \A i \in Inputs :
  /\ i = [n |-> i.n, t |-> i.t, sets |-> i.sets]
  /\ Usable(i.n, i.t)
  /\ i.sets \in [Parties(i.n) -> SUBSET Items]

ASSUME TrialsAssumption == Trials \in Nat \ {0} /\ BaseOts \in BOOLEAN

VARIABLES
  input,     (* the numbers of parties and of corruptions, and the sets    *)
  trial,     (* trial[p]: the trial party p is in                          *)
  phase,     (* phase[p]: the phase party p is in                          *)
  threads,   (* threads[p]: the threads of p in this phase                 *)
  chan,      (* chan[p][q]: messages on the way from p to q                *)
  recvPay,   (* recvPay[p][k]: what the thread using payload k received    *)
  sum,       (* sum[p]: sendPayLoads[ttParties], the payload to the leader *)
  output     (* history: what the leader found, one set for each trial     *)

vars == <<input, trial, phase, threads, chan, recvPay, sum, output>>

P       == Parties(input.n)
leader  == Leader(input.n)
Pays(p) == 0..(IF p = leader THEN input.n - 2 ELSE tSS(input.n, input.t) - 1)

(***************************************************************************)
(* Payloads.                                                               *)
(***************************************************************************)
Index == 0..(input.n - 1)
Atom  == ({"share"} \X (1..Trials) \X P \X Index \X Items)
           \cup ({"oprf"} \X (1..Trials) \X P \X P \X Items)
Payloads == [Items -> SUBSET Atom]
Zero  == [x \in Items |-> {}]

(* The XOR over the indices in K of the blocks f[k].                       *)
XorOver(f, K) == {a \in UNION {f[k] : k \in K} :
                    Cardinality({k \in K : a \in f[k]}) % 2 = 1}

(* sendPayLoads[k] of client p: random for the clients, and for the leader *)
(* the XOR of those.                                                       *)
Share(tr, p, k) == [x \in Items |-> {<<"share", tr, p, k, x>>}]

(* Bug: the payload for the leader cancels only the first share.           *)
OnlyFirst(tr, p) == Share(tr, p, 0)

LeaderShare(tr, p) == [x \in Items |->
  XorOver([k \in 0..(tSS(input.n, input.t) - 1) |-> Share(tr, p, k)[x]],
          0..(tSS(input.n, input.t) - 1))]

(* Bug: a received payload stays zero when the sender lacks the item.      *)
KeepsZero(p, q, payload) == [x \in Items |->
  IF x \in input.sets[p] /\ x \in input.sets[q] THEN payload[x] ELSE {}]

(* What the OPPRF yields at p: q programmed payload for its own items.     *)
Evaluated(p, q, payload) == [x \in Items |->
  IF x \notin input.sets[p] THEN {}
  ELSE IF x \in input.sets[q] THEN payload[x]
  ELSE {<<"oprf", trial[p], q, p, x>>}]

(***************************************************************************)
(* What the two sides of an OPPRF exchange on their channel.               *)
(***************************************************************************)
Round(await, reply) == <<[await |-> await, reply |-> reply]>>

SenderInit(dual) ==
  Round("none", "point") \o Round("keys", "matrix")
    \o IF dual THEN Round("backMatrix", "none") ELSE << >>
ReceiverInit(dual) ==
  Round("point", "keys") \o Round("matrix", IF dual THEN "backMatrix" ELSE "none")

(* Bug: the sender does not read the corrections.                          *)
SkipsCorrection(dual) == IF dual THEN Round("none", "corr") ELSE << >>

SenderKeys(dual)   == Round("corr", IF dual THEN "corr" ELSE "none")
ReceiverKeys(dual) == Round("none", "corr")
                        \o IF dual THEN Round("corr", "none") ELSE << >>

sendSS == Round("none", "share")
recvSS == Round("share", "none")

(* Bug: both dual partners wait for the other's shares first.              *)
BothWaitFirst(role) == CASE role = "send" -> sendSS
                         [] role = "recv" -> recvSS
                         [] role \in {"dualSend", "dualRecv"} -> recvSS \o sendSS
                         [] OTHER         -> << >>

(* Bug: dual partners deal shares in one direction only.                   *)
OneWay(role) == CASE role \in {"send", "dualSend"} -> sendSS
                  [] role \in {"recv", "dualRecv"} -> recvSS
                  [] OTHER                         -> << >>

shareRounds(role) == CASE role = "send"     -> sendSS
                       [] role = "recv"     -> recvSS
                       [] role = "dualSend" -> sendSS \o recvSS
                       [] role = "dualRecv" -> recvSS \o sendSS
                       [] OTHER             -> << >>

isSender(role) == role \in {"send", "dualSend"}
isBoth(role)   == role \in {"dualSend", "dualRecv"}

Rounds(ph, role) ==
  IF role = "idle" THEN << >>
  ELSE CASE ph = "init" -> IF isSender(role) THEN SenderInit(isBoth(role))
                                             ELSE ReceiverInit(isBoth(role))
         [] ph = "oprf" -> IF isSender(role) THEN SenderKeys(isBoth(role))
                                             ELSE ReceiverKeys(isBoth(role))
         [] OTHER       -> shareRounds(role)

(***************************************************************************)
(* The phases of a party.                                                  *)
(***************************************************************************)

(* The threads that p starts in a phase.  In the share phase the leader    *)
(* has none; in the leader phase a client sends from its main thread.      *)
Spawned(p, ph) ==
  IF p = leader
    THEN IF ph = "share" THEN {} ELSE LeaderThreads(input.n)
    ELSE CASE ph = "leader" -> {Thread(0, leader, tSS(input.n, input.t), "send")}
           [] ph = "share"  -> ClientThreads(input.n, input.t, p, "idle")
           [] OTHER         -> ClientThreads(input.n, input.t, p, "send")

Slots(p, ph) == IF p = leader
                  THEN IF ph = "share" THEN 0 ELSE input.n - 1
                  ELSE IF ph = "leader" THEN 1
                                        ELSE num_threads(input.n, input.t, p)

Started(p, ph) == {[peer |-> th.peer, pay |-> th.pay, slot |-> th.slot,
                    todo |-> Rounds(ph, th.role)] : th \in Spawned(p, ph)}

(* p starts the threads of a phase, or dies in the attempt.                *)
Enter(p, ph) ==
  LET ok == FillSlots(Spawned(p, ph), Slots(p, ph))
  IN /\ phase' = [phase EXCEPT ![p] = IF ok THEN ph ELSE "dead"]
     /\ threads' = [threads EXCEPT ![p] = IF ok THEN Started(p, ph) ELSE {}]

FirstPhase == IF BaseOts THEN "init" ELSE "oprf"

Init ==
  /\ input \in Inputs
  /\ trial = [p \in P |-> 0]
  /\ phase = [p \in P |-> "start"]
  /\ threads = [p \in P |-> {}]
  /\ chan = [p \in P |-> [q \in P |-> << >>]]
  /\ recvPay = [p \in P |-> [k \in Pays(p) |-> Zero]]
  /\ sum = [p \in P |-> Zero]
  /\ output = << >>

(* Fresh shares, bins, OTs and OPPRF objects, then the base OTs.           *)
BeginTrial(p) ==
  /\ phase[p] = "start"
  /\ trial' = [trial EXCEPT ![p] = @ + 1]
  /\ recvPay' = [recvPay EXCEPT ![p] = [k \in Pays(p) |-> Zero]]
  /\ sum' = [sum EXCEPT ![p] = IF p = leader THEN Zero
                                             ELSE LeaderShare(trial[p] + 1, p)]
  /\ Enter(p, FirstPhase)
  /\ UNCHANGED <<input, chan, output>>

(* All threads of the phase can be joined.                                 *)
Joined(p) == \A th \in threads[p] : th.todo = << >>

InitDone(p) == /\ phase[p] = "init" /\ Joined(p)
               /\ Enter(p, "oprf")
               /\ UNCHANGED <<input, trial, chan, recvPay, sum, output>>

OprfDone(p) == /\ phase[p] = "oprf" /\ Joined(p)
               /\ Enter(p, "share")
               /\ UNCHANGED <<input, trial, chan, recvPay, sum, output>>

(* A client adds what it received to the payload for the leader.           *)
ShareDone(p) ==
  /\ phase[p] = "share" /\ Joined(p)
  /\ sum' = [sum EXCEPT ![p] = IF p = leader THEN @ ELSE
       [x \in Items |-> XorOver([k \in Pays(p) \cup {-1} |->
                                   IF k = -1 THEN sum[p][x] ELSE recvPay[p][k][x]],
                                Pays(p) \cup {-1})]]
  /\ Enter(p, "leader")
  /\ UNCHANGED <<input, trial, chan, recvPay, output>>

(* The leader keeps the items at which all the payloads cancel.  The trial *)
(* ends, and with it all the objects that live in the loop.                *)
LeaderDone(p) ==
  /\ phase[p] = "leader" /\ Joined(p)
  /\ output' = IF p # leader THEN output ELSE Append(output,
       {x \in input.sets[p] :
          XorOver([k \in Pays(p) |-> recvPay[p][k][x]], Pays(p)) = {}})
  /\ phase' = [phase EXCEPT ![p] = IF trial[p] < Trials THEN "start" ELSE "done"]
  /\ threads' = [threads EXCEPT ![p] = {}]
  /\ UNCHANGED <<input, trial, chan, recvPay, sum>>

(***************************************************************************)
(* A thread of p does its next round.                                      *)
(***************************************************************************)
Payload(p, th) == IF th.peer = leader THEN sum[p] ELSE Share(trial[p], p, th.pay)

Message(p, th, kind) ==
  [kind |-> kind, body |-> IF kind = "share" THEN Payload(p, th) ELSE Zero]

(* The message a round awaits is there; what it is, nobody checks.         *)
CanRun(p, th) == /\ th.todo # << >>
                 /\ Head(th.todo).await # "none" => chan[th.peer][p] # << >>

RunRound(p, th) ==
  LET q == th.peer
      r == Head(th.todo)
  IN /\ CanRun(p, th)
     /\ threads' = [threads EXCEPT ![p] =
          (@ \ {th}) \cup {[th EXCEPT !.todo = Tail(@)]}]
     /\ chan' = [chan EXCEPT
          ![q][p] = IF r.await = "none" THEN @ ELSE Tail(@),
          ![p][q] = IF r.reply = "none" THEN @
                    ELSE Append(@, Message(p, th, r.reply))]
     /\ recvPay' = [recvPay EXCEPT ![p] = IF r.await # "share" THEN @ ELSE
          [@ EXCEPT ![th.pay] = Evaluated(p, q, Head(chan[q][p]).body)]]
     /\ UNCHANGED <<input, trial, phase, sum, output>>

MainStep(p) == BeginTrial(p) \/ InitDone(p) \/ OprfDone(p) \/ ShareDone(p)
                 \/ LeaderDone(p)
ThreadStep(p) == \E th \in threads[p] : RunRound(p, th)

(* All parties have closed their channels and returned.                    *)
Finished == /\ \A p \in P : phase[p] = "done"
            /\ UNCHANGED vars

Next == (\E p \in P : MainStep(p) \/ ThreadStep(p)) \/ Finished

Spec == Init /\ [][Next]_vars

Everyone == UNION {Parties(i.n) : i \in Inputs}

(* Every thread of every party goes on while it can: they are operating    *)
(* system threads, and a message that was sent arrives.  A thread has      *)
(* finitely many rounds and a phase ends only when all its threads have    *)
(* ended, so it is enough to be fair to the threads of a party together.   *)
FairSpec == Spec /\ \A p \in Everyone : WF_vars(p \in P /\ MainStep(p))
                                        /\ WF_vars(p \in P /\ ThreadStep(p))

(***************************************************************************)
(* Properties.                                                             *)
(***************************************************************************)
Kinds  == {"point", "keys", "matrix", "backMatrix", "corr", "share"}
Phases == {"start", "init", "oprf", "share", "leader", "done", "dead"}

(* Type invariant: threads know an existing peer and slot, and blocks are  *)
(* made of atoms.                                                          *)
TypeOK ==
  /\ input \in Inputs
  /\ trial \in [P -> 0..Trials]
  /\ phase \in [P -> Phases]
  /\ \A p \in P : \A th \in threads[p] :
       /\ th.peer \in P \ {p} /\ th.pay \in Index /\ th.slot \in Nat
       /\ \A i \in 1..Len(th.todo) :
            th.todo[i] \in [await : Kinds \cup {"none"}, reply : Kinds \cup {"none"}]
  /\ \A p, q \in P : \A i \in 1..Len(chan[p][q]) :
       chan[p][q][i] \in [kind : Kinds, body : Payloads]
  /\ \A p \in P : recvPay[p] \in [Pays(p) -> Payloads]
  /\ sum \in [P -> Payloads]
  /\ Len(output) <= Trials /\ \A i \in 1..Len(output) : output[i] \subseteq Items

(* No party is terminated on the way: in every phase, whatever n and t and *)
(* the place on the ring, each slot of pThrds gets exactly one thread.     *)
NoCrash == \A p \in P : phase[p] # "dead"

(* At no time do two threads of a party use one channel, whose operations  *)
(* are meant for one thread at a time, or receive into one payload vector. *)
ThreadsDisjoint == \A p \in P : \A th1, th2 \in threads[p] :
  /\ th1.todo # << >> /\ th2.todo # << >>
  /\ \/ th1.peer = th2.peer
     \/ /\ th1.pay = th2.pay
        /\ "share" \in {th1.todo[i].await : i \in 1..Len(th1.todo)}
        /\ "share" \in {th2.todo[i].await : i \in 1..Len(th2.todo)}
  => th1 = th2

(* Nothing on the channel says which step of which phase or trial a        *)
(* message belongs to.  Still, though parties run ahead of each other, a   *)
(* thread only ever takes a message of the kind it waits for.              *)
KindsMatch == \A p \in P : \A th \in threads[p] :
  CanRun(p, th) /\ Head(th.todo).await # "none"
    => Head(chan[th.peer][p]).kind = Head(th.todo).await

(* "We dont have a guarantee that mT1 will still exist when the network    *)
(* gets around to sending this": sendCorrection sends rows of a matrix     *)
(* that a trial owns.  When a party ends its trial, and frees it, its      *)
(* corrections have all been read.                                         *)
CorrectionsDelivered == [][\A p \in P :
  phase[p] = "leader" /\ phase'[p] # "leader" =>
    \A q \in P : \A i \in 1..Len(chan[p][q]) : chan[p][q][i].kind # "corr"]_vars

(* In every trial the leader outputs the intersection of all sets: the     *)
(* zero shares cancel for every n and t exactly at the common items.       *)
Ideal == INSTANCE IdealPsi WITH sets <- input.sets
ImplementsPsi == Ideal!PsiSpec

(* All trials end: no two parties ever wait for each other.                *)
AllFinish == <>(\A p \in P : phase[p] = "done")

(***************************************************************************)
(* The invariants from which the proofs obtain these properties.           *)
(***************************************************************************)
Working == {"init", "oprf", "share", "leader"}

(* A party works on a trial from its beginning to its end, and the leader  *)
(* has an output for every trial it has left behind.                       *)
TrialInv ==
  /\ \A p \in P : /\ phase[p] = "start" => trial[p] < Trials
                  /\ phase[p] \in Working => trial[p] >= 1
  /\ Len(output) = IF phase[leader] \in Working THEN trial[leader] - 1 ELSE trial[leader]

(* The rounds of p with q in a phase, and what is left of them.            *)
Talk(p, q)       == \E s \in Spawned(p, "oprf") : s.peer = q
Agenda(p, q, ph) == IF \E s \in Spawned(p, ph) : s.peer = q
                    THEN Rounds(ph, (CHOOSE s \in Spawned(p, ph) : s.peer = q).role)
                    ELSE << >>
Left(p, q)       == IF \E th \in threads[p] : th.peer = q
                    THEN (CHOOSE th \in threads[p] : th.peer = q).todo
                    ELSE << >>

(* The kinds of what the at most three rounds of a thread send and await.  *)
Only(kind)    == IF kind = "none" THEN << >> ELSE <<kind>>
SentIn(r, i)  == IF i <= Len(r) THEN Only(r[i].reply) ELSE << >>
ReadIn(r, i)  == IF i <= Len(r) THEN Only(r[i].await) ELSE << >>
Sends(todo)   == SentIn(todo, 1) \o (SentIn(todo, 2) \o SentIn(todo, 3))
Awaits(todo)  == ReadIn(todo, 1) \o (ReadIn(todo, 2) \o ReadIn(todo, 3))

(* What p sends to q, and what q awaits from p, after a phase of the trial. *)
SendsAfter(p, q, ph) ==
  CASE ph = "init"  -> Sends(Agenda(p, q, "oprf"))
                         \o (Sends(Agenda(p, q, "share")) \o Sends(Agenda(p, q, "leader")))
    [] ph = "oprf"  -> Sends(Agenda(p, q, "share")) \o Sends(Agenda(p, q, "leader"))
    [] ph = "share" -> Sends(Agenda(p, q, "leader"))
    [] OTHER        -> << >>
AwaitsAfter(q, p, ph) ==
  CASE ph = "init"  -> Awaits(Agenda(q, p, "oprf"))
                         \o (Awaits(Agenda(q, p, "share")) \o Awaits(Agenda(q, p, "leader")))
    [] ph = "oprf"  -> Awaits(Agenda(q, p, "share")) \o Awaits(Agenda(q, p, "leader"))
    [] ph = "share" -> Awaits(Agenda(q, p, "leader"))
    [] OTHER        -> << >>

StillSends(p, q)  == Sends(Left(p, q)) \o SendsAfter(p, q, phase[p])
StillAwaits(q, p) == Awaits(Left(q, p)) \o AwaitsAfter(q, p, phase[q])

(* What p sends to q in a trial, which is what q awaits from p.            *)
AllSends(p, q)  == Sends(Agenda(p, q, FirstPhase)) \o SendsAfter(p, q, FirstPhase)
AllAwaits(q, p) == Awaits(Agenda(q, p, FirstPhase)) \o AwaitsAfter(q, p, FirstPhase)

(* With c on the way, s to be sent and r to be read in the trials tp and   *)
(* tq of the two sides, and all in a full trial, nothing is left over.     *)
Flow(c, s, r, all, tp, tq) ==
  /\ tp <= tq + 1
  /\ tp = tq => c \o s = r
  /\ tp < tq => c \o (s \o all) = r
  /\ tq < tp => c \o s = r \o all

KindsOf(messages) == [i \in DOMAIN messages |-> messages[i].kind]

FlowInv == \A p \in P : \A q \in P \ {p} : Talk(p, q) =>
  Flow(KindsOf(chan[p][q]), StillSends(p, q), StillAwaits(q, p), AllSends(p, q),
       trial[p], trial[q])

(* A party awaits no more from a peer than what belongs to a trial, and    *)
(* nothing is ever on the way between parties that do not talk.            *)
WaitInv == \A p, q \in P :
  IF q # p /\ Talk(p, q) THEN Len(StillAwaits(p, q)) <= Len(AllAwaits(p, q))
                         ELSE chan[p][q] = << >>

(***************************************************************************)
(* The invariants behind ImplementsPsi.                                    *)
(***************************************************************************)

(* Who deals shares to whom, and which.                                    *)
Receives(s)  == s.role \in {"recv", "dualSend", "dualRecv"}
Deals(p, q)  == \E s \in Spawned(p, "share") :
                  s.peer = q /\ s.role \in {"send", "dualSend", "dualRecv"}
PayTo(p, q)  == (CHOOSE s \in Spawned(p, "share") : s.peer = q).pay
ShareAtom(tr, p, k, x) == <<"share", tr, p, k, x>>
OprfAtom(tr, p, q, x)  == <<"oprf", tr, p, q, x>>

(* What client q gets from its dealer p for item x of its set, and what a  *)
(* client p sends on to the leader for it: its own shares and all it got.  *)
Mark(tr, p, q, x)  == IF x \in input.sets[p] THEN ShareAtom(tr, p, PayTo(p, q), x)
                                             ELSE OprfAtom(tr, p, q, x)
Own(tr, p, x)      == {ShareAtom(tr, p, k, x) : k \in 0..(tSS(input.n, input.t) - 1)}
Total(tr, p, x)    == Own(tr, p, x) \cup {Mark(tr, d, p, x) : d \in {e \in P : Deals(e, p)}}

(* What p programs for q, and what q then holds.                           *)
Body(tr, p, q, x)  == IF q = leader THEN Total(tr, p, x)
                                    ELSE {ShareAtom(tr, p, PayTo(p, q), x)}
Given(tr, p, q, x) == IF x \in input.sets[p] THEN Body(tr, p, q, x)
                                             ELSE {OprfAtom(tr, p, q, x)}

SumInv == \A p \in P \ {leader} : phase[p] \in Working =>
  IF phase[p] = "leader"
    THEN \A x \in input.sets[p] : sum[p][x] = Total(trial[p], p, x)
    ELSE \A x \in Items : sum[p][x] = Own(trial[p], p, x)

(* Nobody sends shares in a trial that the other side has not begun, and   *)
(* the shares on the way are those of the trial in which they are read.    *)
ShareInv == \A p \in P : \A q \in P \ {p} : \A i \in 1..Len(chan[p][q]) :
  chan[p][q][i].kind = "share" =>
    /\ trial[q] < trial[p] => i <= Len(StillAwaits(q, p))
    /\ \A x \in input.sets[p] : chan[p][q][i].body[x] = Body(trial[q], p, q, x)

(* A thread that awaits no share any more has filled its payload.          *)
RecvInv == \A p \in P : phase[p] = (IF p = leader THEN "leader" ELSE "share") =>
  \A s \in Spawned(p, phase[p]) : Receives(s) =>
    \/ \E i \in 1..Len(Left(p, s.peer)) : Left(p, s.peer)[i].await = "share"
    \/ \A x \in input.sets[p] : recvPay[p][s.pay][x] = Given(trial[p], s.peer, p, x)

(* What a thread has yet to send of shares is a share dealt to its peer, or *)
(* the sum of a client for the leader.                                     *)
SendInv == \A p \in P : \A th \in threads[p] :
  (\E i \in 1..Len(th.todo) : th.todo[i].reply = "share") =>
    \/ phase[p] = "share" /\ Deals(p, th.peer) /\ PayTo(p, th.peer) = th.pay
    \/ phase[p] = "leader" /\ p # leader /\ th.peer = leader

ValueInv == SumInv /\ ShareInv /\ RecvInv /\ SendInv
=============================================================================
