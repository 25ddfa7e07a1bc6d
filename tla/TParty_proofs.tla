---------------------------- MODULE TParty_proofs ----------------------------
(***************************************************************************)
(* Theorems about TParty, for every set of inputs (numbers of parties,     *)
(* thresholds, sets) and every number of trials: no party is terminated by *)
(* its own threads, no two threads of a party get in each other's way, the *)
(* state has its type, every thread takes the messages it waits for, and   *)
(* all corrections have been read when a party ends its trial.             *)
(*                                                                         *)
(* The invariant of the last two, FlowInv, is about streams: what is on    *)
(* the way from p to q, followed by what p has still to send in its trial, *)
(* is what q has still to await in its trial, up to the whole trial by     *)
(* which one of the two may be ahead.                                      *)
(***************************************************************************)
EXTENDS TParty, Roles_proofs, SequenceTheorems, TLAPS

(***************************************************************************)
(* The threads of a phase.                                                 *)
(***************************************************************************)
LEMMA InputFacts ==
  ASSUME input \in Inputs
  PROVE  /\ Usable(input.n, input.t)
         /\ P = Parties(input.n) /\ leader = Leader(input.n)
         /\ \A p \in P : p # leader => p \in Clients(input.n)
         /\ input.n \in Nat /\ input.n >= 2 /\ leader \in P
  <1>1. Usable(input.n, input.t)
    BY InputsAssumption
  <1>2. P = Parties(input.n) /\ leader = Leader(input.n)
    BY DEF P, leader
  <1>3. input.n \in Nat /\ input.n >= 2
    BY <1>1 DEF Usable
  <1>4. \A p \in P : p # leader => p \in Clients(input.n)
    BY <1>2, <1>3, SMT DEF Parties, Leader, Clients
  <1>5. leader \in P
    BY <1>2, <1>3, SMT DEF Parties, Leader
  <1> QED BY <1>1, <1>2, <1>3, <1>4, <1>5

(* In every phase each slot gets exactly one thread.                       *)
LEMMA PhaseFilled ==
  ASSUME input \in Inputs, NEW p \in P, NEW ph \in Working
  PROVE  FillSlots(Spawned(p, ph), Slots(p, ph))
  <1> USE InputFacts
  <1>1. CASE p = leader /\ ph = "share"
    <2>1. Spawned(p, ph) = {} /\ Slots(p, ph) = 0
      BY <1>1 DEF Spawned, Slots
    <2>2. 0..(0 - 1) = {}
      BY SMT
    <2> QED BY <2>1, <2>2 DEF FillSlots
  <1>2. CASE p = leader /\ ph # "share"
    <2>1. Spawned(p, ph) = LeaderThreads(input.n) /\ Slots(p, ph) = input.n - 1
      BY <1>2 DEF Spawned, Slots
    <2> QED BY <2>1, SlotsFilled
  <1>3. CASE p # leader /\ ph = "leader"
    <2>1. /\ Spawned(p, ph) = {Thread(0, leader, tSS(input.n, input.t), "send")}
          /\ Slots(p, ph) = 1
      BY <1>3 DEF Spawned, Slots
    <2>2. 0..(1 - 1) = {0}
      BY SMT
    <2> QED BY <2>1, <2>2 DEF FillSlots, Thread
  <1>4. CASE p # leader /\ ph # "leader"
    <2>1. /\ \E r : Spawned(p, ph) = ClientThreads(input.n, input.t, p, r)
          /\ Slots(p, ph) = num_threads(input.n, input.t, p)
      BY <1>4 DEF Spawned, Slots
    <2> QED BY <1>4, <2>1, SlotsFilled
  <1> QED BY <1>1, <1>2, <1>3, <1>4

(* In every phase a party has one thread for each of its peers.            *)
LEMMA PhasePeers ==
  ASSUME input \in Inputs, NEW p \in P, NEW ph \in Working
  PROVE  /\ \A s \in Spawned(p, ph) : s.peer \in P \ {p}
         /\ \A s1, s2 \in Spawned(p, ph) : s1.peer = s2.peer => s1 = s2
  <1> USE InputFacts
  <1>1. CASE p = leader
    <2>1. Spawned(p, ph) = {} \/ Spawned(p, ph) = LeaderThreads(input.n)
      BY <1>1 DEF Spawned
    <2>2. \A s \in LeaderThreads(input.n) : s.peer \in P \ {p}
      BY <1>1, SMT DEF LeaderThreads, Thread, Parties, Leader
    <2>3. \A s1, s2 \in LeaderThreads(input.n) : s1.peer = s2.peer => s1 = s2
      BY DEF LeaderThreads, Thread
    <2> QED BY <2>1, <2>2, <2>3
  <1>2. CASE p # leader /\ ph = "leader"
    <2>1. Spawned(p, ph) = {Thread(0, leader, tSS(input.n, input.t), "send")}
      BY <1>2 DEF Spawned
    <2> QED BY <1>2, <2>1 DEF Thread
  <1>3. CASE p # leader /\ ph # "leader"
    <2>1. \E r : Spawned(p, ph) = ClientThreads(input.n, input.t, p, r)
      BY <1>3 DEF Spawned
    <2> QED BY <1>3, <2>1, OnePerPeer
  <1> QED BY <1>1, <1>2, <1>3

(* No two threads of a phase receive into one payload.                     *)
LEMMA PhasePayloads ==
  ASSUME input \in Inputs, NEW p \in P, NEW ph \in Working,
         NEW s1 \in Spawned(p, ph), NEW s2 \in Spawned(p, ph),
         s1.role \in Receiving, s2.role \in Receiving, s1.pay = s2.pay
  PROVE  s1 = s2
  <1> USE InputFacts
  <1>1. CASE p = leader
    <2>1. Spawned(p, ph) = {} \/ Spawned(p, ph) = LeaderThreads(input.n)
      BY <1>1 DEF Spawned
    <2>2. \A x, y \in LeaderThreads(input.n) : x.pay = y.pay => x = y
      BY DEF LeaderThreads, Thread
    <2> QED BY <2>1, <2>2
  <1>2. CASE p # leader /\ ph = "leader"
    <2>1. Spawned(p, ph) = {Thread(0, leader, tSS(input.n, input.t), "send")}
      BY <1>2 DEF Spawned
    <2> QED BY <2>1
  <1>3. CASE p # leader /\ ph # "leader"
    <2>1. \E r : r \notin Receiving /\ Spawned(p, ph) = ClientThreads(input.n, input.t, p, r)
      BY <1>3 DEF Spawned, Receiving
    <2> QED BY <1>3, <2>1, PayloadsApart
  <1> QED BY <1>1, <1>2, <1>3

(***************************************************************************)
(* What the rounds of a thread await.                                      *)
(***************************************************************************)
Some     == Kinds \cup {"none"}
RoundRec == [await : Some, reply : Some]
Awaited(todo) == {todo[i].await : i \in 1..Len(todo)}

LEMMA AwaitedRound ==
  ASSUME NEW a \in Some, NEW b \in Some
  PROVE  Round(a, b) \in Seq(RoundRec) /\ Awaited(Round(a, b)) = {a}
  <1> DEFINE r == [await |-> a, reply |-> b]
  <1>1. r \in RoundRec /\ r.await = a
    BY DEF RoundRec
  <1> HIDE DEF r
  <1>2. <<r>> \in Seq(RoundRec) /\ Len(<<r>>) = 1 /\ <<r>>[1] = r
    BY <1>1
  <1>3. 1..1 = {1}
    BY SMT
  <1>4. Round(a, b) = <<r>>
    BY DEF Round, r
  <1> QED BY <1>1, <1>2, <1>3, <1>4 DEF Awaited

LEMMA AwaitedNothing == << >> \in Seq(RoundRec) /\ Awaited(<< >>) = {}
  <1>1. Len(<< >>) = 0 /\ 1..0 = {}
    BY SMT
  <1> QED BY <1>1 DEF Awaited

LEMMA AwaitedBoth ==
  ASSUME NEW a \in Seq(RoundRec), NEW b \in Seq(RoundRec)
  PROVE  a \o b \in Seq(RoundRec) /\ Awaited(a \o b) = Awaited(a) \cup Awaited(b)
  <1>1. /\ a \o b \in Seq(RoundRec) /\ Len(a \o b) = Len(a) + Len(b)
        /\ Len(a) \in Nat /\ Len(b) \in Nat
    BY ConcatProperties, LenProperties
  <1>2. \A i \in 1..Len(a) : (a \o b)[i] = a[i]
    BY <1>1, SMT
  <1>3. \A i \in 1..Len(b) : (a \o b)[Len(a) + i] = b[i]
    BY <1>1, SMT
  <1>4. \A i \in 1..(Len(a) + Len(b)) : i \in 1..Len(a) \/ \E j \in 1..Len(b) : i = Len(a) + j
    <2> TAKE i \in 1..(Len(a) + Len(b))
    <2>1. CASE i <= Len(a)
      BY <1>1, <2>1, SMT
    <2>2. CASE ~(i <= Len(a))
      <3>1. i - Len(a) \in 1..Len(b) /\ i = Len(a) + (i - Len(a))
        BY <1>1, <2>2, SMT
      <3> QED BY <3>1
    <2> QED BY <2>1, <2>2
  <1>5. \A i \in 1..Len(a) : i \in 1..(Len(a) + Len(b))
    BY <1>1, SMT
  <1>6. \A j \in 1..Len(b) : Len(a) + j \in 1..(Len(a) + Len(b))
    BY <1>1, SMT
  <1>7. Awaited(a \o b) \subseteq Awaited(a) \cup Awaited(b)
    <2> SUFFICES ASSUME NEW i \in 1..(Len(a) + Len(b))
                 PROVE  (a \o b)[i].await \in Awaited(a) \cup Awaited(b)
      BY <1>1 DEF Awaited
    <2>1. CASE i \in 1..Len(a)
      BY <1>2, <2>1, Zenon DEF Awaited
    <2>2. CASE \E j \in 1..Len(b) : i = Len(a) + j
      BY <1>3, <2>2, Zenon DEF Awaited
    <2> QED BY <1>4, <2>1, <2>2
  <1>8. Awaited(a) \subseteq Awaited(a \o b)
    BY <1>1, <1>2, <1>5, Zenon DEF Awaited
  <1>9. Awaited(b) \subseteq Awaited(a \o b)
    BY <1>1, <1>3, <1>6, Zenon DEF Awaited
  <1> QED BY <1>1, <1>7, <1>8, <1>9

LEMMA AwaitedTail ==
  ASSUME NEW a \in Seq(RoundRec), a # << >>
  PROVE  Tail(a) \in Seq(RoundRec) /\ Awaited(Tail(a)) \subseteq Awaited(a)
  <1>1. /\ Tail(a) \in Seq(RoundRec) /\ Len(Tail(a)) = Len(a) - 1 /\ Len(a) \in Nat
        /\ \A i \in 1..Len(Tail(a)) : Tail(a)[i] = a[i + 1]
    BY HeadTailProperties, EmptySeq
  <1>2. \A i \in 1..Len(Tail(a)) : i + 1 \in 1..Len(a)
    BY <1>1, SMT
  <1> QED BY <1>1, <1>2, Zenon DEF Awaited

(* Shares are awaited by the receiving side of an OPPRF only.              *)
LEMMA RoundsOf ==
  ASSUME NEW ph, NEW role
  PROVE  /\ Rounds(ph, role) \in Seq(RoundRec)
         /\ "share" \in Awaited(Rounds(ph, role)) => role \in Receiving
  <1> USE AwaitedNothing
  <1>1. {"none", "point", "keys", "matrix", "backMatrix", "corr", "share"} \subseteq Some
    BY DEF Some, Kinds
  <1>2. ASSUME NEW dual \in BOOLEAN
        PROVE  SenderInit(dual) \in Seq(RoundRec) /\ "share" \notin Awaited(SenderInit(dual))
    <2>1. Round("none", "point") \in Seq(RoundRec) /\ Awaited(Round("none", "point")) = {"none"}
      BY <1>1, AwaitedRound
    <2>2. Round("keys", "matrix") \in Seq(RoundRec) /\ Awaited(Round("keys", "matrix")) = {"keys"}
      BY <1>1, AwaitedRound
    <2>3. /\ Round("backMatrix", "none") \in Seq(RoundRec)
          /\ Awaited(Round("backMatrix", "none")) = {"backMatrix"}
      BY <1>1, AwaitedRound
    <2> DEFINE x == IF dual THEN Round("backMatrix", "none") ELSE << >>
               y == Round("keys", "matrix")
    <2>4. x \in Seq(RoundRec) /\ "share" \notin Awaited(x)
      BY <2>3
    <2>5. SenderInit(dual) = Round("none", "point") \o y \o x
      BY DEF SenderInit
    <2> HIDE DEF x, y
    <2>6. y \in Seq(RoundRec) /\ "share" \notin Awaited(y)
      BY <2>2 DEF y
    <2>7. /\ Round("none", "point") \o y \in Seq(RoundRec)
          /\ "share" \notin Awaited(Round("none", "point") \o y)
      BY <2>1, <2>6, AwaitedBoth
    <2> DEFINE z == Round("none", "point") \o y
    <2>8. SenderInit(dual) = z \o x
      BY <2>5 DEF z
    <2>9. z \in Seq(RoundRec) /\ "share" \notin Awaited(z)
      BY <2>7 DEF z
    <2> HIDE DEF z
    <2>10. z \o x \in Seq(RoundRec) /\ Awaited(z \o x) = Awaited(z) \cup Awaited(x)
      BY <2>4, <2>9, AwaitedBoth
    <2> QED BY <2>4, <2>8, <2>9, <2>10, Zenon
  <1>3. ASSUME NEW dual \in BOOLEAN
        PROVE  ReceiverInit(dual) \in Seq(RoundRec) /\ "share" \notin Awaited(ReceiverInit(dual))
    <2> DEFINE b == IF dual THEN "backMatrix" ELSE "none"
    <2>1. Round("point", "keys") \in Seq(RoundRec) /\ Awaited(Round("point", "keys")) = {"point"}
      BY <1>1, AwaitedRound
    <2>2. Round("matrix", b) \in Seq(RoundRec) /\ Awaited(Round("matrix", b)) = {"matrix"}
      BY <1>1, AwaitedRound
    <2>3. ReceiverInit(dual) = Round("point", "keys") \o Round("matrix", b)
      BY DEF ReceiverInit
    <2> QED BY <2>1, <2>2, <2>3, AwaitedBoth
  <1>4. ASSUME NEW dual \in BOOLEAN
        PROVE  SenderKeys(dual) \in Seq(RoundRec) /\ "share" \notin Awaited(SenderKeys(dual))
    <2> DEFINE b == IF dual THEN "corr" ELSE "none"
    <2>1. Round("corr", b) \in Seq(RoundRec) /\ Awaited(Round("corr", b)) = {"corr"}
      BY <1>1, AwaitedRound
    <2> QED BY <2>1 DEF SenderKeys
  <1>5. ASSUME NEW dual \in BOOLEAN
        PROVE  ReceiverKeys(dual) \in Seq(RoundRec) /\ "share" \notin Awaited(ReceiverKeys(dual))
    <2> DEFINE x == IF dual THEN Round("corr", "none") ELSE << >>
    <2>1. Round("none", "corr") \in Seq(RoundRec) /\ Awaited(Round("none", "corr")) = {"none"}
      BY <1>1, AwaitedRound
    <2>2. Round("corr", "none") \in Seq(RoundRec) /\ Awaited(Round("corr", "none")) = {"corr"}
      BY <1>1, AwaitedRound
    <2>3. x \in Seq(RoundRec) /\ "share" \notin Awaited(x)
      BY <2>2
    <2>4. ReceiverKeys(dual) = Round("none", "corr") \o x
      BY DEF ReceiverKeys
    <2> HIDE DEF x
    <2> QED BY <2>1, <2>3, <2>4, AwaitedBoth
  <1>6. sendSS \in Seq(RoundRec) /\ "share" \notin Awaited(sendSS)
    BY <1>1, AwaitedRound DEF sendSS
  <1>7. recvSS \in Seq(RoundRec)
    BY <1>1, AwaitedRound DEF recvSS
  <1>8. /\ shareRounds(role) \in Seq(RoundRec)
        /\ "share" \in Awaited(shareRounds(role)) => role \in Receiving
    <2>1. sendSS \o recvSS \in Seq(RoundRec) /\ recvSS \o sendSS \in Seq(RoundRec)
      BY <1>6, <1>7, AwaitedBoth
    <2>2. CASE role \in Receiving
      BY <1>7, <2>1, <2>2 DEF shareRounds, Receiving
    <2>3. CASE role \notin Receiving
      BY <1>6, <2>3 DEF shareRounds, Receiving
    <2> QED BY <2>2, <2>3
  <1>9. isBoth(role) \in BOOLEAN
    BY DEF isBoth
  <1>10. CASE role = "idle"
    BY <1>10 DEF Rounds
  <1>11. CASE role # "idle" /\ ph = "init"
    BY <1>2, <1>3, <1>9, <1>11, Zenon DEF Rounds
  <1>12. CASE role # "idle" /\ ph = "oprf"
    BY <1>4, <1>5, <1>9, <1>12, Zenon DEF Rounds
  <1>13. CASE role # "idle" /\ ph \notin {"init", "oprf"}
    BY <1>8, <1>13 DEF Rounds
  <1> QED BY <1>10, <1>11, <1>12, <1>13

(***************************************************************************)
(* The rounds of a thread, phase by phase and role by role.                *)
(***************************************************************************)
RoundOf(a, b) == [await |-> a, reply |-> b]

LEMMA JoinOnes ==
  ASSUME NEW x, NEW y
  PROVE  <<x>> \o <<y>> = <<x, y>>
  <1> DEFINE S == {x, y}
             a == <<x>>
             b == <<y>>
             c == <<x, y>>
  <1>1. /\ a \in Seq(S) /\ Len(a) = 1 /\ a[1] = x
        /\ b \in Seq(S) /\ Len(b) = 1 /\ b[1] = y
        /\ c \in Seq(S) /\ Len(c) = 2 /\ c[1] = x /\ c[2] = y
    OBVIOUS
  <1> HIDE DEF S, a, b, c
  <1>2. /\ a \o b \in Seq(S) /\ Len(a \o b) = Len(a) + Len(b)
        /\ \A i \in 1..(Len(a) + Len(b)) : (a \o b)[i] = IF i <= Len(a) THEN a[i] ELSE b[i - Len(a)]
    BY <1>1, ConcatProperties
  <1>3. Len(a \o b) = 2
    BY <1>1, <1>2
  <1>4. (a \o b)[1] = x /\ (a \o b)[2] = y
    BY <1>1, <1>2, SMT
  <1>5. \A i \in 1..2 : i = 1 \/ i = 2
    BY SMT
  <1>6. \A i \in 1..Len(a \o b) : (a \o b)[i] = c[i]
    BY <1>1, <1>3, <1>4, <1>5
  <1>7. a \o b = c
    BY <1>1, <1>2, <1>3, <1>6, SeqEqual, Zenon
  <1> QED BY <1>7, Zenon DEF a, b, c

LEMMA JoinThird ==
  ASSUME NEW x, NEW y, NEW z
  PROVE  <<x, y>> \o <<z>> = <<x, y, z>>
  <1> DEFINE S == {x, y, z}
             a == <<x, y>>
             b == <<z>>
             c == <<x, y, z>>
  <1>1. /\ a \in Seq(S) /\ Len(a) = 2 /\ a[1] = x /\ a[2] = y
        /\ b \in Seq(S) /\ Len(b) = 1 /\ b[1] = z
        /\ c \in Seq(S) /\ Len(c) = 3 /\ c[1] = x /\ c[2] = y /\ c[3] = z
    OBVIOUS
  <1> HIDE DEF S, a, b, c
  <1>2. /\ a \o b \in Seq(S) /\ Len(a \o b) = Len(a) + Len(b)
        /\ \A i \in 1..(Len(a) + Len(b)) : (a \o b)[i] = IF i <= Len(a) THEN a[i] ELSE b[i - Len(a)]
    BY <1>1, ConcatProperties
  <1>3. Len(a \o b) = 3
    BY <1>1, <1>2
  <1>4. (a \o b)[1] = x /\ (a \o b)[2] = y /\ (a \o b)[3] = z
    BY <1>1, <1>2, SMT
  <1>5. \A i \in 1..3 : i = 1 \/ i = 2 \/ i = 3
    BY SMT
  <1>6. \A i \in 1..Len(a \o b) : (a \o b)[i] = c[i]
    BY <1>1, <1>3, <1>4, <1>5
  <1>7. a \o b = c
    BY <1>1, <1>2, <1>3, <1>6, SeqEqual, Zenon
  <1> QED BY <1>7, Zenon DEF a, b, c

LEMMA RoundsTable ==
  /\ Rounds("init", "send") = <<RoundOf("none", "point"), RoundOf("keys", "matrix")>>
  /\ Rounds("init", "recv") = <<RoundOf("point", "keys"), RoundOf("matrix", "none")>>
  /\ Rounds("init", "dualSend") = <<RoundOf("none", "point"), RoundOf("keys", "matrix"),
                                    RoundOf("backMatrix", "none")>>
  /\ Rounds("init", "dualRecv") = <<RoundOf("point", "keys"), RoundOf("matrix", "backMatrix")>>
  /\ Rounds("oprf", "send") = <<RoundOf("corr", "none")>>
  /\ Rounds("oprf", "recv") = <<RoundOf("none", "corr")>>
  /\ Rounds("oprf", "dualSend") = <<RoundOf("corr", "corr")>>
  /\ Rounds("oprf", "dualRecv") = <<RoundOf("none", "corr"), RoundOf("corr", "none")>>
  /\ \A ph \in {"share", "leader"} :
       /\ Rounds(ph, "send") = <<RoundOf("none", "share")>>
       /\ Rounds(ph, "recv") = <<RoundOf("share", "none")>>
       /\ Rounds(ph, "dualSend") = <<RoundOf("none", "share"), RoundOf("share", "none")>>
       /\ Rounds(ph, "dualRecv") = <<RoundOf("share", "none"), RoundOf("none", "share")>>
  /\ \A ph : Rounds(ph, "idle") = << >>
  <1>1. \A x, y : <<x>> \o <<y>> = <<x, y>>
    BY JoinOnes
  <1>2. \A x : <<x>> \o << >> = <<x>>
    BY SMT
  <1>3. \A x, y : <<x, y>> \o << >> = <<x, y>>
    BY SMT
  <1>4. \A x, y, z : <<x, y>> \o <<z>> = <<x, y, z>>
    BY JoinThird
  <1>5. \A a, b : Round(a, b) = <<RoundOf(a, b)>>
    BY DEF Round, RoundOf
  <1> USE <1>1, <1>2, <1>3, <1>4, <1>5
  <1>6. /\ SenderInit(FALSE) = <<RoundOf("none", "point"), RoundOf("keys", "matrix")>>
        /\ SenderInit(TRUE) = <<RoundOf("none", "point"), RoundOf("keys", "matrix"),
                                RoundOf("backMatrix", "none")>>
    <2> DEFINE x == RoundOf("none", "point")
               y == RoundOf("keys", "matrix")
               z == RoundOf("backMatrix", "none")
    <2>1. SenderInit(FALSE) = <<x>> \o <<y>> \o << >>
      BY DEF SenderInit
    <2>2. SenderInit(TRUE) = <<x>> \o <<y>> \o <<z>>
      BY DEF SenderInit
    <2> HIDE DEF x, y, z
    <2>3. SenderInit(FALSE) = <<x, y>>
      BY <2>1
    <2>4. SenderInit(TRUE) = <<x, y, z>>
      <3>1. <<x>> \o <<y>> = <<x, y>>
        BY JoinOnes
      <3>2. <<x, y>> \o <<z>> = <<x, y, z>>
        BY JoinThird
      <3>3. (<<x>> \o <<y>>) \o <<z>> = <<x, y, z>>
        BY <3>1, <3>2, Zenon
      <3> QED BY <2>2, <3>3, Zenon
    <2> QED BY <2>3, <2>4 DEF x, y, z
  <1>7. /\ ReceiverInit(FALSE) = <<RoundOf("point", "keys"), RoundOf("matrix", "none")>>
        /\ ReceiverInit(TRUE) = <<RoundOf("point", "keys"), RoundOf("matrix", "backMatrix")>>
    BY DEF ReceiverInit
  <1>8. /\ SenderKeys(FALSE) = <<RoundOf("corr", "none")>>
        /\ SenderKeys(TRUE) = <<RoundOf("corr", "corr")>>
    BY DEF SenderKeys
  <1>9. /\ ReceiverKeys(FALSE) = <<RoundOf("none", "corr")>>
        /\ ReceiverKeys(TRUE) = <<RoundOf("none", "corr"), RoundOf("corr", "none")>>
    BY DEF ReceiverKeys
  <1>10. /\ shareRounds("send") = <<RoundOf("none", "share")>>
         /\ shareRounds("recv") = <<RoundOf("share", "none")>>
         /\ shareRounds("dualSend") = <<RoundOf("none", "share"), RoundOf("share", "none")>>
         /\ shareRounds("dualRecv") = <<RoundOf("share", "none"), RoundOf("none", "share")>>
    BY DEF shareRounds, sendSS, recvSS
  <1>11. /\ isSender("send") /\ isSender("dualSend") /\ ~isSender("recv") /\ ~isSender("dualRecv")
         /\ isBoth("send") = FALSE /\ isBoth("recv") = FALSE
         /\ isBoth("dualSend") = TRUE /\ isBoth("dualRecv") = TRUE
    BY DEF isSender, isBoth
  <1> HIDE <1>1, <1>2, <1>3, <1>4, <1>5
  <1> QED BY <1>6, <1>7, <1>8, <1>9, <1>10, <1>11 DEF Rounds

(* A thread has one of the roles of the table, and so at most three rounds. *)
Roles == {"send", "recv", "dualSend", "dualRecv", "idle"}

LEMMA RoundsLength ==
  ASSUME NEW ph \in Working, NEW role \in Roles
  PROVE  Len(Rounds(ph, role)) <= 3
  <1>1. \A a : Len(<<a>>) = 1
    OBVIOUS
  <1>2. \A a, b : Len(<<a, b>>) = 2
    OBVIOUS
  <1>3. \A a, b, c : Len(<<a, b, c>>) = 3
    OBVIOUS
  <1>4. Len(<< >>) = 0 /\ 0 <= 3 /\ 1 <= 3 /\ 2 <= 3 /\ 3 <= 3
    BY SMT
  <1>5. CASE ph = "init"
    BY <1>1, <1>2, <1>3, <1>4, <1>5, RoundsTable DEF Roles
  <1>6. CASE ph = "oprf"
    BY <1>1, <1>2, <1>3, <1>4, <1>6, RoundsTable DEF Roles
  <1>7. CASE ph \in {"share", "leader"}
    BY <1>1, <1>2, <1>3, <1>4, <1>7, RoundsTable DEF Roles
  <1> QED BY <1>5, <1>6, <1>7 DEF Working

LEMMA SpawnedRoles ==
  ASSUME NEW p, NEW ph, NEW s \in Spawned(p, ph)
  PROVE  s.role \in Roles
  <1>1. \A k, q, i, r : Thread(k, q, i, r).role = r
    BY DEF Thread
  <1>2. CASE p = leader
    BY <1>1, <1>2 DEF Spawned, LeaderThreads, Roles
  <1>3. CASE p # leader /\ ph = "leader"
    BY <1>1, <1>3 DEF Spawned, Roles
  <1>4. CASE p # leader /\ ph # "leader"
    <2>1. PICK r \in {"idle", "send"} : s \in ClientThreads(input.n, input.t, p, r)
      BY <1>4 DEF Spawned
    <2>2. CASE s \in PrevThreads(input.n, input.t, p)
      BY <1>1, <2>2 DEF PrevThreads, Roles
    <2>3. CASE s \in NextThreads(input.n, input.t, p)
      BY <1>1, <2>3 DEF NextThreads, Roles, dualRole
    <2>4. CASE s = LeaderThread(input.n, input.t, p, r)
      BY <1>1, <2>1, <2>4 DEF LeaderThread, Roles
    <2> QED BY <2>1, <2>2, <2>3, <2>4 DEF ClientThreads
  <1> QED BY <1>2, <1>3, <1>4

(***************************************************************************)
(* The invariant: the threads of a party are those of its phase, each with *)
(* what is left of its rounds, and no phase could not be entered.          *)
(***************************************************************************)
ThreadRec == [peer : Int, pay : Int, slot : Int, todo : Seq(RoundRec)]

Runs(th, s, ph) == /\ th.slot = s.slot /\ th.peer = s.peer /\ th.pay = s.pay
                   /\ Awaited(th.todo) \subseteq Awaited(Rounds(ph, s.role))
                   /\ Len(th.todo) <= 3

ThreadsOf(T, S, ph) ==
  /\ T \subseteq ThreadRec
  /\ \A th \in T : \E s \in S : Runs(th, s, ph)
  /\ \A th1, th2 \in T : th1.slot = th2.slot => th1 = th2

Alive == Phases \ {"dead"}

Inv ==
  /\ input \in Inputs
  /\ phase \in [P -> Alive]
  /\ threads \in [P -> SUBSET ThreadRec]
  /\ \A p \in P : threads[p] # {} => /\ phase[p] \in Working
                                     /\ ThreadsOf(threads[p], Spawned(p, phase[p]), phase[p])

(* The fields of the threads of a phase.                                   *)
LEMMA SpawnedRecords ==
  ASSUME input \in Inputs, NEW p \in P, NEW ph \in Working, NEW s \in Spawned(p, ph)
  PROVE  s.peer \in Int /\ s.pay \in Int /\ s.slot \in Int
  <1> USE InputFacts
  <1>1. s.peer \in Int
    <2>1. s.peer \in P
      BY PhasePeers
    <2> QED BY <2>1, SMT DEF Parties
  <1>2. CASE p = leader
    <2>1. Spawned(p, ph) = {} \/ Spawned(p, ph) = LeaderThreads(input.n)
      BY <1>2 DEF Spawned
    <2> QED BY <1>1, <2>1 DEF LeaderThreads, Thread
  <1>3. CASE p # leader /\ ph = "leader"
    <2>1. Spawned(p, ph) = {Thread(0, leader, tSS(input.n, input.t), "send")}
      BY <1>3 DEF Spawned
    <2>2. tSS(input.n, input.t) \in Int
      BY RingBound, SMT
    <2> QED BY <1>1, <2>1, <2>2 DEF Thread
  <1>4. CASE p # leader /\ ph # "leader"
    <2>1. PICK r : Spawned(p, ph) = ClientThreads(input.n, input.t, p, r)
      BY <1>4 DEF Spawned
    <2> DEFINE n == input.n
               t == input.t
    <2>2. PICK i \in 0..Last(n, t, p) : s = ThreadAt(n, t, p, r, i)
      BY <1>4, <2>1, ClientThreadsAt
    <2>3. s.slot = i
      BY <2>2, SlotAt
    <2>4. tSS(n, t) \in Nat /\ i \in Int
      BY RingBound, SMT
    <2>5. s.pay \in {i, i - tSS(n, t), tSS(n, t)}
      BY <2>2, NextFields, PrevFields, LeaderFields
    <2>6. s.pay \in Int
      BY <2>4, <2>5, SMT
    <2> QED BY <1>1, <2>3, <2>4, <2>6
  <1> QED BY <1>2, <1>3, <1>4

(* The threads a party starts in a phase.                                  *)
LEMMA StartedThreads ==
  ASSUME input \in Inputs, NEW p \in P, NEW ph \in Working
  PROVE  ThreadsOf(Started(p, ph), Spawned(p, ph), ph)
  <1> DEFINE Begin(s) == [peer |-> s.peer, pay |-> s.pay, slot |-> s.slot,
                          todo |-> Rounds(ph, s.role)]
             S == Spawned(p, ph)
  <1>1. Started(p, ph) = {Begin(s) : s \in S}
    BY DEF Started
  <1>2. \A s \in S : Begin(s) \in ThreadRec /\ Runs(Begin(s), s, ph)
    <2> TAKE s \in S
    <2>1. s.peer \in Int /\ s.pay \in Int /\ s.slot \in Int
      BY SpawnedRecords
    <2>2. Rounds(ph, s.role) \in Seq(RoundRec) /\ Len(Rounds(ph, s.role)) <= 3
      BY RoundsOf, RoundsLength, SpawnedRoles
    <2> QED BY <2>1, <2>2 DEF ThreadRec, Runs
  <1>3. \A s1, s2 \in S : s1.slot = s2.slot => s1 = s2
    BY PhaseFilled DEF FillSlots
  <1>4. \A s \in S : Begin(s).slot = s.slot
    OBVIOUS
  <1> HIDE DEF Begin, S
  <1>5. \A th1, th2 \in {Begin(s) : s \in S} : th1.slot = th2.slot => th1 = th2
    BY <1>3, <1>4
  <1>6. {Begin(s) : s \in S} \subseteq ThreadRec
    BY <1>2
  <1>7. \A th \in {Begin(s) : s \in S} : \E s \in S : Runs(th, s, ph)
    BY <1>2
  <1> QED BY <1>1, <1>5, <1>6, <1>7 DEF ThreadsOf, S

(* Entering a phase keeps the invariant: the party does not die.           *)
LEMMA EnterInv ==
  ASSUME Inv, UNCHANGED input, NEW p \in P, NEW ph \in Working, Enter(p, ph)
  PROVE  Inv'
  <1> USE DEF Inv
  <1>1. FillSlots(Spawned(p, ph), Slots(p, ph))
    BY PhaseFilled
  <1>2. /\ phase' = [phase EXCEPT ![p] = ph]
        /\ threads' = [threads EXCEPT ![p] = Started(p, ph)]
    BY <1>1 DEF Enter
  <1>3. P' = P /\ \A q, f : Spawned(q, f)' = Spawned(q, f)
    BY DEF P, Spawned, leader
  <1>4. ThreadsOf(Started(p, ph), Spawned(p, ph), ph)
    BY StartedThreads
  <1>5. ph \in Alive
    BY DEF Working, Alive, Phases
  <1>6. phase' \in [P -> Alive]
    BY <1>2, <1>5
  <1>7. threads' \in [P -> SUBSET ThreadRec]
    BY <1>2, <1>4 DEF ThreadsOf
  <1>8. \A q \in P : threads'[q] # {} => /\ phase'[q] \in Working
                                        /\ ThreadsOf(threads'[q], Spawned(q, phase'[q]), phase'[q])
    <2> TAKE q \in P
    <2>1. CASE q = p
      BY <1>2, <1>4, <2>1
    <2>2. CASE q # p
      BY <1>2, <2>2
    <2> QED BY <2>1, <2>2
  <1>9. \A q \in P : ThreadsOf(threads'[q], Spawned(q, phase'[q]), phase'[q])
                     => ThreadsOf(threads[q], Spawned(q, phase[q]), phase[q])'
    BY <1>3 DEF ThreadsOf, Runs
  <1> QED BY <1>3, <1>6, <1>7, <1>8, <1>9

(* A round keeps what a thread is, and takes from what it awaits.          *)
LEMMA RoundInv ==
  ASSUME Inv, NEW p \in P, NEW th \in threads[p], RunRound(p, th)
  PROVE  Inv'
  <1> USE DEF Inv
  <1> DEFINE nth == [th EXCEPT !.todo = Tail(@)]
             T == (threads[p] \ {th}) \cup {nth}
             S == Spawned(p, phase[p])
  <1>1. /\ UNCHANGED <<input, phase>> /\ th.todo # << >>
        /\ threads' = [threads EXCEPT ![p] = T]
    BY DEF RunRound, CanRun
  <1>2. ThreadsOf(threads[p], S, phase[p]) /\ phase[p] \in Working
    OBVIOUS
  <1>3. th \in ThreadRec
    BY <1>2 DEF ThreadsOf
  <1>4. /\ Tail(th.todo) \in Seq(RoundRec) /\ Awaited(Tail(th.todo)) \subseteq Awaited(th.todo)
        /\ Len(th.todo) <= 3 => Len(Tail(th.todo)) <= 3
    <2>1. th.todo \in Seq(RoundRec)
      BY <1>3 DEF ThreadRec
    <2>2. Len(Tail(th.todo)) = Len(th.todo) - 1 /\ Len(th.todo) \in Nat
      BY <1>1, <2>1, HeadTailProperties, LenProperties
    <2>3. Len(th.todo) <= 3 => Len(Tail(th.todo)) <= 3
      BY <2>2, SMT
    <2> QED BY <1>1, <2>1, <2>3, AwaitedTail
  <1>5. /\ nth \in ThreadRec /\ nth.slot = th.slot /\ nth.peer = th.peer
        /\ nth.pay = th.pay /\ nth.todo = Tail(th.todo)
    BY <1>3, <1>4 DEF ThreadRec
  <1>6. \A s \in S : Runs(th, s, phase[p]) => Runs(nth, s, phase[p])
    BY <1>4, <1>5 DEF Runs
  <1>7. ThreadsOf(T, S, phase[p])
    <2> HIDE DEF nth, S
    <2> QED BY <1>2, <1>5, <1>6 DEF ThreadsOf
  <1>8. P' = P /\ \A q, f : Spawned(q, f)' = Spawned(q, f)
    BY <1>1 DEF P, Spawned, leader
  <1> HIDE DEF T, nth
  <1>9. threads' \in [P -> SUBSET ThreadRec]
    BY <1>1, <1>7 DEF ThreadsOf
  <1>10. \A q \in P : threads'[q] # {} => /\ phase'[q] \in Working
                                         /\ ThreadsOf(threads'[q], Spawned(q, phase'[q]), phase'[q])
    <2> TAKE q \in P
    <2>1. CASE q = p
      BY <1>1, <1>2, <1>7, <2>1
    <2>2. CASE q # p
      BY <1>1, <2>2
    <2> QED BY <2>1, <2>2
  <1>11. \A q \in P : ThreadsOf(threads'[q], Spawned(q, phase'[q]), phase'[q])
                      => ThreadsOf(threads[q], Spawned(q, phase[q]), phase[q])'
    BY <1>8 DEF ThreadsOf, Runs
  <1> QED BY <1>1, <1>8, <1>9, <1>10, <1>11

(* A party that ends a trial has no threads.                               *)
LEMMA LeaderDoneInv ==
  ASSUME Inv, NEW p \in P, LeaderDone(p)
  PROVE  Inv'
  <1> USE DEF Inv
  <1>1. PICK ph \in {"start", "done"} :
          /\ UNCHANGED input
          /\ phase' = [phase EXCEPT ![p] = ph]
          /\ threads' = [threads EXCEPT ![p] = {}]
    BY DEF LeaderDone
  <1>2. P' = P /\ \A q, f : Spawned(q, f)' = Spawned(q, f)
    BY <1>1 DEF P, Spawned, leader
  <1>3. phase' \in [P -> Alive]
    BY <1>1 DEF Alive, Phases
  <1>4. threads' \in [P -> SUBSET ThreadRec]
    BY <1>1
  <1>5. \A q \in P : threads'[q] # {} => /\ phase'[q] \in Working
                                        /\ ThreadsOf(threads'[q], Spawned(q, phase'[q]), phase'[q])
    BY <1>1
  <1>6. \A q \in P : ThreadsOf(threads'[q], Spawned(q, phase'[q]), phase'[q])
                     => ThreadsOf(threads[q], Spawned(q, phase[q]), phase[q])'
    BY <1>2 DEF ThreadsOf, Runs
  <1> QED BY <1>1, <1>2, <1>3, <1>4, <1>5, <1>6

LEMMA InitInv == Init => Inv
  BY DEF Init, Inv, Alive, Phases

LEMMA StepInv == Inv /\ [Next]_vars => Inv'
  <1> SUFFICES ASSUME Inv, [Next]_vars PROVE Inv'
    OBVIOUS
  <1> USE DEF Working
  <1>1. FirstPhase \in Working
    BY DEF FirstPhase
  <1>2. ASSUME NEW p \in P, BeginTrial(p) PROVE Inv'
    BY <1>1, <1>2, EnterInv DEF BeginTrial
  <1>3. ASSUME NEW p \in P, InitDone(p) PROVE Inv'
    BY <1>3, EnterInv DEF InitDone
  <1>4. ASSUME NEW p \in P, OprfDone(p) PROVE Inv'
    BY <1>4, EnterInv DEF OprfDone
  <1>5. ASSUME NEW p \in P, ShareDone(p) PROVE Inv'
    BY <1>5, EnterInv DEF ShareDone
  <1>6. ASSUME NEW p \in P, LeaderDone(p) PROVE Inv'
    BY <1>6, LeaderDoneInv
  <1>7. ASSUME NEW p \in P, ThreadStep(p) PROVE Inv'
    BY <1>7, RoundInv DEF ThreadStep
  <1>8. CASE UNCHANGED vars
    BY <1>8 DEF vars, Inv, P, Spawned, leader, ThreadsOf, Runs
  <1> QED BY <1>2, <1>3, <1>4, <1>5, <1>6, <1>7, <1>8 DEF Next, MainStep, Finished

THEOREM SpecInv == Spec => []Inv
  BY InitInv, StepInv, PTL DEF Spec

(***************************************************************************)
(* No party is terminated by a slot filled twice or left empty: for every  *)
(* n and t, in every phase, whatever the others do.                        *)
(***************************************************************************)
THEOREM NeverDead == Spec => []NoCrash
  <1>1. Inv => NoCrash
    BY DEF Inv, NoCrash, Alive
  <1> QED BY <1>1, SpecInv, PTL

(***************************************************************************)
(* At no time do two threads of a party use one channel or receive into    *)
(* one payload.                                                            *)
(***************************************************************************)
THEOREM ThreadsApart == Spec => []ThreadsDisjoint
  <1>1. Inv => ThreadsDisjoint
    <2> SUFFICES ASSUME Inv, NEW p \in P, NEW th1 \in threads[p], NEW th2 \in threads[p],
                        \/ th1.peer = th2.peer
                        \/ /\ th1.pay = th2.pay
                           /\ "share" \in Awaited(th1.todo)
                           /\ "share" \in Awaited(th2.todo)
                 PROVE  th1 = th2
      BY DEF ThreadsDisjoint, Awaited
    <2>1. /\ input \in Inputs /\ phase[p] \in Working
          /\ ThreadsOf(threads[p], Spawned(p, phase[p]), phase[p])
      BY DEF Inv
    <2>2. PICK s1 \in Spawned(p, phase[p]) : Runs(th1, s1, phase[p])
      BY <2>1 DEF ThreadsOf
    <2>3. PICK s2 \in Spawned(p, phase[p]) : Runs(th2, s2, phase[p])
      BY <2>1 DEF ThreadsOf
    <2>4. s1 = s2
      <3>1. CASE th1.peer = th2.peer
        BY <2>1, <2>2, <2>3, <3>1, PhasePeers DEF Runs
      <3>2. CASE /\ th1.pay = th2.pay /\ "share" \in Awaited(th1.todo)
                 /\ "share" \in Awaited(th2.todo)
        <4>1. s1.role \in Receiving /\ s2.role \in Receiving
          BY <2>2, <2>3, <3>2, RoundsOf DEF Runs
        <4> QED BY <2>1, <2>2, <2>3, <3>2, <4>1, PhasePayloads DEF Runs
      <3> QED BY <3>1, <3>2
    <2>5. th1.slot = th2.slot
      BY <2>2, <2>3, <2>4 DEF Runs
    <2> QED BY <2>1, <2>5 DEF ThreadsOf
  <1> QED BY <1>1, SpecInv, PTL
(***************************************************************************)
(* The shape of the state: threads have peers, payloads and slots that     *)
(* exist, messages and payloads are made of the atoms of the trials, and   *)
(* the leader has an output for every trial it has left.                   *)
(***************************************************************************)
MessageRec == [kind : Kinds, body : Payloads]

TypeInv ==
  /\ trial \in [P -> 0..Trials]
  /\ chan \in [P -> [P -> Seq(MessageRec)]]
  /\ DOMAIN recvPay = P /\ \A p \in P : recvPay[p] \in [Pays(p) -> Payloads]
  /\ sum \in [P -> Payloads]
  /\ output \in Seq(SUBSET Items)
  /\ TrialInv

LEMMA SpawnedPays ==
  ASSUME input \in Inputs, NEW p \in P, NEW ph \in Working, NEW s \in Spawned(p, ph)
  PROVE  s.pay \in Index /\ s.slot \in Nat
  <1> USE InputFacts
  <1> DEFINE n == input.n
             t == input.t
  <1>1. s.slot \in Nat
    <2>1. s.slot \in 0..(Slots(p, ph) - 1)
      BY PhaseFilled DEF FillSlots
    <2> QED BY <2>1, SMT
  <1>2. tSS(n, t) \in Nat /\ tSS(n, t) < nSS(n) /\ nSS(n) = n - 1
    BY RingBound
  <1>3. CASE p = leader
    <2>1. Spawned(p, ph) = {} \/ Spawned(p, ph) = LeaderThreads(n)
      BY <1>3 DEF Spawned
    <2>2. PICK k \in 0..(n - 2) : s.pay = k
      BY <2>1 DEF LeaderThreads, Thread
    <2> QED BY <1>1, <2>2, SMT DEF Index
  <1>4. CASE p # leader /\ ph = "leader"
    <2>1. s.pay = tSS(n, t)
      BY <1>4 DEF Spawned, Thread
    <2> QED BY <1>1, <1>2, <2>1, SMT DEF Index
  <1>5. CASE p # leader /\ ph # "leader"
    <2>1. PICK r : s \in ClientThreads(n, t, p, r)
      BY <1>5 DEF Spawned
    <2>2. s.pay \in (0..(tSS(n, t) - 1)) \cup {tSS(n, t)}
      <3>1. CASE s \in PrevThreads(n, t, p)
        BY <3>1 DEF PrevThreads, Thread
      <3>2. CASE s \in NextThreads(n, t, p)
        BY <3>2 DEF NextThreads, Thread
      <3>3. CASE s = LeaderThread(n, t, p, r)
        BY <3>3 DEF LeaderThread, Thread
      <3> QED BY <2>1, <3>1, <3>2, <3>3 DEF ClientThreads
    <2> QED BY <1>1, <1>2, <2>2, SMT DEF Index
  <1> QED BY <1>3, <1>4, <1>5

(* An XOR of blocks is made of their atoms.                                *)
LEMMA XorAtoms ==
  ASSUME NEW f, NEW K, NEW A, \A k \in K : f[k] \subseteq A
  PROVE  XorOver(f, K) \subseteq A
  BY DEF XorOver

LEMMA ZeroPayload == Zero \in Payloads
  BY DEF Zero, Payloads

LEMMA SharePayload ==
  ASSUME NEW tr \in 1..Trials, NEW p \in P, NEW k \in Index
  PROVE  Share(tr, p, k) \in Payloads
  <1>1. \A x \in Items : <<"share", tr, p, k, x>> \in Atom
    BY DEF Atom
  <1> QED BY <1>1 DEF Share, Payloads

LEMMA LeaderSharePayload ==
  ASSUME input \in Inputs, NEW tr \in 1..Trials, NEW p \in P
  PROVE  LeaderShare(tr, p) \in Payloads
  <1> DEFINE K == 0..(tSS(input.n, input.t) - 1)
             f(x) == [k \in K |-> Share(tr, p, k)[x]]
  <1>1. K \subseteq Index
    <2>1. /\ tSS(input.n, input.t) \in Nat /\ tSS(input.n, input.t) < nSS(input.n)
          /\ nSS(input.n) = input.n - 1 /\ input.n \in Nat
      BY RingBound, InputFacts
    <2> QED BY <2>1, SMT DEF Index
  <1>2. ASSUME NEW x \in Items PROVE XorOver(f(x), K) \subseteq Atom
    <2>1. \A k \in K : f(x)[k] \subseteq Atom
      <3> TAKE k \in K
      <3>1. Share(tr, p, k) \in [Items -> SUBSET Atom]
        BY <1>1, SharePayload DEF Payloads
      <3>2. f(x)[k] = Share(tr, p, k)[x]
        OBVIOUS
      <3> HIDE DEF f, K
      <3> QED BY <3>1, <3>2
    <2> HIDE DEF f, K
    <2> QED BY <2>1, XorAtoms
  <1>3. LeaderShare(tr, p) = [x \in Items |-> XorOver(f(x), K)]
    BY DEF LeaderShare
  <1> HIDE DEF f, K
  <1> QED BY <1>2, <1>3 DEF Payloads

LEMMA EvaluatedPayload ==
  ASSUME NEW p \in P, NEW q \in P, NEW payload \in Payloads, trial[p] \in 1..Trials
  PROVE  Evaluated(p, q, payload) \in Payloads
  <1>1. \A x \in Items : <<"oprf", trial[p], q, p, x>> \in Atom
    BY DEF Atom
  <1> QED BY <1>1 DEF Evaluated, Payloads

(* A step that keeps the input keeps what depends on it only.              *)
LEMMA InputFrame ==
  ASSUME UNCHANGED input
  PROVE  /\ P' = P /\ leader' = leader /\ Payloads' = Payloads /\ MessageRec' = MessageRec
         /\ \A p : Pays(p)' = Pays(p)
         /\ \A p, ph : Spawned(p, ph)' = Spawned(p, ph)
  <1>1. P' = P /\ leader' = leader
    BY DEF P, leader
  <1>2. Index' = Index
    BY DEF Index
  <1>3. Payloads' = Payloads
    BY <1>1, <1>2 DEF Payloads, Atom
  <1>4. MessageRec' = MessageRec
    BY <1>3 DEF MessageRec
  <1>5. \A p : Pays(p)' = Pays(p)
    BY <1>1 DEF Pays
  <1>6. \A p, ph : Spawned(p, ph)' = Spawned(p, ph)
    BY <1>1 DEF Spawned
  <1> QED BY <1>1, <1>3, <1>4, <1>5, <1>6

(* A phase is always entered.                                              *)
LEMMA Entered ==
  ASSUME input \in Inputs, NEW p \in P, NEW ph \in Working, Enter(p, ph)
  PROVE  /\ phase' = [phase EXCEPT ![p] = ph]
         /\ threads' = [threads EXCEPT ![p] = Started(p, ph)]
  BY PhaseFilled DEF Enter

LEMMA TypeInit == Init => TypeInv
  <1> SUFFICES ASSUME Init PROVE TypeInv
    OBVIOUS
  <1>1. input \in Inputs /\ leader \in P
    BY InputFacts DEF Init
  <1>2. Trials \in Nat /\ 0 \in 0..Trials /\ 0 < Trials
    BY TrialsAssumption, SMT
  <1>3. trial \in [P -> 0..Trials] /\ \A p \in P : trial[p] = 0
    BY <1>2 DEF Init
  <1>4. chan \in [P -> [P -> Seq(MessageRec)]]
    BY DEF Init
  <1>5. DOMAIN recvPay = P /\ \A p \in P : recvPay[p] \in [Pays(p) -> Payloads]
    BY ZeroPayload DEF Init
  <1>6. sum \in [P -> Payloads]
    BY ZeroPayload DEF Init
  <1>7. output \in Seq(SUBSET Items) /\ Len(output) = 0
    BY DEF Init
  <1>8. \A p \in P : phase[p] = "start"
    BY DEF Init
  <1>9. TrialInv
    BY <1>1, <1>2, <1>3, <1>7, <1>8 DEF TrialInv, Working
  <1> QED BY <1>3, <1>4, <1>5, <1>6, <1>7, <1>9 DEF TypeInv

(* The trials when a party goes from phase to phase in a trial.            *)
LEMMA TrialEnter ==
  ASSUME Inv, TypeInv, NEW p \in P, phase[p] \in Working, NEW ph \in Working,
         phase' = [phase EXCEPT ![p] = ph], UNCHANGED <<input, trial, output>>
  PROVE  TrialInv'
  <1>1. P' = P /\ leader' = leader /\ leader \in P
    BY InputFrame, InputFacts DEF Inv
  <1>2. \A q \in P : /\ phase'[q] \in Working <=> phase[q] \in Working
                     /\ phase'[q] = "start" => phase[q] = "start"
    BY DEF Inv, Working
  <1> QED BY <1>1, <1>2 DEF TypeInv, TrialInv

LEMMA TypeBegin ==
  ASSUME Inv, TypeInv, NEW p \in P, BeginTrial(p)
  PROVE  TypeInv'
  <1> USE DEF BeginTrial
  <1>1. /\ P' = P /\ leader' = leader /\ Payloads' = Payloads /\ MessageRec' = MessageRec
        /\ \A q : Pays(q)' = Pays(q)
    BY InputFrame
  <1>2. input \in Inputs /\ FirstPhase \in Working /\ leader \in P
    BY InputFacts DEF Inv, FirstPhase, Working
  <1>3. phase' = [phase EXCEPT ![p] = FirstPhase]
    BY <1>2, Entered
  <1>4. /\ trial[p] \in Nat
        /\ trial[p] < Trials
        /\ trial[p] + 1 \in 1..Trials
        /\ trial[p] + 1 \in 0..Trials
    <2>1. trial[p] \in 0..Trials /\ trial[p] < Trials /\ Trials \in Nat
      BY TrialsAssumption DEF TypeInv, TrialInv
    <2> QED BY <2>1, SMT
  <1>5. trial' = [trial EXCEPT ![p] = trial[p] + 1]
    OBVIOUS
  <1>6. trial' \in [P -> 0..Trials]
    BY <1>4, <1>5 DEF TypeInv
  <1>7. sum' \in [P -> Payloads]
    BY <1>2, <1>4, ZeroPayload, LeaderSharePayload DEF TypeInv
  <1>8. DOMAIN recvPay' = P /\ \A q \in P : recvPay'[q] \in [Pays(q) -> Payloads]
    BY ZeroPayload DEF TypeInv
  <1>9. TrialInv'
    <2>1. \A q \in P : /\ phase'[q] = "start" => trial'[q] < Trials
                       /\ phase'[q] \in Working => trial'[q] >= 1
      <3> TAKE q \in P
      <3>1. CASE q = p
        <4>1. phase'[q] = FirstPhase /\ trial'[q] = trial[p] + 1
          BY <1>3, <1>5, <3>1 DEF Inv, TypeInv
        <4>2. trial[p] + 1 >= 1
          BY <1>4, SMT
        <4> QED BY <1>2, <4>1, <4>2 DEF Working
      <3>2. CASE q # p
        BY <1>3, <1>5, <3>2 DEF Inv, TypeInv, TrialInv
      <3> QED BY <3>1, <3>2
    <2>2. Len(output) = IF phase'[leader] \in Working THEN trial'[leader] - 1 ELSE trial'[leader]
      <3>1. CASE leader = p
        <4>1. phase'[leader] \in Working /\ trial'[leader] = trial[p] + 1
          BY <1>2, <1>3, <1>5, <3>1 DEF Inv, TypeInv
        <4>2. Len(output) = trial[p]
          BY <3>1 DEF TypeInv, TrialInv, Working
        <4> QED BY <1>4, <4>1, <4>2, SMT
      <3>2. CASE leader # p
        BY <1>2, <1>3, <1>5, <3>2 DEF Inv, TypeInv, TrialInv
      <3> QED BY <3>1, <3>2
    <2> QED BY <1>1, <2>1, <2>2 DEF TrialInv
  <1> QED BY <1>1, <1>6, <1>7, <1>8, <1>9 DEF TypeInv

LEMMA TypeShare ==
  ASSUME Inv, TypeInv, NEW p \in P, ShareDone(p)
  PROVE  TypeInv'
  <1>1. /\ P' = P /\ leader' = leader /\ Payloads' = Payloads /\ MessageRec' = MessageRec
        /\ \A q : Pays(q)' = Pays(q)
    BY InputFrame DEF ShareDone
  <1>2. phase' = [phase EXCEPT ![p] = "leader"] /\ phase[p] \in Working
    BY Entered DEF ShareDone, Inv, Working
  <1>3. TrialInv'
    BY <1>2, TrialEnter DEF ShareDone, Working
  <1> DEFINE K == Pays(p) \cup {-1}
             f(x) == [k \in K |-> IF k = -1 THEN sum[p][x] ELSE recvPay[p][k][x]]
  <1>4. ASSUME NEW x \in Items PROVE XorOver(f(x), K) \subseteq Atom
    <2>1. ASSUME NEW k \in K PROVE f(x)[k] \subseteq Atom
      <3>1. f(x)[k] = IF k = -1 THEN sum[p][x] ELSE recvPay[p][k][x]
        OBVIOUS
      <3>2. sum[p] \in [Items -> SUBSET Atom]
        BY DEF TypeInv, Payloads
      <3>3. k # -1 => recvPay[p][k] \in [Items -> SUBSET Atom]
        BY DEF TypeInv, Payloads
      <3> HIDE DEF f, K
      <3> QED BY <3>1, <3>2, <3>3
    <2> HIDE DEF f, K
    <2> QED BY <2>1, XorAtoms
  <1>5. sum' = [sum EXCEPT ![p] = IF p = leader THEN @ ELSE [x \in Items |-> XorOver(f(x), K)]]
    BY DEF ShareDone
  <1> HIDE DEF f, K
  <1>6. [x \in Items |-> XorOver(f(x), K)] \in Payloads
    BY <1>4 DEF Payloads
  <1>7. sum' \in [P -> Payloads]
    BY <1>5, <1>6 DEF TypeInv
  <1> QED BY <1>1, <1>3, <1>7 DEF TypeInv, ShareDone

LEMMA TypeLeader ==
  ASSUME Inv, TypeInv, NEW p \in P, LeaderDone(p)
  PROVE  TypeInv'
  <1>1. /\ P' = P /\ leader' = leader /\ Payloads' = Payloads /\ MessageRec' = MessageRec
        /\ \A q : Pays(q)' = Pays(q)
    BY InputFrame DEF LeaderDone
  <1>2. /\ phase' = [phase EXCEPT ![p] = IF trial[p] < Trials THEN "start" ELSE "done"]
        /\ phase[p] = "leader" /\ UNCHANGED trial
    BY DEF LeaderDone
  <1>3. PICK S \in SUBSET Items : output' = IF p # leader THEN output ELSE Append(output, S)
    <2> DEFINE T == {x \in input.sets[p] :
                       XorOver([k \in Pays(p) |-> recvPay[p][k][x]], Pays(p)) = {}}
    <2>1. input.sets[p] \subseteq Items
      BY InputFacts, InputsAssumption DEF Inv
    <2>2. T \in SUBSET Items
      BY <2>1
    <2>3. output' = IF p # leader THEN output ELSE Append(output, T)
      BY DEF LeaderDone
    <2> HIDE DEF T
    <2> QED BY <2>2, <2>3
  <1>4. /\ output' \in Seq(SUBSET Items)
        /\ Len(output') = IF p # leader THEN Len(output) ELSE Len(output) + 1
    BY <1>3, AppendProperties DEF TypeInv
  <1>5. leader \in P
    BY InputFacts DEF Inv
  <1>6. \A q \in P : /\ phase'[q] = "start" => trial[q] < Trials
                     /\ phase'[q] \in Working => trial[q] >= 1
    <2> TAKE q \in P
    <2>1. CASE q = p
      BY <1>2, <2>1 DEF Inv, Working
    <2>2. CASE q # p
      BY <1>2, <2>2 DEF Inv, TypeInv, TrialInv
    <2> QED BY <2>1, <2>2
  <1>7. Len(output') = IF phase'[leader] \in Working THEN trial[leader] - 1 ELSE trial[leader]
    <2>1. CASE p = leader
      <3>1. phase'[leader] \notin Working
        BY <1>2, <1>5, <2>1 DEF Inv, Working
      <3>2. Len(output) = trial[leader] - 1 /\ trial[leader] \in 0..Trials
        BY <1>2, <1>5, <2>1 DEF TypeInv, TrialInv, Working
      <3> QED BY <1>4, <2>1, <3>1, <3>2, TrialsAssumption, SMT
    <2>2. CASE p # leader
      BY <1>2, <1>4, <1>5, <2>2 DEF Inv, TypeInv, TrialInv
    <2> QED BY <2>1, <2>2
  <1>8. TrialInv'
    BY <1>1, <1>2, <1>6, <1>7 DEF TrialInv
  <1> QED BY <1>1, <1>4, <1>8 DEF TypeInv, LeaderDone

(* The thread that does a round, and the message that it sends.            *)
LEMMA RoundThread ==
  ASSUME Inv, TypeInv, NEW p \in P, NEW th \in threads[p], RunRound(p, th)
  PROVE  /\ th.peer \in P \ {p} /\ th.pay \in Index /\ trial[p] \in 1..Trials
         /\ Head(th.todo) \in RoundRec
         /\ Head(th.todo).reply # "none" => Message(p, th, Head(th.todo).reply) \in MessageRec
  <1> DEFINE r == Head(th.todo)
  <1>1. /\ input \in Inputs /\ phase[p] \in Working
        /\ ThreadsOf(threads[p], Spawned(p, phase[p]), phase[p])
    BY DEF Inv
  <1>2. PICK s \in Spawned(p, phase[p]) : Runs(th, s, phase[p])
    BY <1>1 DEF ThreadsOf
  <1>3. th.peer \in P \ {p} /\ th.pay \in Index
    BY <1>1, <1>2, PhasePeers, SpawnedPays DEF Runs
  <1>4. trial[p] \in 1..Trials
    <2>1. trial[p] \in 0..Trials /\ trial[p] >= 1
      BY <1>1 DEF TypeInv, TrialInv
    <2> QED BY <2>1, TrialsAssumption, SMT
  <1>5. r \in RoundRec
    <2>1. th.todo \in Seq(RoundRec) /\ th.todo # << >>
      BY <1>1 DEF ThreadsOf, ThreadRec, RunRound, CanRun
    <2> QED BY <2>1, HeadTailProperties
  <1>6. r.reply # "none" => Message(p, th, r.reply) \in MessageRec
    <2>1. Payload(p, th) \in Payloads
      BY <1>3, <1>4, SharePayload DEF Payload, TypeInv
    <2>2. r.reply # "none" => r.reply \in Kinds
      BY <1>5 DEF RoundRec, Some
    <2> QED BY <2>1, <2>2, ZeroPayload DEF Message, MessageRec
  <1> QED BY <1>3, <1>4, <1>5, <1>6

LEMMA TypeRound ==
  ASSUME Inv, TypeInv, NEW p \in P, NEW th \in threads[p], RunRound(p, th)
  PROVE  TypeInv'
  <1> DEFINE q == th.peer
             r == Head(th.todo)
  <1>1. /\ P' = P /\ leader' = leader /\ Payloads' = Payloads /\ MessageRec' = MessageRec
        /\ \A v : Pays(v)' = Pays(v)
    BY InputFrame DEF RunRound
  <1>2. /\ q \in P /\ q # p /\ th.pay \in Index /\ trial[p] \in 1..Trials /\ r \in RoundRec
        /\ r.reply # "none" => Message(p, th, r.reply) \in MessageRec
    BY RoundThread
  <1>3. r.await # "none" => /\ chan[q][p] # << >> /\ chan[q][p] \in Seq(MessageRec)
                            /\ Head(chan[q][p]) \in MessageRec
                            /\ Tail(chan[q][p]) \in Seq(MessageRec)
    <2>1. chan[q][p] \in Seq(MessageRec)
      BY <1>2 DEF TypeInv
    <2>2. r.await # "none" => chan[q][p] # << >>
      BY DEF RunRound, CanRun
    <2> QED BY <2>1, <2>2, HeadTailProperties
  <1>4. chan' \in [P -> [P -> Seq(MessageRec)]]
    <2> DEFINE x == IF r.await = "none" THEN chan[q][p] ELSE Tail(chan[q][p])
               y == IF r.reply = "none" THEN chan[p][q]
                    ELSE Append(chan[p][q], Message(p, th, r.reply))
    <2>1. chan[p] \in [P -> Seq(MessageRec)] /\ chan[q] \in [P -> Seq(MessageRec)]
          /\ chan[p][q] \in Seq(MessageRec) /\ chan[q][p] \in Seq(MessageRec)
      BY <1>2 DEF TypeInv
    <2>2. x \in Seq(MessageRec)
      BY <1>3, <2>1
    <2>3. y \in Seq(MessageRec)
      BY <1>2, <2>1, AppendProperties
    <2>4. chan' = [chan EXCEPT ![q][p] = x, ![p][q] = y]
      BY <1>2 DEF RunRound, TypeInv
    <2> HIDE DEF x, y, q
    <2> QED BY <1>2, <2>2, <2>3, <2>4 DEF TypeInv
  <1>5. DOMAIN recvPay' = P /\ \A v \in P : recvPay'[v] \in [Pays(v) -> Payloads]
    <2> DEFINE b == Evaluated(p, q, Head(chan[q][p]).body)
               z == IF r.await # "share" THEN recvPay[p] ELSE [recvPay[p] EXCEPT ![th.pay] = b]
    <2>1. r.await = "share" => b \in Payloads
      BY <1>2, <1>3, EvaluatedPayload DEF MessageRec
    <2>2. z \in [Pays(p) -> Payloads]
      <3> HIDE DEF b
      <3> QED BY <2>1 DEF TypeInv
    <2>3. recvPay' = [recvPay EXCEPT ![p] = z]
      BY DEF RunRound
    <2> HIDE DEF z
    <2> QED BY <2>2, <2>3 DEF TypeInv
  <1>6. TrialInv'
    BY <1>1 DEF RunRound, TypeInv, TrialInv
  <1> QED BY <1>1, <1>4, <1>5, <1>6 DEF TypeInv, RunRound

LEMMA TypeStep ==
  ASSUME Inv, TypeInv, [Next]_vars
  PROVE  TypeInv'
  <1>1. ASSUME NEW p \in P, BeginTrial(p) PROVE TypeInv'
    BY <1>1, TypeBegin
  <1>2. ASSUME NEW p \in P, InitDone(p) \/ OprfDone(p) PROVE TypeInv'
    <2>1. PICK ph \in Working : Enter(p, ph)
      BY <1>2 DEF InitDone, OprfDone, Working
    <2>2. phase[p] \in Working /\ UNCHANGED <<input, trial, chan, recvPay, sum, output>>
      BY <1>2 DEF InitDone, OprfDone, Working
    <2>3. phase' = [phase EXCEPT ![p] = ph]
      BY <2>1, Entered DEF Inv
    <2>4. TrialInv'
      BY <2>2, <2>3, TrialEnter
    <2>5. /\ P' = P /\ leader' = leader /\ Payloads' = Payloads /\ MessageRec' = MessageRec
          /\ \A q : Pays(q)' = Pays(q)
      BY <2>2, InputFrame
    <2> QED BY <2>2, <2>4, <2>5 DEF TypeInv
  <1>3. ASSUME NEW p \in P, ShareDone(p) PROVE TypeInv'
    BY <1>3, TypeShare
  <1>4. ASSUME NEW p \in P, LeaderDone(p) PROVE TypeInv'
    BY <1>4, TypeLeader
  <1>5. ASSUME NEW p \in P, ThreadStep(p) PROVE TypeInv'
    BY <1>5, TypeRound DEF ThreadStep
  <1>6. CASE UNCHANGED vars
    <2>1. /\ P' = P /\ leader' = leader /\ Payloads' = Payloads /\ MessageRec' = MessageRec
          /\ \A q : Pays(q)' = Pays(q)
      BY <1>6, InputFrame DEF vars
    <2> QED BY <1>6, <2>1 DEF vars, TypeInv, TrialInv
  <1> QED BY <1>1, <1>2, <1>3, <1>4, <1>5, <1>6 DEF Next, MainStep, Finished

THEOREM SpecType == Spec => [](Inv /\ TypeInv)
  BY InitInv, StepInv, TypeInit, TypeStep, PTL DEF Spec

(***************************************************************************)
(* The state of every party keeps its shape: its threads have peers, slots *)
(* and payloads that exist, its payloads are made of the atoms of the      *)
(* trials, and the leader has at most one output for every trial.          *)
(***************************************************************************)
THEOREM TypeCorrect == Spec => []TypeOK
  <1>1. Inv /\ TypeInv => TypeOK
    <2> SUFFICES ASSUME Inv, TypeInv PROVE TypeOK
      OBVIOUS
    <2>1. input \in Inputs /\ trial \in [P -> 0..Trials] /\ phase \in [P -> Phases]
      BY DEF Inv, TypeInv, Alive
    <2>2. ASSUME NEW p \in P, NEW th \in threads[p]
          PROVE  /\ th.peer \in P \ {p} /\ th.pay \in Index /\ th.slot \in Nat
                 /\ \A i \in 1..Len(th.todo) :
                      th.todo[i] \in [await : Kinds \cup {"none"}, reply : Kinds \cup {"none"}]
      <3>1. /\ input \in Inputs /\ phase[p] \in Working
            /\ ThreadsOf(threads[p], Spawned(p, phase[p]), phase[p])
        BY DEF Inv
      <3>2. PICK s \in Spawned(p, phase[p]) : Runs(th, s, phase[p])
        BY <3>1 DEF ThreadsOf
      <3>3. th.peer \in P \ {p} /\ th.pay \in Index /\ th.slot \in Nat
        BY <3>1, <3>2, PhasePeers, SpawnedPays DEF Runs
      <3>4. th.todo \in Seq(RoundRec)
        BY <3>1 DEF ThreadsOf, ThreadRec
      <3>5. \A i \in 1..Len(th.todo) : th.todo[i] \in RoundRec
        BY <3>4, ElementOfSeq
      <3> QED BY <3>3, <3>5 DEF RoundRec, Some
    <2>3. ASSUME NEW p \in P, NEW q \in P, NEW i \in 1..Len(chan[p][q])
          PROVE  chan[p][q][i] \in [kind : Kinds, body : Payloads]
      <3>1. chan[p][q] \in Seq(MessageRec)
        BY DEF TypeInv
      <3>2. chan[p][q][i] \in MessageRec
        BY <3>1, ElementOfSeq
      <3> QED BY <3>2 DEF MessageRec
    <2>4. (\A p \in P : recvPay[p] \in [Pays(p) -> Payloads]) /\ sum \in [P -> Payloads]
      BY DEF TypeInv
    <2>5. Len(output) <= Trials
      <3>1. leader \in P
        BY <2>1, InputFacts
      <3>2. trial[leader] \in 0..Trials /\ Len(output) \in {trial[leader] - 1, trial[leader]}
        BY <2>1, <3>1 DEF TypeInv, TrialInv
      <3> QED BY <3>2, TrialsAssumption, SMT
    <2>6. \A i \in 1..Len(output) : output[i] \subseteq Items
      <3>1. output \in Seq(SUBSET Items)
        BY DEF TypeInv
      <3> QED BY <3>1, ElementOfSeq
    <2> QED BY <2>1, <2>2, <2>3, <2>4, <2>5, <2>6 DEF TypeOK
  <1> QED BY <1>1, SpecType, PTL

(***************************************************************************)
(* What the two sides of a channel still have to send and to read.  First  *)
(* the operators on sequences.                                             *)
(***************************************************************************)
LEMMA HeadTailConcat ==
  ASSUME NEW S, NEW s \in Seq(S), NEW t \in Seq(S), s # << >>
  PROVE  Head(s \o t) = Head(s) /\ Tail(s \o t) = Tail(s) \o t
  <1>1. /\ s \o t \in Seq(S) /\ Len(s \o t) = Len(s) + Len(t)
        /\ \A i \in 1..(Len(s) + Len(t)) : (s \o t)[i] = IF i <= Len(s) THEN s[i] ELSE t[i - Len(s)]
    BY ConcatProperties
  <1>2. Len(s) \in Nat /\ Len(t) \in Nat /\ Len(s) >= 1
    BY EmptySeq, LenProperties, SMT
  <1>3. s \o t # << >>
    <2>1. Len(s \o t) # 0
      BY <1>1, <1>2, SMT
    <2> QED BY <2>1, EmptySeq
  <1>4. Head(s \o t) = Head(s)
    <2>1. (s \o t)[1] = s[1]
      <3>1. 1 \in 1..(Len(s) + Len(t)) /\ 1 <= Len(s)
        BY <1>2, SMT
      <3> QED BY <1>1, <3>1
    <2>2. Head(s \o t) = (s \o t)[1] /\ Head(s) = s[1]
      OBVIOUS
    <2> QED BY <2>1, <2>2
  <1> DEFINE a == Tail(s \o t)
             b == Tail(s) \o t
  <1>5. /\ a \in Seq(S) /\ Len(a) = Len(s) + Len(t) - 1
        /\ \A i \in 1..Len(a) : a[i] = (s \o t)[i + 1]
    BY <1>1, <1>3, HeadTailProperties
  <1>6. /\ Tail(s) \in Seq(S) /\ Len(Tail(s)) = Len(s) - 1
        /\ \A i \in 1..Len(Tail(s)) : Tail(s)[i] = s[i + 1]
    BY HeadTailProperties
  <1>7. /\ b \in Seq(S) /\ Len(b) = Len(Tail(s)) + Len(t)
        /\ \A i \in 1..(Len(Tail(s)) + Len(t)) :
             b[i] = IF i <= Len(Tail(s)) THEN Tail(s)[i] ELSE t[i - Len(Tail(s))]
    BY <1>6, ConcatProperties
  <1> DEFINE m == Len(s)
             n == Len(t)
  <1> HIDE DEF a, b
  <1>8. Len(a) = Len(b)
    BY <1>2, <1>5, <1>6, <1>7, SMT
  <1>9. \A i \in 1..Len(a) : a[i] = b[i]
    <2> TAKE i \in 1..Len(a)
    <2>1. m \in Nat /\ n \in Nat /\ m >= 1 /\ Len(a) = m + n - 1 /\ i \in 1..(m + n - 1)
      BY <1>2, <1>5
    <2>2. CASE i <= m - 1
      <3>1. i + 1 \in 1..(m + n) /\ i + 1 <= m /\ i \in 1..(m - 1)
        BY <2>1, <2>2, SMT
      <3>2. a[i] = s[i + 1]
        BY <1>1, <1>5, <3>1
      <3>3. i \in 1..Len(Tail(s)) /\ i \in 1..(Len(Tail(s)) + n) /\ i <= Len(Tail(s))
        BY <1>6, <2>1, <2>2, SMT
      <3>4. b[i] = s[i + 1]
        BY <1>6, <1>7, <3>3
      <3> QED BY <3>2, <3>4
    <2>3. CASE ~(i <= m - 1)
      <3>1. i + 1 \in 1..(m + n) /\ ~(i + 1 <= m) /\ i + 1 - m = i - (m - 1)
        BY <2>1, <2>3, SMT
      <3>2. a[i] = t[i + 1 - m]
        BY <1>1, <1>5, <3>1
      <3>3. i \in 1..(Len(Tail(s)) + n) /\ ~(i <= Len(Tail(s)))
        BY <1>6, <2>1, <2>3, SMT
      <3>4. b[i] = t[i - (m - 1)]
        BY <1>6, <1>7, <3>3
      <3> QED BY <3>1, <3>2, <3>4
    <2> QED BY <2>2, <2>3
  <1>10. a = b
    BY <1>5, <1>7, <1>8, <1>9, SeqEqual, Zenon
  <1> QED BY <1>4, <1>10 DEF a, b

LEMMA OnlySeq ==
  ASSUME NEW k \in Some
  PROVE  Only(k) \in Seq(Kinds) /\ (k # "none" => Only(k) = <<k>> /\ Only(k) # << >>)
  <1>1. << >> \in Seq(Kinds)
    OBVIOUS
  <1>2. k # "none" => k \in Kinds
    BY DEF Some
  <1>3. k # "none" => <<k>> \in Seq(Kinds) /\ <<k>> # << >>
    BY <1>2
  <1> QED BY <1>1, <1>3 DEF Only

LEMMA ConcatKinds ==
  ASSUME NEW s \in Seq(Kinds), NEW t \in Seq(Kinds), NEW u \in Seq(Kinds)
  PROVE  /\ s \o t \in Seq(Kinds) /\ s \o (t \o u) \in Seq(Kinds)
         /\ (s \o t) \o u = s \o (t \o u)
         /\ s \o << >> = s /\ << >> \o s = s
  BY ConcatProperties, ConcatAssociative, ConcatEmptySeq

(* The first round of a thread comes first in what it sends and awaits.    *)
LEMMA FirstRound ==
  ASSUME NEW todo \in Seq(RoundRec), todo # << >>, Len(todo) <= 3
  PROVE  /\ Sends(todo) = Only(Head(todo).reply) \o Sends(Tail(todo))
         /\ Awaits(todo) = Only(Head(todo).await) \o Awaits(Tail(todo))
         /\ Sends(todo) \in Seq(Kinds) /\ Awaits(todo) \in Seq(Kinds)
         /\ Sends(Tail(todo)) \in Seq(Kinds) /\ Awaits(Tail(todo)) \in Seq(Kinds)
         /\ Head(todo) \in RoundRec
  <1> DEFINE u == Tail(todo)
  <1>1. /\ u \in Seq(RoundRec) /\ Len(u) = Len(todo) - 1 /\ Len(todo) \in Nat /\ Len(todo) >= 1
        /\ \A i \in 1..Len(u) : u[i] = todo[i + 1]
        /\ Head(todo) \in RoundRec /\ Head(todo) = todo[1]
    <2>1. Len(todo) \in Nat \ {0}
      BY EmptySeq
    <2>2. Head(todo) = todo[1]
      OBVIOUS
    <2> QED BY <2>1, <2>2, HeadTailProperties, SMT
  <1>2. /\ \A i \in 1..3 : SentIn(todo, i) \in Seq(Kinds) /\ ReadIn(todo, i) \in Seq(Kinds)
        /\ \A i \in 1..3 : SentIn(u, i) \in Seq(Kinds) /\ ReadIn(u, i) \in Seq(Kinds)
    <2>1. ASSUME NEW w \in Seq(RoundRec), NEW i \in 1..3
          PROVE  SentIn(w, i) \in Seq(Kinds) /\ ReadIn(w, i) \in Seq(Kinds)
      <3>1. CASE i <= Len(w)
        <4>1. i \in 1..Len(w)
          BY <3>1, LenProperties, SMT
        <4>2. w[i] \in RoundRec
          BY <4>1, ElementOfSeq
        <4>3. w[i].reply \in Some /\ w[i].await \in Some
          BY <4>2 DEF RoundRec
        <4> QED BY <3>1, <4>3, OnlySeq DEF SentIn, ReadIn
      <3>2. CASE ~(i <= Len(w))
        BY <3>2 DEF SentIn, ReadIn
      <3> QED BY <3>1, <3>2
    <2> QED BY <1>1, <2>1
  <1>3. /\ SentIn(todo, 1) = Only(Head(todo).reply) /\ ReadIn(todo, 1) = Only(Head(todo).await)
        /\ SentIn(u, 1) = SentIn(todo, 2) /\ ReadIn(u, 1) = ReadIn(todo, 2)
        /\ SentIn(u, 2) = SentIn(todo, 3) /\ ReadIn(u, 2) = ReadIn(todo, 3)
        /\ SentIn(u, 3) = << >> /\ ReadIn(u, 3) = << >>
    <2>1. 1 <= Len(todo) /\ ~(3 <= Len(u))
      BY <1>1, SMT
    <2>2. (1 <= Len(u) <=> 2 <= Len(todo)) /\ (2 <= Len(u) <=> 3 <= Len(todo))
      BY <1>1, SMT
    <2>3. (1 <= Len(u) => u[1] = todo[2]) /\ (2 <= Len(u) => u[2] = todo[3])
      BY <1>1, SMT
    <2> HIDE DEF u
    <2> QED BY <1>1, <2>1, <2>2, <2>3 DEF SentIn, ReadIn
  <1>4. /\ Sends(u) = SentIn(todo, 2) \o SentIn(todo, 3)
        /\ Awaits(u) = ReadIn(todo, 2) \o ReadIn(todo, 3)
    <2>1. /\ Sends(u) = SentIn(todo, 2) \o (SentIn(todo, 3) \o << >>)
          /\ Awaits(u) = ReadIn(todo, 2) \o (ReadIn(todo, 3) \o << >>)
      BY <1>3, Zenon DEF Sends, Awaits
    <2>2. SentIn(todo, 3) \in Seq(Kinds) /\ ReadIn(todo, 3) \in Seq(Kinds)
      BY <1>2
    <2>3. SentIn(todo, 3) \o << >> = SentIn(todo, 3) /\ ReadIn(todo, 3) \o << >> = ReadIn(todo, 3)
      BY <2>2, ConcatKinds
    <2> QED BY <2>1, <2>3, Zenon
  <1>5. 1 \in 1..3 /\ 2 \in 1..3 /\ 3 \in 1..3
    BY SMT
  <1>6. /\ Sends(u) \in Seq(Kinds) /\ Awaits(u) \in Seq(Kinds)
        /\ Sends(todo) \in Seq(Kinds) /\ Awaits(todo) \in Seq(Kinds)
    BY <1>2, <1>4, <1>5, ConcatKinds DEF Sends, Awaits
  <1> QED BY <1>1, <1>3, <1>4, <1>6, Zenon DEF Sends, Awaits

LEMMA NoRounds == Sends(<< >>) = << >> /\ Awaits(<< >>) = << >>
  <1>1. Len(<< >>) = 0 /\ ~(1 <= 0) /\ ~(2 <= 0) /\ ~(3 <= 0)
    BY SMT
  <1>2. << >> \o << >> = << >>
    BY ConcatEmptySeq, EmptySeq
  <1> QED BY <1>1, <1>2 DEF Sends, Awaits, SentIn, ReadIn

LEMMA KindsTypes ==
  ASSUME NEW todo \in Seq(RoundRec), Len(todo) <= 3
  PROVE  Sends(todo) \in Seq(Kinds) /\ Awaits(todo) \in Seq(Kinds)
  <1>1. CASE todo = << >>
    BY <1>1, NoRounds, EmptySeq
  <1> QED BY <1>1, FirstRound

(***************************************************************************)
(* The flow from one party to another, step by step.                       *)
(***************************************************************************)
LEMMA ConcatThree ==
  ASSUME NEW x \in Seq(Kinds), NEW y \in Seq(Kinds), NEW z \in Seq(Kinds)
  PROVE  (x \o y) \o z = x \o (y \o z)
  BY ConcatAssociative

LEMMA JoinThree ==
  ASSUME NEW x \in Seq(Kinds), NEW y \in Seq(Kinds), NEW z \in Seq(Kinds)
  PROVE  (x \o y) \o z = x \o (y \o z) /\ y \o z \in Seq(Kinds)
  BY ConcatAssociative, ConcatProperties

(* A round that sends o.                                                   *)
LEMMA FlowSend ==
  ASSUME NEW c \in Seq(Kinds), NEW s \in Seq(Kinds), NEW r \in Seq(Kinds), NEW all \in Seq(Kinds),
         NEW tp \in Nat, NEW tq \in Nat, NEW o \in Seq(Kinds)
  PROVE  Flow(c, o \o s, r, all, tp, tq) => Flow(c \o o, s, r, all, tp, tq)
  <1>1. (c \o o) \o s = c \o (o \o s)
    BY ConcatThree, Zenon
  <1>2. (o \o s) \o all = o \o (s \o all)
    BY ConcatThree, Zenon
  <1> DEFINE v == s \o all
  <1>3. v \in Seq(Kinds)
    BY ConcatProperties
  <1> HIDE DEF v
  <1>4. (c \o o) \o v = c \o (o \o v)
    <2>1. \A x \in Seq(Kinds) : (c \o o) \o x = c \o (o \o x)
      BY ConcatThree
    <2> QED BY <1>3, <2>1, Zenon
  <1>5. (c \o o) \o (s \o all) = c \o ((o \o s) \o all)
    BY <1>2, <1>4, Zenon DEF v
  <1> QED BY <1>1, <1>5, Zenon DEF Flow

(* What is first on the way is what the reader awaits.                     *)
LEMMA FlowTake ==
  ASSUME NEW c \in Seq(Kinds), NEW s \in Seq(Kinds), NEW r \in Seq(Kinds), NEW all \in Seq(Kinds),
         NEW tp \in Nat, NEW tq \in Nat, NEW k \in Kinds, c # << >>,
         Flow(c, s, <<k>> \o r, all, tp, tq)
  PROVE  Head(c) = k /\ Flow(Tail(c), s, r, all, tp, tq)
  <1> DEFINE kr == <<k>> \o r
             u == Tail(c)
  <1>1. /\ <<k>> \in Seq(Kinds) /\ <<k>> # << >> /\ Head(<<k>>) = k
        /\ Tail(<<k>>) = << >>
    OBVIOUS
  <1>2. u \in Seq(Kinds) /\ kr \in Seq(Kinds)
    BY <1>1, HeadTailProperties, ConcatProperties
  <1>3. kr # << >> /\ Head(kr) = k /\ Tail(kr) = r
    <2>1. Head(kr) = k /\ Tail(kr) = << >> \o r
      BY <1>1, HeadTailConcat
    <2>2. kr # << >>
      BY <1>1, ConcatEqualIffEmpty
    <2> QED BY <2>1, <2>2, ConcatKinds
  <1>4. ASSUME NEW x \in Seq(Kinds) PROVE Head(c \o x) = Head(c) /\ Tail(c \o x) = u \o x
    BY <1>4, HeadTailConcat
  <1>5. ASSUME NEW x \in Seq(Kinds) PROVE Head(kr \o x) = k /\ Tail(kr \o x) = r \o x
    <2>1. Head(kr \o x) = Head(kr) /\ Tail(kr \o x) = Tail(kr) \o x
      BY <1>2, <1>3, <1>5, HeadTailConcat
    <2> QED BY <1>3, <2>1
  <1>6. s \o all \in Seq(Kinds)
    BY ConcatKinds
  <1>7. Flow(c, s, kr, all, tp, tq)
    OBVIOUS
  <1> HIDE DEF kr, u
  <1>8. /\ tp <= tq + 1
        /\ tp = tq => c \o s = kr
        /\ tp < tq => c \o (s \o all) = kr
        /\ tq < tp => c \o s = kr \o all
    BY <1>2, <1>7, Zenon DEF Flow
  <1>9. tp = tq => Head(c) = k /\ u \o s = r
    <2> SUFFICES ASSUME tp = tq PROVE Head(c) = k /\ u \o s = r
      OBVIOUS
    <2>1. c \o s = kr
      BY <1>8
    <2>2. Head(c \o s) = Head(c) /\ Tail(c \o s) = u \o s
      BY <1>4
    <2> QED BY <1>3, <2>1, <2>2, Zenon
  <1>10. tp < tq => Head(c) = k /\ u \o (s \o all) = r
    <2> SUFFICES ASSUME tp < tq PROVE Head(c) = k /\ u \o (s \o all) = r
      OBVIOUS
    <2>1. c \o (s \o all) = kr
      BY <1>8
    <2>2. Head(c \o (s \o all)) = Head(c) /\ Tail(c \o (s \o all)) = u \o (s \o all)
      BY <1>4, <1>6
    <2> QED BY <1>3, <2>1, <2>2, Zenon
  <1>11. tq < tp => Head(c) = k /\ u \o s = r \o all
    <2> SUFFICES ASSUME tq < tp PROVE Head(c) = k /\ u \o s = r \o all
      OBVIOUS
    <2>1. c \o s = kr \o all
      BY <1>8
    <2>2. Head(c \o s) = Head(c) /\ Tail(c \o s) = u \o s
      BY <1>4
    <2>3. Head(kr \o all) = k /\ Tail(kr \o all) = r \o all
      BY <1>5
    <2> QED BY <2>1, <2>2, <2>3, Zenon
  <1>12. Head(c) = k
    <2>1. tp = tq \/ tp < tq \/ tq < tp
      BY SMT
    <2> QED BY <1>9, <1>10, <1>11, <2>1, Zenon
  <1>13. Flow(u, s, r, all, tp, tq)
    BY <1>8, <1>9, <1>10, <1>11, Zenon DEF Flow
  <1> QED BY <1>12, <1>13 DEF u

(* A reader that awaits nothing more in its trial is not ahead.            *)
LEMMA FlowBound ==
  ASSUME NEW c \in Seq(Kinds), NEW s \in Seq(Kinds), NEW all \in Seq(Kinds), all # << >>,
         NEW tp \in Nat, NEW tq \in Nat, Flow(c, s, << >>, all, tp, tq)
  PROVE  tq <= tp /\ (tp = tq => c = << >> /\ s = << >>)
  <1>1. << >> \in Seq(Kinds) /\ s \o all \in Seq(Kinds)
    BY ConcatKinds, EmptySeq
  <1>2. /\ tp = tq => c \o s = << >>
        /\ tp < tq => c \o (s \o all) = << >>
    BY <1>1, Zenon DEF Flow
  <1>3. tp = tq => c = << >> /\ s = << >>
    BY <1>2, ConcatEqualIffEmpty
  <1>4. ~(tp < tq)
    <2> SUFFICES ASSUME tp < tq PROVE FALSE
      OBVIOUS
    <2>1. s \o all = << >>
      BY <1>1, <1>2, ConcatEqualIffEmpty
    <2> QED BY <2>1, ConcatEqualIffEmpty
  <1> QED BY <1>3, <1>4, SMT

(* The sender begins a trial: it is not ahead yet.                         *)
LEMMA FlowSenderBegins ==
  ASSUME NEW c \in Seq(Kinds), NEW r \in Seq(Kinds), NEW all \in Seq(Kinds),
         NEW tp \in Nat, NEW tq \in Nat, tp <= tq, tq <= tp + 1,
         Flow(c, << >>, r, all, tp, tq)
  PROVE  Flow(c, all, r, all, tp + 1, tq)
  <1>1. << >> \in Seq(Kinds)
    BY EmptySeq
  <1>2. /\ tp = tq => c \o << >> = r
        /\ tp < tq => c \o (<< >> \o all) = r
    BY <1>1, Zenon DEF Flow
  <1>3. c \o << >> = c /\ << >> \o all = all
    BY ConcatKinds
  <1>4. tp + 1 = tq => c \o all = r
    <2>1. tp + 1 = tq => tp < tq
      BY SMT
    <2> QED BY <1>2, <1>3, <2>1, Zenon
  <1>5. tq < tp + 1 => c \o all = r \o all
    <2>1. tq < tp + 1 => tp = tq
      BY SMT
    <2> QED BY <1>2, <1>3, <2>1, Zenon
  <1>6. ~(tp + 1 < tq)
    BY SMT
  <1>7. tp + 1 <= tq + 1 /\ tp + 1 \in Nat
    BY SMT
  <1> QED BY <1>4, <1>5, <1>6, <1>7, Zenon DEF Flow

(* The reader begins a trial: it is not ahead yet.                         *)
LEMMA FlowReaderBegins ==
  ASSUME NEW c \in Seq(Kinds), NEW s \in Seq(Kinds), NEW all \in Seq(Kinds),
         NEW tp \in Nat, NEW tq \in Nat, tq <= tp, Flow(c, s, << >>, all, tp, tq)
  PROVE  Flow(c, s, all, all, tp, tq + 1)
  <1>1. << >> \in Seq(Kinds)
    BY EmptySeq
  <1>2. /\ tp <= tq + 1
        /\ tp = tq => c \o s = << >>
        /\ tq < tp => c \o s = << >> \o all
    BY <1>1, Zenon DEF Flow
  <1>3. << >> \o all = all /\ (c \o s) \o all = c \o (s \o all)
    BY ConcatKinds
  <1>4. tp = tq + 1 => c \o s = all
    <2>1. tp = tq + 1 => tq < tp
      BY SMT
    <2> QED BY <1>2, <1>3, <2>1, Zenon
  <1>5. tp < tq + 1 => c \o (s \o all) = all
    <2>1. tp < tq + 1 => tp = tq
      BY SMT
    <2> QED BY <1>2, <1>3, <2>1, Zenon
  <1>6. ~(tq + 1 < tp) /\ tp <= (tq + 1) + 1 /\ tq + 1 \in Nat
    BY <1>2, SMT
  <1> QED BY <1>4, <1>5, <1>6, Zenon DEF Flow

(***************************************************************************)
(* In every phase, what a side of a channel sends is what the other one    *)
(* awaits.                                                                 *)
(***************************************************************************)
TalkRoles == {"send", "recv", "dualSend", "dualRecv"}

LEMMA KindsOfOne ==
  ASSUME NEW x \in RoundRec
  PROVE  Sends(<<x>>) = Only(x.reply) /\ Awaits(<<x>>) = Only(x.await)
  <1> DEFINE w == <<x>>
  <1>1. x.await \in Some /\ x.reply \in Some
    BY DEF RoundRec
  <1>2. w \in Seq(RoundRec) /\ Len(w) = 1 /\ w # << >> /\ Head(w) = x /\ Tail(w) = << >>
    OBVIOUS
  <1>3. Len(w) <= 3
    BY <1>2, SMT
  <1> HIDE DEF w
  <1>4. Sends(w) = Only(x.reply) \o << >> /\ Awaits(w) = Only(x.await) \o << >>
    BY <1>2, <1>3, FirstRound, NoRounds
  <1>5. Sends(w) = Only(x.reply) /\ Awaits(w) = Only(x.await)
    BY <1>1, <1>4, OnlySeq, ConcatKinds
  <1> QED BY <1>5 DEF w

LEMMA KindsOfTwo ==
  ASSUME NEW x \in RoundRec, NEW y \in RoundRec
  PROVE  /\ Sends(<<x, y>>) = Only(x.reply) \o Only(y.reply)
         /\ Awaits(<<x, y>>) = Only(x.await) \o Only(y.await)
  <1> DEFINE w == <<x, y>>
  <1>1. Sends(<<y>>) = Only(y.reply) /\ Awaits(<<y>>) = Only(y.await)
    BY KindsOfOne
  <1>2. w \in Seq(RoundRec) /\ Len(w) = 2 /\ w # << >> /\ Head(w) = x /\ Tail(w) = <<y>>
    OBVIOUS
  <1>3. Len(w) <= 3
    BY <1>2, SMT
  <1> HIDE DEF w
  <1>4. /\ Sends(w) = Only(x.reply) \o Only(y.reply)
        /\ Awaits(w) = Only(x.await) \o Only(y.await)
    BY <1>1, <1>2, <1>3, FirstRound
  <1> QED BY <1>4 DEF w

LEMMA KindsOfThree ==
  ASSUME NEW x \in RoundRec, NEW y \in RoundRec, NEW z \in RoundRec
  PROVE  /\ Sends(<<x, y, z>>) = Only(x.reply) \o (Only(y.reply) \o Only(z.reply))
         /\ Awaits(<<x, y, z>>) = Only(x.await) \o (Only(y.await) \o Only(z.await))
  <1> DEFINE w == <<x, y, z>>
  <1>1. /\ Sends(<<y, z>>) = Only(y.reply) \o Only(z.reply)
        /\ Awaits(<<y, z>>) = Only(y.await) \o Only(z.await)
    BY KindsOfTwo
  <1>2. w \in Seq(RoundRec) /\ Len(w) = 3 /\ w # << >> /\ Head(w) = x /\ Tail(w) = <<y, z>>
    OBVIOUS
  <1>3. Len(w) <= 3
    BY <1>2, SMT
  <1> HIDE DEF w
  <1>4. /\ Sends(w) = Only(x.reply) \o (Only(y.reply) \o Only(z.reply))
        /\ Awaits(w) = Only(x.await) \o (Only(y.await) \o Only(z.await))
    BY <1>1, <1>2, <1>3, FirstRound
  <1> QED BY <1>4 DEF w

LEMMA RoundFields ==
  ASSUME NEW a \in Some, NEW b \in Some
  PROVE  RoundOf(a, b) \in RoundRec /\ RoundOf(a, b).await = a /\ RoundOf(a, b).reply = b
  BY DEF RoundRec, RoundOf

LEMMA OnlyJoined ==
  ASSUME NEW a \in Some, NEW b \in Some
  PROVE  /\ Only("none") = << >>
         /\ Only(a) \o Only("none") = Only(a) /\ Only("none") \o Only(a) = Only(a)
         /\ Only(a) \o (Only(b) \o Only("none")) = Only(a) \o Only(b)
         /\ Only("none") \o (Only(a) \o Only(b)) = Only(a) \o Only(b)
  <1>1. Only("none") = << >>
    BY DEF Only
  <1>2. Only(a) \in Seq(Kinds) /\ Only(b) \in Seq(Kinds) /\ Only(a) \o Only(b) \in Seq(Kinds)
    BY OnlySeq, ConcatKinds
  <1>3. /\ Only(a) \o << >> = Only(a) /\ << >> \o Only(a) = Only(a)
        /\ Only(b) \o << >> = Only(b)
        /\ << >> \o (Only(a) \o Only(b)) = Only(a) \o Only(b)
    BY <1>2, ConcatKinds
  <1> QED BY <1>1, <1>3, Zenon

LEMMA StreamTable ==
  ASSUME NEW ph \in Working, NEW role \in TalkRoles
  PROVE  /\ Sends(Rounds(ph, role)) = Awaits(Rounds(ph, Opposite(role)))
         /\ Sends(Rounds(ph, Opposite(role))) = Awaits(Rounds(ph, role))
         /\ Opposite(role) \in TalkRoles
         /\ ph = "oprf" /\ role # "send" => Sends(Rounds(ph, role)) = Only("corr")
         /\ ph \in {"share", "leader"} /\ role # "recv" => Sends(Rounds(ph, role)) = Only("share")
  <1>1. {"none", "point", "keys", "matrix", "backMatrix", "corr", "share"} \subseteq Some
    BY DEF Some, Kinds
  <1>2. /\ Opposite("send") = "recv" /\ Opposite("recv") = "send"
        /\ Opposite("dualSend") = "dualRecv" /\ Opposite("dualRecv") = "dualSend"
    BY DEF Opposite
  <1>3. /\ Sends(Rounds("init", "send")) = Only("point") \o Only("matrix")
        /\ Awaits(Rounds("init", "send")) = Only("keys")
    <2>1. Rounds("init", "send") = <<RoundOf("none", "point"), RoundOf("keys", "matrix")>>
      BY RoundsTable
    <2>2. /\ RoundOf("none", "point") \in RoundRec
          /\ RoundOf("none", "point").await = "none"
          /\ RoundOf("none", "point").reply = "point"
          /\ RoundOf("keys", "matrix") \in RoundRec
          /\ RoundOf("keys", "matrix").await = "keys"
          /\ RoundOf("keys", "matrix").reply = "matrix"
      BY <1>1, RoundFields, Zenon
    <2>3. /\ Sends(<<RoundOf("none", "point"), RoundOf("keys", "matrix")>>) =
                 Only("point") \o Only("matrix")
          /\ Awaits(<<RoundOf("none", "point"), RoundOf("keys", "matrix")>>) =
                 Only("none") \o Only("keys")
      BY <2>2, KindsOfTwo, Zenon
    <2>4. Only("none") \o Only("keys") = Only("keys")
      BY <1>1, OnlyJoined, Zenon
    <2> QED BY <2>1, <2>3, <2>4, Zenon
  <1>4. /\ Sends(Rounds("init", "recv")) = Only("keys")
        /\ Awaits(Rounds("init", "recv")) = Only("point") \o Only("matrix")
    <2>1. Rounds("init", "recv") = <<RoundOf("point", "keys"), RoundOf("matrix", "none")>>
      BY RoundsTable
    <2>2. /\ RoundOf("point", "keys") \in RoundRec
          /\ RoundOf("point", "keys").await = "point"
          /\ RoundOf("point", "keys").reply = "keys"
          /\ RoundOf("matrix", "none") \in RoundRec
          /\ RoundOf("matrix", "none").await = "matrix"
          /\ RoundOf("matrix", "none").reply = "none"
      BY <1>1, RoundFields, Zenon
    <2>3. /\ Sends(<<RoundOf("point", "keys"), RoundOf("matrix", "none")>>) =
                 Only("keys") \o Only("none")
          /\ Awaits(<<RoundOf("point", "keys"), RoundOf("matrix", "none")>>) =
                 Only("point") \o Only("matrix")
      BY <2>2, KindsOfTwo, Zenon
    <2>4. /\ Only("keys") \o Only("none") = Only("keys")
      BY <1>1, OnlyJoined, Zenon
    <2> QED BY <2>1, <2>3, <2>4, Zenon
  <1>5. /\ Sends(Rounds("init", "dualSend")) = Only("point") \o Only("matrix")
        /\ Awaits(Rounds("init", "dualSend")) = Only("keys") \o Only("backMatrix")
    <2> DEFINE x == RoundOf("none", "point")
               y == RoundOf("keys", "matrix")
               z == RoundOf("backMatrix", "none")
    <2>1. Rounds("init", "dualSend") = <<x, y, z>>
      BY RoundsTable
    <2>2. /\ x \in RoundRec /\ x.await = "none" /\ x.reply = "point"
          /\ y \in RoundRec /\ y.await = "keys" /\ y.reply = "matrix"
          /\ z \in RoundRec /\ z.await = "backMatrix" /\ z.reply = "none"
      BY <1>1, RoundFields, Zenon
    <2> HIDE DEF x, y, z
    <2>3. /\ Sends(<<x, y, z>>) = Only("point") \o (Only("matrix") \o Only("none"))
          /\ Awaits(<<x, y, z>>) = Only("none") \o (Only("keys") \o Only("backMatrix"))
      <3>1. /\ Sends(<<x, y, z>>) = Only(x.reply) \o (Only(y.reply) \o Only(z.reply))
            /\ Awaits(<<x, y, z>>) = Only(x.await) \o (Only(y.await) \o Only(z.await))
        BY <2>2, KindsOfThree
      <3> QED BY <2>2, <3>1, Zenon
    <2>4. /\ Only("point") \o (Only("matrix") \o Only("none")) = Only("point") \o Only("matrix")
          /\ Only("none") \o (Only("keys") \o Only("backMatrix")) =
                 Only("keys") \o Only("backMatrix")
      BY <1>1, OnlyJoined, Zenon
    <2> QED BY <2>1, <2>3, <2>4, Zenon
  <1>6. /\ Sends(Rounds("init", "dualRecv")) = Only("keys") \o Only("backMatrix")
        /\ Awaits(Rounds("init", "dualRecv")) = Only("point") \o Only("matrix")
    <2>1. Rounds("init", "dualRecv") = <<RoundOf("point", "keys"), RoundOf("matrix", "backMatrix")>>
      BY RoundsTable
    <2>2. /\ RoundOf("point", "keys") \in RoundRec
          /\ RoundOf("point", "keys").await = "point"
          /\ RoundOf("point", "keys").reply = "keys"
          /\ RoundOf("matrix", "backMatrix") \in RoundRec
          /\ RoundOf("matrix", "backMatrix").await = "matrix"
          /\ RoundOf("matrix", "backMatrix").reply = "backMatrix"
      BY <1>1, RoundFields, Zenon
    <2>3. /\ Sends(<<RoundOf("point", "keys"), RoundOf("matrix", "backMatrix")>>) =
                 Only("keys") \o Only("backMatrix")
          /\ Awaits(<<RoundOf("point", "keys"), RoundOf("matrix", "backMatrix")>>) =
                 Only("point") \o Only("matrix")
      BY <2>2, KindsOfTwo, Zenon
    <2>4. Only("point") \o Only("matrix") = Only("point") \o Only("matrix")
      BY <1>1, OnlyJoined, Zenon
    <2> QED BY <2>1, <2>3, <2>4, Zenon
  <1>7. /\ Sends(Rounds("oprf", "send")) = << >>
        /\ Awaits(Rounds("oprf", "send")) = Only("corr")
    <2>1. Rounds("oprf", "send") = <<RoundOf("corr", "none")>>
      BY RoundsTable
    <2>2. /\ RoundOf("corr", "none") \in RoundRec
          /\ RoundOf("corr", "none").await = "corr"
          /\ RoundOf("corr", "none").reply = "none"
      BY <1>1, RoundFields, Zenon
    <2>3. /\ Sends(<<RoundOf("corr", "none")>>) = Only("none")
          /\ Awaits(<<RoundOf("corr", "none")>>) = Only("corr")
      BY <2>2, KindsOfOne, Zenon
    <2>4. Only("none") = << >> /\ Only("corr") = Only("corr")
      BY <1>1, OnlyJoined, Zenon
    <2> QED BY <2>1, <2>3, <2>4, Zenon
  <1>8. /\ Sends(Rounds("oprf", "recv")) = Only("corr")
        /\ Awaits(Rounds("oprf", "recv")) = << >>
    <2>1. Rounds("oprf", "recv") = <<RoundOf("none", "corr")>>
      BY RoundsTable
    <2>2. /\ RoundOf("none", "corr") \in RoundRec
          /\ RoundOf("none", "corr").await = "none"
          /\ RoundOf("none", "corr").reply = "corr"
      BY <1>1, RoundFields, Zenon
    <2>3. /\ Sends(<<RoundOf("none", "corr")>>) = Only("corr")
          /\ Awaits(<<RoundOf("none", "corr")>>) = Only("none")
      BY <2>2, KindsOfOne, Zenon
    <2>4. Only("corr") = Only("corr") /\ Only("none") = << >>
      BY <1>1, OnlyJoined, Zenon
    <2> QED BY <2>1, <2>3, <2>4, Zenon
  <1>9. /\ Sends(Rounds("oprf", "dualSend")) = Only("corr")
        /\ Awaits(Rounds("oprf", "dualSend")) = Only("corr")
    <2>1. Rounds("oprf", "dualSend") = <<RoundOf("corr", "corr")>>
      BY RoundsTable
    <2>2. /\ RoundOf("corr", "corr") \in RoundRec
          /\ RoundOf("corr", "corr").await = "corr"
          /\ RoundOf("corr", "corr").reply = "corr"
      BY <1>1, RoundFields, Zenon
    <2>3. /\ Sends(<<RoundOf("corr", "corr")>>) = Only("corr")
          /\ Awaits(<<RoundOf("corr", "corr")>>) = Only("corr")
      BY <2>2, KindsOfOne, Zenon
    <2>4. Only("corr") = Only("corr") /\ Only("corr") = Only("corr")
      BY <1>1, OnlyJoined, Zenon
    <2> QED BY <2>1, <2>3, <2>4, Zenon
  <1>10. /\ Sends(Rounds("oprf", "dualRecv")) = Only("corr")
         /\ Awaits(Rounds("oprf", "dualRecv")) = Only("corr")
    <2>1. Rounds("oprf", "dualRecv") = <<RoundOf("none", "corr"), RoundOf("corr", "none")>>
      BY RoundsTable
    <2>2. /\ RoundOf("none", "corr") \in RoundRec
          /\ RoundOf("none", "corr").await = "none"
          /\ RoundOf("none", "corr").reply = "corr"
          /\ RoundOf("corr", "none") \in RoundRec
          /\ RoundOf("corr", "none").await = "corr"
          /\ RoundOf("corr", "none").reply = "none"
      BY <1>1, RoundFields, Zenon
    <2>3. /\ Sends(<<RoundOf("none", "corr"), RoundOf("corr", "none")>>) =
                 Only("corr") \o Only("none")
          /\ Awaits(<<RoundOf("none", "corr"), RoundOf("corr", "none")>>) =
                 Only("none") \o Only("corr")
      BY <2>2, KindsOfTwo, Zenon
    <2>4. Only("corr") \o Only("none") = Only("corr") /\ Only("none") \o Only("corr") = Only("corr")
      BY <1>1, OnlyJoined, Zenon
    <2> QED BY <2>1, <2>3, <2>4, Zenon
  <1>11. ASSUME NEW f \in {"share", "leader"}
        PROVE  /\ Sends(Rounds(f, "send")) = Only("share")
               /\ Awaits(Rounds(f, "send")) = << >>
    <2>1. Rounds(f, "send") = <<RoundOf("none", "share")>>
      BY <1>11, RoundsTable
    <2>2. /\ RoundOf("none", "share") \in RoundRec
          /\ RoundOf("none", "share").await = "none"
          /\ RoundOf("none", "share").reply = "share"
      BY <1>1, RoundFields, Zenon
    <2>3. /\ Sends(<<RoundOf("none", "share")>>) = Only("share")
          /\ Awaits(<<RoundOf("none", "share")>>) = Only("none")
      BY <2>2, KindsOfOne, Zenon
    <2>4. Only("share") = Only("share") /\ Only("none") = << >>
      BY <1>1, OnlyJoined, Zenon
    <2> QED BY <2>1, <2>3, <2>4, Zenon
  <1>12. ASSUME NEW f \in {"share", "leader"}
        PROVE  /\ Sends(Rounds(f, "recv")) = << >>
               /\ Awaits(Rounds(f, "recv")) = Only("share")
    <2>1. Rounds(f, "recv") = <<RoundOf("share", "none")>>
      BY <1>12, RoundsTable
    <2>2. /\ RoundOf("share", "none") \in RoundRec
          /\ RoundOf("share", "none").await = "share"
          /\ RoundOf("share", "none").reply = "none"
      BY <1>1, RoundFields, Zenon
    <2>3. /\ Sends(<<RoundOf("share", "none")>>) = Only("none")
          /\ Awaits(<<RoundOf("share", "none")>>) = Only("share")
      BY <2>2, KindsOfOne, Zenon
    <2>4. Only("none") = << >> /\ Only("share") = Only("share")
      BY <1>1, OnlyJoined, Zenon
    <2> QED BY <2>1, <2>3, <2>4, Zenon
  <1>13. ASSUME NEW f \in {"share", "leader"}
        PROVE  /\ Sends(Rounds(f, "dualSend")) = Only("share")
               /\ Awaits(Rounds(f, "dualSend")) = Only("share")
    <2>1. Rounds(f, "dualSend") = <<RoundOf("none", "share"), RoundOf("share", "none")>>
      BY <1>13, RoundsTable
    <2>2. /\ RoundOf("none", "share") \in RoundRec
          /\ RoundOf("none", "share").await = "none"
          /\ RoundOf("none", "share").reply = "share"
          /\ RoundOf("share", "none") \in RoundRec
          /\ RoundOf("share", "none").await = "share"
          /\ RoundOf("share", "none").reply = "none"
      BY <1>1, RoundFields, Zenon
    <2>3. /\ Sends(<<RoundOf("none", "share"), RoundOf("share", "none")>>) =
                 Only("share") \o Only("none")
          /\ Awaits(<<RoundOf("none", "share"), RoundOf("share", "none")>>) =
                 Only("none") \o Only("share")
      BY <2>2, KindsOfTwo, Zenon
    <2>4. /\ Only("share") \o Only("none") = Only("share")
          /\ Only("none") \o Only("share") = Only("share")
      BY <1>1, OnlyJoined, Zenon
    <2> QED BY <2>1, <2>3, <2>4, Zenon
  <1>14. ASSUME NEW f \in {"share", "leader"}
        PROVE  /\ Sends(Rounds(f, "dualRecv")) = Only("share")
               /\ Awaits(Rounds(f, "dualRecv")) = Only("share")
    <2>1. Rounds(f, "dualRecv") = <<RoundOf("share", "none"), RoundOf("none", "share")>>
      BY <1>14, RoundsTable
    <2>2. /\ RoundOf("share", "none") \in RoundRec
          /\ RoundOf("share", "none").await = "share"
          /\ RoundOf("share", "none").reply = "none"
          /\ RoundOf("none", "share") \in RoundRec
          /\ RoundOf("none", "share").await = "none"
          /\ RoundOf("none", "share").reply = "share"
      BY <1>1, RoundFields, Zenon
    <2>3. /\ Sends(<<RoundOf("share", "none"), RoundOf("none", "share")>>) =
                 Only("none") \o Only("share")
          /\ Awaits(<<RoundOf("share", "none"), RoundOf("none", "share")>>) =
                 Only("share") \o Only("none")
      BY <2>2, KindsOfTwo, Zenon
    <2>4. /\ Only("none") \o Only("share") = Only("share")
          /\ Only("share") \o Only("none") = Only("share")
      BY <1>1, OnlyJoined, Zenon
    <2> QED BY <2>1, <2>3, <2>4, Zenon
  <1>15. CASE ph = "init"
    BY <1>2, <1>3, <1>4, <1>5, <1>6, <1>15, Zenon DEF TalkRoles
  <1>16. CASE ph = "oprf"
    BY <1>2, <1>7, <1>8, <1>9, <1>10, <1>16, Zenon DEF TalkRoles
  <1>17. CASE ph \in {"share", "leader"}
    BY <1>2, <1>11, <1>12, <1>13, <1>14, <1>17, Zenon DEF TalkRoles
  <1> QED BY <1>15, <1>16, <1>17 DEF Working

(***************************************************************************)
(* The roles of the two sides of a channel.                                *)
(***************************************************************************)
LEMMA AgendaOf ==
  ASSUME input \in Inputs, NEW p \in P, NEW ph \in Working, NEW s \in Spawned(p, ph)
  PROVE  Agenda(p, s.peer, ph) = Rounds(ph, s.role)
  <1> DEFINE u == CHOOSE x \in Spawned(p, ph) : x.peer = s.peer
  <1>1. u \in Spawned(p, ph) /\ u.peer = s.peer
    OBVIOUS
  <1> HIDE DEF u
  <1>2. u = s
    BY <1>1, PhasePeers
  <1> QED BY <1>2 DEF Agenda, u

Paired(p, q, role) ==
  /\ \A ph \in {"init", "oprf"} : Agenda(p, q, ph) = Rounds(ph, role)
  /\ leader \in {p, q} => /\ Agenda(p, q, "share") = << >>
                          /\ Agenda(p, q, "leader") = Rounds("leader", role)
  /\ leader \notin {p, q} => /\ Agenda(p, q, "share") = Rounds("share", role)
                             /\ Agenda(p, q, "leader") = << >>

LEMMA LeaderPaired ==
  ASSUME input \in Inputs, NEW q \in P, q # leader
  PROVE  Talk(leader, q) /\ Paired(leader, q, "recv")
  <1> USE InputFacts
  <1> DEFINE th == Thread(q, q, q, "recv")
  <1>1. th \in LeaderThreads(input.n) /\ th.peer = q /\ th.role = "recv"
    <2>1. q \in 0..(input.n - 2)
      BY DEF Clients
    <2> QED BY <2>1 DEF LeaderThreads, Thread
  <1> HIDE DEF th
  <1>2. \A ph \in {"init", "oprf", "leader"} : th \in Spawned(leader, ph)
    BY <1>1 DEF Spawned
  <1>3. \A ph \in {"init", "oprf", "leader"} : Agenda(leader, q, ph) = Rounds(ph, "recv")
    BY <1>1, <1>2, AgendaOf DEF Working
  <1>4. Agenda(leader, q, "share") = << >>
    BY DEF Agenda, Spawned
  <1> QED BY <1>1, <1>2, <1>3, <1>4 DEF Talk, Paired

LEMMA ClientLeader ==
  ASSUME input \in Inputs, NEW p \in P, p # leader
  PROVE  Talk(p, leader) /\ Paired(p, leader, "send")
  <1> USE InputFacts
  <1> DEFINE th(r) == LeaderThread(input.n, input.t, p, r)
  <1>1. \A r : th(r).peer = leader /\ th(r).role = r
    BY DEF LeaderThread, Thread
  <1>2. \A ph \in {"init", "oprf"} : th("send") \in Spawned(p, ph)
    BY DEF Spawned, ClientThreads
  <1>3. th("idle") \in Spawned(p, "share")
    BY DEF Spawned, ClientThreads
  <1> DEFINE u == Thread(0, leader, tSS(input.n, input.t), "send")
  <1>4. u \in Spawned(p, "leader") /\ u.peer = leader /\ u.role = "send"
    BY DEF Spawned, Thread
  <1> HIDE DEF th, u
  <1>5. \A ph \in {"init", "oprf"} : Agenda(p, leader, ph) = Rounds(ph, "send")
    BY <1>1, <1>2, AgendaOf DEF Working
  <1>6. Agenda(p, leader, "share") = << >>
    <2>1. Agenda(p, leader, "share") = Rounds("share", "idle")
      BY <1>1, <1>3, AgendaOf DEF Working
    <2> QED BY <2>1 DEF Rounds
  <1>7. Agenda(p, leader, "leader") = Rounds("leader", "send")
    BY <1>4, AgendaOf DEF Working
  <1> QED BY <1>1, <1>2, <1>5, <1>6, <1>7 DEF Talk, Paired

LEMMA ClientPaired ==
  ASSUME input \in Inputs, NEW p \in P, p # leader, NEW s \in Spawned(p, "oprf"), s.peer # leader
  PROVE  s.role \in TalkRoles /\ Paired(p, s.peer, s.role)
  <1> USE InputFacts
  <1>1. s.peer \in P \ {p} /\ p \in Int /\ s.peer \in Int
    <2>1. s.peer \in P \ {p}
      BY PhasePeers DEF Working
    <2> QED BY <2>1, SMT DEF Parties
  <1>2. s \in PrevThreads(input.n, input.t, p) \cup NextThreads(input.n, input.t, p)
    <2>1. s # LeaderThread(input.n, input.t, p, "send")
      BY DEF LeaderThread, Thread
    <2> QED BY <2>1 DEF Spawned, ClientThreads
  <1>3. \A ph \in {"init", "oprf", "share"} : s \in Spawned(p, ph)
    BY <1>2 DEF Spawned, ClientThreads
  <1>4. s.role \in TalkRoles
    <2>1. \A k, q, i, r : Thread(k, q, i, r).role = r /\ Thread(k, q, i, r).peer = q
      BY DEF Thread
    <2>2. CASE s \in PrevThreads(input.n, input.t, p)
      BY <2>1, <2>2 DEF PrevThreads, TalkRoles
    <2>3. CASE s \in NextThreads(input.n, input.t, p)
      <3>1. s.role \in {"send", dualRole(p, s.peer)}
        BY <2>1, <2>3 DEF NextThreads
      <3>2. p < s.peer \/ p > s.peer
        BY <1>1, SMT
      <3> QED BY <3>1, <3>2 DEF dualRole, TalkRoles
    <2> QED BY <1>2, <2>2, <2>3
  <1>5. \A ph \in {"init", "oprf", "share"} : Agenda(p, s.peer, ph) = Rounds(ph, s.role)
    BY <1>3, AgendaOf DEF Working
  <1>6. Agenda(p, s.peer, "leader") = << >>
    <2>1. \A x \in Spawned(p, "leader") : x.peer = leader
      BY DEF Spawned, Thread
    <2> QED BY <2>1 DEF Agenda
  <1> QED BY <1>4, <1>5, <1>6 DEF Paired

(* The two sides of a channel have opposite roles.                         *)
LEMMA PairRoles ==
  ASSUME input \in Inputs, NEW p \in P, NEW q \in P \ {p}, Talk(p, q)
  PROVE  /\ Talk(q, p)
         /\ \E role \in TalkRoles : Paired(p, q, role) /\ Paired(q, p, Opposite(role))
  <1> USE InputFacts
  <1>1. Opposite("send") = "recv" /\ Opposite("recv") = "send"
    BY DEF Opposite
  <1>2. CASE p = leader
    BY <1>1, <1>2, LeaderPaired, ClientLeader DEF TalkRoles
  <1>3. CASE q = leader
    BY <1>1, <1>3, LeaderPaired, ClientLeader DEF TalkRoles
  <1>4. CASE p # leader /\ q # leader
    <2>1. PICK s \in Spawned(p, "oprf") : s.peer = q
      BY DEF Talk
    <2>2. s.role \in TalkRoles /\ Paired(p, q, s.role)
      BY <1>4, <2>1, ClientPaired
    <2>3. PICK s2 \in Spawned(q, "oprf") : s2.peer = p /\ s2.role = Opposite(s.role)
      <3>1. /\ Spawned(p, "oprf") = ClientThreads(input.n, input.t, p, "send")
            /\ Spawned(q, "oprf") = ClientThreads(input.n, input.t, q, "send")
        BY <1>4 DEF Spawned
      <3>2. p \in Clients(input.n)
        BY <1>4
      <3> QED BY <1>4, <2>1, <3>1, <3>2, RolesMatch
    <2>4. Paired(q, p, Opposite(s.role))
      BY <1>4, <2>3, ClientPaired
    <2> QED BY <2>2, <2>3, <2>4 DEF Talk
  <1> QED BY <1>2, <1>3, <1>4

(* In every phase one side sends what the other awaits.                    *)
LEMMA PairStreams ==
  ASSUME input \in Inputs, NEW p \in P, NEW q \in P \ {p}, Talk(p, q), NEW ph \in Working
  PROVE  /\ Sends(Agenda(p, q, ph)) = Awaits(Agenda(q, p, ph))
         /\ Sends(Agenda(p, q, ph)) \in Seq(Kinds)
  <1>1. PICK role \in TalkRoles : Paired(p, q, role) /\ Paired(q, p, Opposite(role))
    BY PairRoles
  <1>2. /\ Sends(Rounds(ph, role)) = Awaits(Rounds(ph, Opposite(role)))
        /\ Sends(Rounds(ph, role)) \in Seq(Kinds)
    <2>1. Rounds(ph, role) \in Seq(RoundRec) /\ Len(Rounds(ph, role)) <= 3
      BY RoundsOf, RoundsLength DEF TalkRoles, Roles
    <2> QED BY <2>1, StreamTable, KindsTypes
  <1>3. \/ Agenda(p, q, ph) = Rounds(ph, role) /\ Agenda(q, p, ph) = Rounds(ph, Opposite(role))
        \/ Agenda(p, q, ph) = << >> /\ Agenda(q, p, ph) = << >>
    BY <1>1 DEF Paired, Working
  <1>4. CASE Agenda(p, q, ph) = Rounds(ph, role) /\ Agenda(q, p, ph) = Rounds(ph, Opposite(role))
    BY <1>2, <1>4
  <1>5. CASE Agenda(p, q, ph) = << >> /\ Agenda(q, p, ph) = << >>
    BY <1>5, NoRounds, EmptySeq
  <1> QED BY <1>3, <1>4, <1>5

(* In every trial each side sends the other something.                     *)
LEMMA SendsSome ==
  ASSUME input \in Inputs, NEW p \in P, NEW q \in P \ {p}, Talk(p, q)
  PROVE  \E ph \in {"oprf", "share", "leader"} : Sends(Agenda(p, q, ph)) # << >>
  <1>1. PICK role \in TalkRoles : Paired(p, q, role)
    BY PairRoles
  <1>2. Only("corr") # << >> /\ Only("share") # << >>
    BY OnlySeq DEF Some, Kinds
  <1>3. CASE role # "send"
    <2>1. Agenda(p, q, "oprf") = Rounds("oprf", role)
      BY <1>1 DEF Paired
    <2>2. Sends(Rounds("oprf", role)) = Only("corr")
      BY <1>3, StreamTable DEF Working
    <2> QED BY <1>2, <2>1, <2>2
  <1>4. CASE role = "send"
    <2>1. PICK ph \in {"share", "leader"} : Agenda(p, q, ph) = Rounds(ph, role)
      BY <1>1 DEF Paired
    <2>2. Sends(Rounds(ph, role)) = Only("share")
      BY <1>4, StreamTable DEF Working
    <2> QED BY <1>2, <2>1, <2>2
  <1> QED BY <1>3, <1>4

LEMMA ConcatSome ==
  ASSUME NEW x \in Seq(Kinds), NEW y \in Seq(Kinds), x # << >> \/ y # << >>
  PROVE  x \o y # << >>
  BY ConcatEqualIffEmpty

(* What follows a phase is the same on both sides.                         *)
LEMMA PairAfter ==
  ASSUME input \in Inputs, NEW p \in P, NEW q \in P \ {p}, Talk(p, q), NEW ph
  PROVE  /\ SendsAfter(p, q, ph) = AwaitsAfter(q, p, ph)
         /\ SendsAfter(p, q, ph) \in Seq(Kinds)
  <1> DEFINE x == Sends(Agenda(p, q, "oprf"))
             y == Sends(Agenda(p, q, "share"))
             z == Sends(Agenda(p, q, "leader"))
  <1>1. x \in Seq(Kinds) /\ y \in Seq(Kinds) /\ z \in Seq(Kinds)
    BY PairStreams DEF Working
  <1>2. /\ x = Awaits(Agenda(q, p, "oprf")) /\ y = Awaits(Agenda(q, p, "share"))
        /\ z = Awaits(Agenda(q, p, "leader"))
    BY PairStreams DEF Working
  <1>3. SendsAfter(p, q, ph) = CASE ph = "init"  -> x \o (y \o z)
                                 [] ph = "oprf"  -> y \o z
                                 [] ph = "share" -> z
                                 [] OTHER        -> << >>
    BY DEF SendsAfter
  <1>4. AwaitsAfter(q, p, ph) = CASE ph = "init"  -> x \o (y \o z)
                                  [] ph = "oprf"  -> y \o z
                                  [] ph = "share" -> z
                                  [] OTHER        -> << >>
    BY <1>2 DEF AwaitsAfter
  <1> HIDE DEF x, y, z
  <1>5. x \o (y \o z) \in Seq(Kinds) /\ y \o z \in Seq(Kinds) /\ << >> \in Seq(Kinds)
    BY <1>1, ConcatKinds, EmptySeq
  <1> QED BY <1>1, <1>3, <1>4, <1>5

LEMMA PairAll ==
  ASSUME input \in Inputs, NEW p \in P, NEW q \in P \ {p}, Talk(p, q)
  PROVE  /\ AllSends(p, q) = AllAwaits(q, p)
         /\ AllSends(p, q) \in Seq(Kinds) /\ AllSends(p, q) # << >>
  <1>1. FirstPhase \in {"init", "oprf"}
    BY DEF FirstPhase
  <1>2. /\ Sends(Agenda(p, q, FirstPhase)) = Awaits(Agenda(q, p, FirstPhase))
        /\ Sends(Agenda(p, q, FirstPhase)) \in Seq(Kinds)
    BY <1>1, PairStreams DEF Working
  <1>3. /\ SendsAfter(p, q, FirstPhase) = AwaitsAfter(q, p, FirstPhase)
        /\ SendsAfter(p, q, FirstPhase) \in Seq(Kinds)
    BY PairAfter
  <1>4. AllSends(p, q) = AllAwaits(q, p)
    BY <1>2, <1>3 DEF AllSends, AllAwaits
  <1>5. AllSends(p, q) \in Seq(Kinds)
    BY <1>2, <1>3, ConcatProperties DEF AllSends
  <1>6. Sends(Agenda(p, q, FirstPhase)) # << >> \/ SendsAfter(p, q, FirstPhase) # << >>
    <2> DEFINE x == Sends(Agenda(p, q, "oprf"))
               y == Sends(Agenda(p, q, "share"))
               z == Sends(Agenda(p, q, "leader"))
    <2>1. x \in Seq(Kinds) /\ y \in Seq(Kinds) /\ z \in Seq(Kinds)
      BY PairStreams DEF Working
    <2>2. x # << >> \/ y # << >> \/ z # << >>
      BY SendsSome
    <2>3. /\ FirstPhase = "init" => SendsAfter(p, q, FirstPhase) = x \o (y \o z)
          /\ FirstPhase = "oprf" => SendsAfter(p, q, FirstPhase) = y \o z
          /\ FirstPhase = "oprf" => Sends(Agenda(p, q, FirstPhase)) = x
      BY DEF SendsAfter
    <2> HIDE DEF x, y, z
    <2>4. y # << >> \/ z # << >> => y \o z # << >>
      BY <2>1, ConcatSome
    <2>5. x # << >> \/ y \o z # << >> => x \o (y \o z) # << >>
      BY <2>1, ConcatSome, ConcatKinds
    <2> QED BY <1>1, <2>2, <2>3, <2>4, <2>5
  <1>7. AllSends(p, q) # << >>
    BY <1>2, <1>3, <1>6, ConcatSome DEF AllSends
  <1> QED BY <1>4, <1>5, <1>7

(***************************************************************************)
(* The flow between two parties as a function of what a step changes: the  *)
(* messages on the way, and the threads, phases and trials of both sides.  *)
(***************************************************************************)
LeftIn(T, q) == IF \E th \in T : th.peer = q
                THEN (CHOOSE th \in T : th.peer = q).todo ELSE << >>

SendsLeft(p, q, T, f)  == Sends(LeftIn(T, q)) \o SendsAfter(p, q, f)
AwaitsLeft(q, p, T, f) == Awaits(LeftIn(T, p)) \o AwaitsAfter(q, p, f)

FlowAt(p, q, ch, Tp, fp, tp, Tq, fq, tq) ==
  Flow(KindsOf(ch), SendsLeft(p, q, Tp, fp), AwaitsLeft(q, p, Tq, fq), AllSends(p, q), tp, tq)

LEMMA FlowNow ==
  FlowInv <=> \A p \in P : \A q \in P \ {p} : Talk(p, q) =>
    FlowAt(p, q, chan[p][q], threads[p], phase[p], trial[p], threads[q], phase[q], trial[q])
  BY DEF FlowInv, FlowAt, SendsLeft, AwaitsLeft, StillSends, StillAwaits, LeftIn, Left

LEMMA FlowNext ==
  ASSUME UNCHANGED input
  PROVE  FlowInv' <=> \A p \in P : \A q \in P \ {p} : Talk(p, q) =>
    FlowAt(p, q, chan'[p][q], threads'[p], phase'[p], trial'[p], threads'[q], phase'[q], trial'[q])
  <1>1. P' = P /\ \A p, ph : Spawned(p, ph)' = Spawned(p, ph)
    BY InputFrame
  <1>2. \A p, q : Talk(p, q)' = Talk(p, q)
    BY <1>1 DEF Talk
  <1>3. \A p, q, ph : Agenda(p, q, ph)' = Agenda(p, q, ph)
    BY <1>1 DEF Agenda
  <1>4. /\ \A p, q, ph : SendsAfter(p, q, ph)' = SendsAfter(p, q, ph)
        /\ \A p, q, ph : AwaitsAfter(q, p, ph)' = AwaitsAfter(q, p, ph)
        /\ \A p, q : AllSends(p, q)' = AllSends(p, q)
    BY <1>3 DEF SendsAfter, AwaitsAfter, AllSends
  <1>5. \A p, q : Left(p, q)' = LeftIn(threads'[p], q)
    BY DEF Left, LeftIn
  <1>6. /\ \A p, q : StillSends(p, q)' = SendsLeft(p, q, threads'[p], phase'[p])
        /\ \A p, q : StillAwaits(q, p)' = AwaitsLeft(q, p, threads'[q], phase'[q])
    BY <1>4, <1>5 DEF StillSends, StillAwaits, SendsLeft, AwaitsLeft
  <1> QED BY <1>1, <1>2, <1>4, <1>6 DEF FlowInv, FlowAt

(* Threads that have just been started have all their rounds left.         *)
LEMMA LeftStarted ==
  ASSUME input \in Inputs, NEW p \in P, NEW q, NEW ph \in Working
  PROVE  LeftIn(Started(p, ph), q) = Agenda(p, q, ph)
  <1> DEFINE Begin(s) == [peer |-> s.peer, pay |-> s.pay, slot |-> s.slot,
                          todo |-> Rounds(ph, s.role)]
             S == Spawned(p, ph)
             T == Started(p, ph)
  <1>1. T = {Begin(s) : s \in S}
    BY DEF Started
  <1>2. \A s : Begin(s).peer = s.peer /\ Begin(s).todo = Rounds(ph, s.role)
    OBVIOUS
  <1> HIDE DEF Begin, T
  <1>3. CASE \E s \in S : s.peer = q
    <2> DEFINE u == CHOOSE th \in T : th.peer = q
    <2>1. u \in T /\ u.peer = q
      BY <1>1, <1>2, <1>3
    <2>2. LeftIn(T, q) = u.todo
      BY <2>1 DEF LeftIn
    <2> HIDE DEF u
    <2>3. PICK s \in S : u = Begin(s)
      BY <1>1, <2>1
    <2>4. s.peer = q /\ u.todo = Rounds(ph, s.role)
      BY <1>2, <2>1, <2>3
    <2>5. Agenda(p, s.peer, ph) = Rounds(ph, s.role)
      BY AgendaOf
    <2> QED BY <2>2, <2>4, <2>5 DEF T
  <1>4. CASE ~ \E s \in S : s.peer = q
    <2>1. LeftIn(T, q) = << >>
      BY <1>1, <1>2, <1>4 DEF LeftIn
    <2> QED BY <1>4, <2>1 DEF T, Agenda
  <1> QED BY <1>3, <1>4

LEMMA LeftNothing ==
  ASSUME NEW T, NEW q, \A th \in T : th.todo = << >>
  PROVE  LeftIn(T, q) = << >>
  BY DEF LeftIn

(* A party that has joined the threads of a phase has left what comes      *)
(* after it, and so it has at the start of the next one.                   *)
LEMMA LeftJoined ==
  ASSUME input \in Inputs, NEW p \in P, NEW q \in P \ {p}, Talk(p, q),
         NEW T, \A th \in T : th.todo = << >>, NEW f
  PROVE  /\ SendsLeft(p, q, T, f) = SendsAfter(p, q, f)
         /\ AwaitsLeft(p, q, T, f) = AwaitsAfter(p, q, f)
  <1>1. LeftIn(T, q) = << >>
    BY LeftNothing
  <1>2. SendsAfter(p, q, f) \in Seq(Kinds) /\ AwaitsAfter(p, q, f) \in Seq(Kinds)
    BY PairAfter, PairRoles
  <1>3. /\ SendsLeft(p, q, T, f) = << >> \o SendsAfter(p, q, f)
        /\ AwaitsLeft(p, q, T, f) = << >> \o AwaitsAfter(p, q, f)
    BY <1>1, NoRounds DEF SendsLeft, AwaitsLeft
  <1> QED BY <1>2, <1>3, ConcatKinds

LEMMA LeftEntered ==
  ASSUME input \in Inputs, NEW p \in P, NEW q \in P \ {p}, Talk(p, q),
         NEW f, NEW g, <<f, g>> \in {<<"init", "oprf">>, <<"oprf", "share">>, <<"share", "leader">>}
  PROVE  /\ SendsLeft(p, q, Started(p, g), g) = SendsAfter(p, q, f)
         /\ AwaitsLeft(p, q, Started(p, g), g) = AwaitsAfter(p, q, f)
  <1>1. \/ f = "init" /\ g = "oprf"
        \/ f = "oprf" /\ g = "share"
        \/ f = "share" /\ g = "leader"
    OBVIOUS
  <1>2. g \in Working
    BY <1>1 DEF Working
  <1>3. /\ SendsLeft(p, q, Started(p, g), g) = Sends(Agenda(p, q, g)) \o SendsAfter(p, q, g)
        /\ AwaitsLeft(p, q, Started(p, g), g) = Awaits(Agenda(p, q, g)) \o AwaitsAfter(p, q, g)
    BY <1>2, LeftStarted DEF SendsLeft, AwaitsLeft
  <1>4. /\ Sends(Agenda(p, q, "leader")) \in Seq(Kinds)
        /\ Awaits(Agenda(p, q, "leader")) \in Seq(Kinds)
    BY PairStreams, PairRoles DEF Working
  <1>5. /\ Sends(Agenda(p, q, "leader")) \o << >> = Sends(Agenda(p, q, "leader"))
        /\ Awaits(Agenda(p, q, "leader")) \o << >> = Awaits(Agenda(p, q, "leader"))
    BY <1>4, ConcatKinds
  <1> QED BY <1>1, <1>3, <1>5 DEF SendsAfter, AwaitsAfter

LEMMA LeftBegun ==
  ASSUME input \in Inputs, NEW p \in P, NEW q \in P \ {p}, Talk(p, q)
  PROVE  /\ SendsLeft(p, q, Started(p, FirstPhase), FirstPhase) = AllSends(p, q)
         /\ AwaitsLeft(p, q, Started(p, FirstPhase), FirstPhase) = AllSends(q, p)
  <1>1. FirstPhase \in Working
    BY DEF FirstPhase, Working
  <1>2. AwaitsLeft(p, q, Started(p, FirstPhase), FirstPhase) = AllAwaits(p, q)
    BY <1>1, LeftStarted DEF AwaitsLeft, AllAwaits
  <1>3. AllAwaits(p, q) = AllSends(q, p)
    BY PairAll, PairRoles
  <1> QED BY <1>1, <1>2, <1>3, LeftStarted DEF SendsLeft, AllSends

(***************************************************************************)
(* The flow is kept by every step.                                         *)
(***************************************************************************)
LEMMA KindsOfMessages ==
  ASSUME NEW c \in Seq(MessageRec)
  PROVE  /\ KindsOf(c) \in Seq(Kinds)
         /\ \A m \in MessageRec : KindsOf(Append(c, m)) = KindsOf(c) \o <<m.kind>>
         /\ c # << >> => /\ KindsOf(c) # << >> /\ Head(KindsOf(c)) = Head(c).kind
                         /\ KindsOf(Tail(c)) = Tail(KindsOf(c))
  <1> DEFINE k == KindsOf(c)
  <1>1. Len(c) \in Nat /\ DOMAIN c = 1..Len(c) /\ \A i \in 1..Len(c) : c[i] \in MessageRec
    BY LenProperties, ElementOfSeq
  <1>2. k = [i \in 1..Len(c) |-> c[i].kind] /\ \A i \in 1..Len(c) : c[i].kind \in Kinds
    BY <1>1 DEF KindsOf, MessageRec
  <1>3. k \in Seq(Kinds) /\ Len(k) = Len(c) /\ \A i \in 1..Len(c) : k[i] = c[i].kind
    BY <1>1, <1>2
  <1>4. ASSUME NEW m \in MessageRec PROVE KindsOf(Append(c, m)) = k \o <<m.kind>>
    <2> DEFINE d == Append(c, m)
               e == <<m.kind>>
               h == KindsOf(d)
               x == k \o e
    <2>1. /\ d \in Seq(MessageRec) /\ Len(d) = Len(c) + 1 /\ DOMAIN d = 1..Len(d)
          /\ \A i \in 1..Len(c) : d[i] = c[i]
          /\ d[Len(c) + 1] = m
      BY AppendProperties
    <2>2. e \in Seq(Kinds) /\ Len(e) = 1 /\ e[1] = m.kind
      BY DEF MessageRec
    <2>3. h = [i \in 1..Len(d) |-> d[i].kind] /\ \A i \in 1..Len(d) : d[i].kind \in Kinds
      <3>1. \A i \in 1..Len(d) : d[i] \in MessageRec
        BY <2>1, ElementOfSeq
      <3> QED BY <2>1, <3>1 DEF KindsOf, MessageRec
    <2> HIDE DEF k, d, e
    <2>4. h \in Seq(Kinds) /\ Len(h) = Len(c) + 1 /\ \A i \in 1..(Len(c) + 1) : h[i] = d[i].kind
      BY <1>1, <2>1, <2>3
    <2>5. /\ x \in Seq(Kinds) /\ Len(x) = Len(k) + Len(e)
          /\ \A i \in 1..(Len(k) + Len(e)) : x[i] = IF i <= Len(k) THEN k[i] ELSE e[i - Len(k)]
      <3>1. k \in Seq(Kinds) /\ e \in Seq(Kinds)
        BY <1>3, <2>2
      <3> QED BY <3>1, ConcatProperties, Zenon
    <2> HIDE DEF h, x
    <2>6. Len(x) = Len(c) + 1
      BY <1>3, <2>2, <2>5
    <2>7. \A i \in 1..(Len(c) + 1) : h[i] = x[i]
      <3> TAKE i \in 1..(Len(c) + 1)
      <3>1. CASE i <= Len(c)
        <4>1. i \in 1..Len(c) /\ i \in 1..(Len(k) + Len(e)) /\ i <= Len(k)
          BY <1>1, <1>3, <2>2, <3>1, SMT
        <4> QED BY <1>3, <2>1, <2>4, <2>5, <4>1
      <3>2. CASE ~(i <= Len(c))
        <4>1. i = Len(c) + 1 /\ i \in 1..(Len(k) + Len(e)) /\ ~(i <= Len(k)) /\ i - Len(k) = 1
          BY <1>1, <1>3, <2>2, <3>2, SMT
        <4> QED BY <2>1, <2>2, <2>4, <2>5, <4>1
      <3> QED BY <3>1, <3>2
    <2>8. h = x
      BY <2>4, <2>5, <2>6, <2>7, SeqEqual
    <2> QED BY <2>8 DEF h, x, d, e
  <1>5. ASSUME c # << >>
        PROVE  k # << >> /\ Head(k) = Head(c).kind /\ KindsOf(Tail(c)) = Tail(k)
    <2> DEFINE u == Tail(c)
               h == KindsOf(u)
               x == Tail(k)
    <2>1. /\ u \in Seq(MessageRec) /\ Len(u) = Len(c) - 1 /\ DOMAIN u = 1..Len(u)
          /\ \A i \in 1..Len(u) : u[i] = c[i + 1]
      BY <1>5, HeadTailProperties, LenProperties
    <2>2. Len(c) # 0 /\ Head(c) = c[1]
      BY <1>5, EmptySeq
    <2>3. k # << >>
      BY <1>3, <2>2, EmptySeq
    <2>4. Head(k) = Head(c).kind
      <3>1. 1 \in 1..Len(c)
        BY <1>1, <2>2, SMT
      <3>2. Head(k) = k[1]
        BY <1>3, <2>3
      <3> QED BY <1>3, <2>2, <3>1, <3>2
    <2>5. h = [i \in 1..Len(u) |-> u[i].kind] /\ \A i \in 1..Len(u) : u[i].kind \in Kinds
      <3>1. \A i \in 1..Len(u) : u[i] \in MessageRec
        BY <2>1, ElementOfSeq
      <3> QED BY <2>1, <3>1 DEF KindsOf, MessageRec
    <2>6. Len(u) \in Nat
      BY <2>1, LenProperties
    <2> HIDE DEF k, u
    <2>7. h \in Seq(Kinds) /\ Len(h) = Len(u) /\ \A i \in 1..Len(u) : h[i] = u[i].kind
      BY <2>5, <2>6
    <2>8. x \in Seq(Kinds) /\ Len(x) = Len(k) - 1 /\ \A i \in 1..Len(x) : x[i] = k[i + 1]
      BY <1>3, <2>3, HeadTailProperties
    <2> HIDE DEF h, x
    <2>9. \A i \in 1..Len(u) : h[i] = x[i]
      <3> TAKE i \in 1..Len(u)
      <3>1. i + 1 \in 1..Len(c) /\ i \in 1..Len(x)
        BY <1>1, <1>3, <2>1, <2>8, SMT
      <3> QED BY <1>3, <2>1, <2>7, <2>8, <3>1
    <2>10. Len(x) = Len(h)
      BY <1>3, <2>1, <2>7, <2>8
    <2>11. h = x
      BY <2>7, <2>8, <2>9, <2>10, SeqEqual
    <2> QED BY <2>3, <2>4, <2>11 DEF h, x, u
  <1> QED BY <1>3, <1>4, <1>5

(* A party goes on, with what it has left to send and to await unchanged.  *)
Keeps(p) ==
  /\ UNCHANGED <<input, trial, chan>>
  /\ \A q \in P \ {p} : threads'[q] = threads[q] /\ phase'[q] = phase[q]
  /\ \A q \in P \ {p} : Talk(p, q) =>
       /\ SendsLeft(p, q, threads'[p], phase'[p]) = SendsLeft(p, q, threads[p], phase[p])
       /\ AwaitsLeft(p, q, threads'[p], phase'[p]) = AwaitsLeft(p, q, threads[p], phase[p])

LEMMA MoveKeeps ==
  ASSUME Inv, NEW p \in P, InitDone(p) \/ OprfDone(p) \/ ShareDone(p)
  PROVE  Keeps(p)
  <1>1. PICK f, g : /\ <<f, g>> \in {<<"init", "oprf">>, <<"oprf", "share">>, <<"share", "leader">>}
                    /\ phase[p] = f /\ Joined(p) /\ Enter(p, g)
    BY DEF InitDone, OprfDone, ShareDone
  <1>2. UNCHANGED <<input, trial, chan>>
    BY DEF InitDone, OprfDone, ShareDone
  <1>3. input \in Inputs /\ g \in Working
    BY <1>1 DEF Inv, Working
  <1>4. /\ phase' = [phase EXCEPT ![p] = g]
        /\ threads' = [threads EXCEPT ![p] = Started(p, g)]
    BY <1>1, <1>3, Entered
  <1>5. \A th \in threads[p] : th.todo = << >>
    BY <1>1 DEF Joined
  <1>6. ASSUME NEW q \in P \ {p}, Talk(p, q)
        PROVE  /\ SendsLeft(p, q, Started(p, g), g) = SendsLeft(p, q, threads[p], phase[p])
               /\ AwaitsLeft(p, q, Started(p, g), g) = AwaitsLeft(p, q, threads[p], phase[p])
    <2>1. /\ SendsLeft(p, q, threads[p], f) = SendsAfter(p, q, f)
          /\ AwaitsLeft(p, q, threads[p], f) = AwaitsAfter(p, q, f)
      BY <1>3, <1>5, <1>6, LeftJoined
    <2>2. /\ SendsLeft(p, q, Started(p, g), g) = SendsAfter(p, q, f)
          /\ AwaitsLeft(p, q, Started(p, g), g) = AwaitsAfter(p, q, f)
      BY <1>1, <1>3, <1>6, LeftEntered
    <2> QED BY <1>1, <2>1, <2>2
  <1>7. /\ \A q \in P \ {p} : threads'[q] = threads[q] /\ phase'[q] = phase[q]
        /\ threads'[p] = Started(p, g) /\ phase'[p] = g
    BY <1>4, <1>6 DEF Inv
  <1> QED BY <1>2, <1>6, <1>7 DEF Keeps

LEMMA EndKeeps ==
  ASSUME Inv, NEW p \in P, LeaderDone(p)
  PROVE  Keeps(p)
  <1>1. PICK g \in {"start", "done"} :
          /\ UNCHANGED <<input, trial, chan>>
          /\ phase' = [phase EXCEPT ![p] = g]
          /\ threads' = [threads EXCEPT ![p] = {}]
    BY DEF LeaderDone
  <1>2. input \in Inputs /\ phase[p] = "leader" /\ \A th \in threads[p] : th.todo = << >>
    BY DEF Inv, LeaderDone, Joined
  <1>3. \A q, f : f \in {"leader", "start", "done"} =>
          SendsAfter(p, q, f) = << >> /\ AwaitsAfter(p, q, f) = << >>
    BY DEF SendsAfter, AwaitsAfter
  <1>4. ASSUME NEW q \in P \ {p}, Talk(p, q)
        PROVE  /\ SendsLeft(p, q, {}, g) = SendsLeft(p, q, threads[p], phase[p])
               /\ AwaitsLeft(p, q, {}, g) = AwaitsLeft(p, q, threads[p], phase[p])
    <2>1. /\ SendsLeft(p, q, threads[p], "leader") = << >>
          /\ AwaitsLeft(p, q, threads[p], "leader") = << >>
      BY <1>2, <1>3, <1>4, LeftJoined
    <2>2. SendsLeft(p, q, {}, g) = << >> /\ AwaitsLeft(p, q, {}, g) = << >>
      BY <1>2, <1>3, <1>4, LeftJoined
    <2> QED BY <1>2, <2>1, <2>2
  <1>5. /\ \A q \in P \ {p} : threads'[q] = threads[q] /\ phase'[q] = phase[q]
        /\ threads'[p] = {} /\ phase'[p] = g
    BY <1>1, <1>4 DEF Inv
  <1> QED BY <1>1, <1>4, <1>5 DEF Keeps

LEMMA FlowKept ==
  ASSUME Inv, FlowInv, NEW p \in P, Keeps(p)
  PROVE  FlowInv'
  <1> USE DEF Keeps
  <1>1. input \in Inputs /\ threads \in [P -> SUBSET ThreadRec] /\ phase \in [P -> Alive]
    BY DEF Inv
  <1>2. SUFFICES ASSUME NEW a \in P, NEW b \in P \ {a}, Talk(a, b)
                 PROVE  FlowAt(a, b, chan'[a][b], threads'[a], phase'[a], trial'[a],
                               threads'[b], phase'[b], trial'[b])
    BY FlowNext
  <1>3. FlowAt(a, b, chan[a][b], threads[a], phase[a], trial[a], threads[b], phase[b], trial[b])
    BY <1>2, FlowNow
  <1>4. SendsLeft(a, b, threads'[a], phase'[a]) = SendsLeft(a, b, threads[a], phase[a])
    <2>1. CASE a = p
      BY <1>1, <1>2, <2>1
    <2>2. CASE a # p
      BY <1>1, <2>2
    <2> QED BY <2>1, <2>2
  <1>5. AwaitsLeft(b, a, threads'[b], phase'[b]) = AwaitsLeft(b, a, threads[b], phase[b])
    <2>1. CASE b = p
      <3>1. Talk(b, a)
        BY <1>1, <1>2, PairRoles
      <3> QED BY <1>1, <2>1, <3>1
    <2>2. CASE b # p
      BY <1>1, <2>2
    <2> QED BY <2>1, <2>2
  <1> QED BY <1>3, <1>4, <1>5 DEF FlowAt

LEMMA LeftTypes ==
  ASSUME Inv, NEW p \in P, NEW q
  PROVE  LeftIn(threads[p], q) \in Seq(RoundRec) /\ Len(LeftIn(threads[p], q)) <= 3
  <1>1. \A th \in threads[p] : th.todo \in Seq(RoundRec) /\ Len(th.todo) <= 3
    BY DEF Inv, ThreadsOf, ThreadRec, Runs
  <1>2. CASE \E th \in threads[p] : th.peer = q
    BY <1>1, <1>2 DEF LeftIn
  <1>3. CASE ~ \E th \in threads[p] : th.peer = q
    <2>1. LeftIn(threads[p], q) = << >>
      BY <1>3 DEF LeftIn
    <2>2. Len(<< >>) = 0 /\ 0 <= 3
      BY SMT
    <2> QED BY <2>1, <2>2, EmptySeq
  <1> QED BY <1>2, <1>3

(* The thread of a party for a peer has all that is left for that peer.    *)
LEMMA LeftOf ==
  ASSUME Inv, NEW p \in P, NEW th \in threads[p]
  PROVE  /\ LeftIn(threads[p], th.peer) = th.todo
         /\ \A th2 \in threads[p] : th2.peer = th.peer => th2 = th
  <1>1. /\ input \in Inputs /\ phase[p] \in Working
        /\ ThreadsOf(threads[p], Spawned(p, phase[p]), phase[p])
    BY DEF Inv
  <1>2. ASSUME NEW th2 \in threads[p], th2.peer = th.peer PROVE th2 = th
    <2>1. PICK s \in Spawned(p, phase[p]) : Runs(th, s, phase[p])
      BY <1>1 DEF ThreadsOf
    <2>2. PICK s2 \in Spawned(p, phase[p]) : Runs(th2, s2, phase[p])
      BY <1>1, <1>2 DEF ThreadsOf
    <2>3. s2 = s
      BY <1>1, <1>2, <2>1, <2>2, PhasePeers DEF Runs
    <2>4. th2.slot = th.slot
      BY <2>1, <2>2, <2>3 DEF Runs
    <2> QED BY <1>1, <1>2, <2>4 DEF ThreadsOf
  <1> DEFINE u == CHOOSE x \in threads[p] : x.peer = th.peer
  <1>3. u \in threads[p] /\ u.peer = th.peer /\ LeftIn(threads[p], th.peer) = u.todo
    BY DEF LeftIn
  <1> HIDE DEF u
  <1>4. u = th
    BY <1>2, <1>3
  <1> QED BY <1>2, <1>3, <1>4

LEMMA FlowTypes ==
  ASSUME Inv, TypeInv, NEW p \in P, NEW q \in P \ {p}, Talk(p, q)
  PROVE  /\ KindsOf(chan[p][q]) \in Seq(Kinds)
         /\ SendsLeft(p, q, threads[p], phase[p]) \in Seq(Kinds)
         /\ AwaitsLeft(q, p, threads[q], phase[q]) \in Seq(Kinds)
         /\ trial[p] \in Nat /\ trial[q] \in Nat
  <1>1. chan[p][q] \in Seq(MessageRec)
    BY DEF TypeInv
  <1>2. KindsOf(chan[p][q]) \in Seq(Kinds)
    BY <1>1, KindsOfMessages
  <1>3. /\ SendsAfter(p, q, phase[p]) \in Seq(Kinds)
        /\ AwaitsAfter(q, p, phase[q]) \in Seq(Kinds)
    BY PairAfter DEF Inv
  <1>4. Sends(LeftIn(threads[p], q)) \in Seq(Kinds) /\ Awaits(LeftIn(threads[q], p)) \in Seq(Kinds)
    BY LeftTypes, KindsTypes
  <1>5. trial[p] \in Nat /\ trial[q] \in Nat
    <2>1. trial[p] \in 0..Trials /\ trial[q] \in 0..Trials
      BY DEF TypeInv
    <2> QED BY <2>1, TrialsAssumption, SMT
  <1> QED BY <1>2, <1>3, <1>4, <1>5, ConcatProperties DEF SendsLeft, AwaitsLeft

(* A party about to begin a trial has finished the one before, and is at   *)
(* most as far as those it talks to, and at most one trial behind.         *)
LEMMA FlowBegin ==
  ASSUME Inv, TypeInv, FlowInv, NEW p \in P, BeginTrial(p)
  PROVE  FlowInv'
  <1> DEFINE f == FirstPhase
  <1>1. /\ input \in Inputs /\ phase[p] = "start" /\ threads[p] = {} /\ f \in Working
        /\ threads \in [P -> SUBSET ThreadRec] /\ phase \in [P -> Alive]
    BY DEF Inv, BeginTrial, Working, FirstPhase
  <1>2. UNCHANGED <<input, chan>> /\ trial' = [trial EXCEPT ![p] = trial[p] + 1]
    BY DEF BeginTrial
  <1>3. /\ phase' = [phase EXCEPT ![p] = f]
        /\ threads' = [threads EXCEPT ![p] = Started(p, f)]
    BY <1>1, Entered DEF BeginTrial
  <1>4. /\ phase'[p] = f /\ threads'[p] = Started(p, f) /\ trial'[p] = trial[p] + 1
        /\ \A q \in P \ {p} : phase'[q] = phase[q] /\ threads'[q] = threads[q] /\ trial'[q] = trial[q]
    BY <1>1, <1>2, <1>3 DEF TypeInv
  <1>5. ASSUME NEW q \in P \ {p}, Talk(p, q)
        PROVE  /\ SendsLeft(p, q, threads[p], phase[p]) = << >>
               /\ AwaitsLeft(p, q, threads[p], phase[p]) = << >>
               /\ SendsLeft(p, q, threads'[p], phase'[p]) = AllSends(p, q)
               /\ AwaitsLeft(p, q, threads'[p], phase'[p]) = AllSends(q, p)
    <2>1. SendsAfter(p, q, "start") = << >> /\ AwaitsAfter(p, q, "start") = << >>
      BY DEF SendsAfter, AwaitsAfter
    <2> QED BY <1>1, <1>4, <1>5, <2>1, LeftJoined, LeftBegun
  <1>6. ASSUME NEW q \in P \ {p}, Talk(p, q)
        PROVE  trial[p] <= trial[q] /\ trial[q] <= trial[p] + 1
    <2>1. Talk(q, p) /\ q \in P /\ p \in P \ {q}
      BY <1>1, <1>6, PairRoles
    <2>2. FlowAt(q, p, chan[q][p], threads[q], phase[q], trial[q], threads[p], phase[p], trial[p])
      BY <2>1, FlowNow
    <2>3. Flow(KindsOf(chan[q][p]), SendsLeft(q, p, threads[q], phase[q]), << >>, AllSends(q, p),
               trial[q], trial[p])
      BY <1>5, <1>6, <2>2 DEF FlowAt
    <2>4. trial[p] <= trial[q]
      BY <1>1, <2>1, <2>3, FlowTypes, PairAll, FlowBound
    <2>5. trial[q] <= trial[p] + 1
      BY <2>3 DEF Flow
    <2> QED BY <2>4, <2>5
  <1>7. SUFFICES ASSUME NEW a \in P, NEW b \in P \ {a}, Talk(a, b)
                 PROVE  FlowAt(a, b, chan'[a][b], threads'[a], phase'[a], trial'[a],
                               threads'[b], phase'[b], trial'[b])
    BY <1>2, FlowNext
  <1>8. FlowAt(a, b, chan[a][b], threads[a], phase[a], trial[a], threads[b], phase[b], trial[b])
    BY <1>7, FlowNow
  <1>9. CASE a = p
    <2>1. Flow(KindsOf(chan[a][b]), << >>, AwaitsLeft(b, a, threads[b], phase[b]), AllSends(a, b),
               trial[a], trial[b])
      BY <1>5, <1>7, <1>8, <1>9 DEF FlowAt
    <2>2. trial[a] <= trial[b] /\ trial[b] <= trial[a] + 1
      BY <1>6, <1>7, <1>9
    <2>3. Flow(KindsOf(chan[a][b]), AllSends(a, b), AwaitsLeft(b, a, threads[b], phase[b]),
               AllSends(a, b), trial[a] + 1, trial[b])
      BY <1>1, <1>7, <2>1, <2>2, FlowTypes, PairAll, FlowSenderBegins
    <2> QED BY <1>2, <1>4, <1>5, <1>7, <1>9, <2>3 DEF FlowAt
  <1>10. CASE b = p
    <2>1. Talk(b, a) /\ a \in P \ {b}
      BY <1>1, <1>7, PairRoles
    <2>2. Flow(KindsOf(chan[a][b]), SendsLeft(a, b, threads[a], phase[a]), << >>, AllSends(a, b),
               trial[a], trial[b])
      BY <1>5, <1>8, <1>10, <2>1 DEF FlowAt
    <2>3. trial[b] <= trial[a]
      BY <1>6, <1>10, <2>1
    <2>4. Flow(KindsOf(chan[a][b]), SendsLeft(a, b, threads[a], phase[a]), AllSends(a, b),
               AllSends(a, b), trial[a], trial[b] + 1)
      BY <1>1, <1>7, <2>2, <2>3, FlowTypes, PairAll, FlowReaderBegins
    <2> QED BY <1>2, <1>4, <1>5, <1>10, <2>1, <2>4 DEF FlowAt
  <1>11. CASE a # p /\ b # p
    BY <1>2, <1>4, <1>7, <1>8, <1>11
  <1> QED BY <1>9, <1>10, <1>11

(* A party has a peer in no phase that it does not have in all trials.     *)
LEMMA TalkAlways ==
  ASSUME input \in Inputs, NEW p \in P, NEW ph \in Working, NEW s \in Spawned(p, ph)
  PROVE  Talk(p, s.peer)
  <1>1. CASE p = leader
    <2>1. s \in Spawned(p, "oprf")
      BY <1>1 DEF Spawned
    <2> QED BY <2>1 DEF Talk
  <1>2. CASE p # leader /\ s.peer = leader
    BY <1>2, ClientLeader
  <1>3. CASE p # leader /\ s.peer # leader
    <2>1. ph # "leader"
      BY <1>3 DEF Spawned, Thread
    <2>2. s \in PrevThreads(input.n, input.t, p) \cup NextThreads(input.n, input.t, p)
      <3>1. PICK r : s \in ClientThreads(input.n, input.t, p, r)
        BY <1>3, <2>1 DEF Spawned
      <3>2. s # LeaderThread(input.n, input.t, p, r)
        BY <1>3, InputFacts DEF LeaderThread, Thread
      <3> QED BY <3>1, <3>2 DEF ClientThreads
    <2>3. s \in Spawned(p, "oprf")
      BY <1>3, <2>2 DEF Spawned, ClientThreads
    <2> QED BY <2>3 DEF Talk
  <1> QED BY <1>1, <1>2, <1>3

(* What a round takes from the thread that does it, and what it leaves to  *)
(* the other threads.                                                      *)
LEMMA RoundLeft ==
  ASSUME Inv, NEW p \in P, NEW th \in threads[p], RunRound(p, th)
  PROVE  /\ th.peer \in P \ {p} /\ Talk(p, th.peer)
         /\ Head(th.todo) \in RoundRec
         /\ SendsLeft(p, th.peer, threads[p], phase[p]) =
              Only(Head(th.todo).reply) \o SendsLeft(p, th.peer, threads'[p], phase[p])
         /\ AwaitsLeft(p, th.peer, threads[p], phase[p]) =
              Only(Head(th.todo).await) \o AwaitsLeft(p, th.peer, threads'[p], phase[p])
         /\ SendsLeft(p, th.peer, threads'[p], phase[p]) \in Seq(Kinds)
         /\ AwaitsLeft(p, th.peer, threads'[p], phase[p]) \in Seq(Kinds)
         /\ \A q : q # th.peer => LeftIn(threads'[p], q) = LeftIn(threads[p], q)
  <1> DEFINE q == th.peer
             r == Head(th.todo)
             nth == [th EXCEPT !.todo = Tail(@)]
             T == (threads[p] \ {th}) \cup {nth}
  <1>1. /\ input \in Inputs /\ phase[p] \in Working /\ threads \in [P -> SUBSET ThreadRec]
        /\ ThreadsOf(threads[p], Spawned(p, phase[p]), phase[p])
    BY DEF Inv
  <1>2. threads'[p] = T /\ th.todo # << >>
    BY <1>1 DEF RunRound, CanRun
  <1>3. PICK s \in Spawned(p, phase[p]) : Runs(th, s, phase[p])
    BY <1>1 DEF ThreadsOf
  <1>4. q \in P \ {p} /\ Talk(p, q)
    BY <1>1, <1>3, PhasePeers, TalkAlways DEF Runs
  <1>5. th \in ThreadRec /\ th.todo \in Seq(RoundRec) /\ Len(th.todo) <= 3
    BY <1>1, <1>3 DEF ThreadsOf, ThreadRec, Runs
  <1>6. nth.peer = q /\ nth.todo = Tail(th.todo)
    BY <1>5 DEF ThreadRec
  <1>7. LeftIn(threads[p], q) = th.todo /\ \A x \in threads[p] : x.peer = q => x = th
    BY LeftOf
  <1> HIDE DEF nth, q
  <1>8. LeftIn(T, q) = Tail(th.todo)
    <2>1. \A x \in T : x.peer = q => x = nth
      BY <1>7
    <2>2. nth \in T
      OBVIOUS
    <2> HIDE DEF T
    <2> QED BY <1>6, <2>1, <2>2 DEF LeftIn
  <1>9. ASSUME NEW b, b # q PROVE LeftIn(T, b) = LeftIn(threads[p], b)
    <2>1. {x \in T : x.peer = b} = {x \in threads[p] : x.peer = b}
      BY <1>6, <1>9 DEF q
    <2> DEFINE U == threads[p]
    <2> HIDE DEF T, U
    <2>2. \A x : (x \in T /\ x.peer = b) <=> (x \in U /\ x.peer = b)
      BY <2>1 DEF U
    <2>3. (CHOOSE x : x \in T /\ x.peer = b) = (CHOOSE x : x \in U /\ x.peer = b)
      BY <2>2, Zenon
    <2>4. /\ (CHOOSE x \in T : x.peer = b) = (CHOOSE x : x \in T /\ x.peer = b)
          /\ (CHOOSE x \in U : x.peer = b) = (CHOOSE x : x \in U /\ x.peer = b)
      BY Zenon
    <2>5. LeftIn(T, b) = LeftIn(U, b)
      BY <2>2, <2>3, <2>4 DEF LeftIn
    <2> QED BY <2>5 DEF U
  <1>10. /\ Sends(th.todo) = Only(r.reply) \o Sends(Tail(th.todo))
         /\ Awaits(th.todo) = Only(r.await) \o Awaits(Tail(th.todo))
         /\ Sends(Tail(th.todo)) \in Seq(Kinds) /\ Awaits(Tail(th.todo)) \in Seq(Kinds)
         /\ r \in RoundRec
    BY <1>2, <1>5, FirstRound
  <1>11. Only(r.reply) \in Seq(Kinds) /\ Only(r.await) \in Seq(Kinds)
    BY <1>10, OnlySeq DEF RoundRec
  <1>12. SendsAfter(p, q, phase[p]) \in Seq(Kinds) /\ AwaitsAfter(p, q, phase[p]) \in Seq(Kinds)
    BY <1>1, <1>4, PairAfter, PairRoles
  <1>13. /\ SendsLeft(p, q, threads[p], phase[p]) = Sends(th.todo) \o SendsAfter(p, q, phase[p])
         /\ AwaitsLeft(p, q, threads[p], phase[p]) = Awaits(th.todo) \o AwaitsAfter(p, q, phase[p])
         /\ SendsLeft(p, q, T, phase[p]) = Sends(Tail(th.todo)) \o SendsAfter(p, q, phase[p])
         /\ AwaitsLeft(p, q, T, phase[p]) = Awaits(Tail(th.todo)) \o AwaitsAfter(p, q, phase[p])
    BY <1>7, <1>8, Zenon DEF SendsLeft, AwaitsLeft
  <1> DEFINE o == Only(r.reply)
             a == Only(r.await)
             st == Sends(Tail(th.todo))
             at == Awaits(Tail(th.todo))
             sa == SendsAfter(p, q, phase[p])
             aa == AwaitsAfter(p, q, phase[p])
  <1>14. o \in Seq(Kinds) /\ a \in Seq(Kinds) /\ st \in Seq(Kinds) /\ at \in Seq(Kinds)
         /\ sa \in Seq(Kinds) /\ aa \in Seq(Kinds)
    BY <1>10, <1>11, <1>12
  <1>15. /\ SendsLeft(p, q, threads[p], phase[p]) = (o \o st) \o sa
         /\ AwaitsLeft(p, q, threads[p], phase[p]) = (a \o at) \o aa
         /\ SendsLeft(p, q, T, phase[p]) = st \o sa
         /\ AwaitsLeft(p, q, T, phase[p]) = at \o aa
    BY <1>10, <1>13, Zenon
  <1> HIDE DEF o, a, st, at, sa, aa, T
  <1>16. (o \o st) \o sa = o \o (st \o sa) /\ st \o sa \in Seq(Kinds)
    <2>1. o \in Seq(Kinds) /\ st \in Seq(Kinds) /\ sa \in Seq(Kinds)
      BY <1>14
    <2> QED BY <2>1, JoinThree, Zenon
  <1>17. (a \o at) \o aa = a \o (at \o aa) /\ at \o aa \in Seq(Kinds)
    <2>1. a \in Seq(Kinds) /\ at \in Seq(Kinds) /\ aa \in Seq(Kinds)
      BY <1>14
    <2> QED BY <2>1, JoinThree, Zenon
  <1>18. /\ SendsLeft(p, q, threads[p], phase[p]) = o \o SendsLeft(p, q, T, phase[p])
         /\ AwaitsLeft(p, q, threads[p], phase[p]) = a \o AwaitsLeft(p, q, T, phase[p])
         /\ SendsLeft(p, q, T, phase[p]) \in Seq(Kinds)
         /\ AwaitsLeft(p, q, T, phase[p]) \in Seq(Kinds)
    BY <1>15, <1>16, <1>17, Zenon
  <1> QED BY <1>2, <1>4, <1>9, <1>10, <1>18, Zenon DEF o, a, q

(* What a round takes from one channel and puts on the other.              *)
LEMMA RoundChan ==
  ASSUME Inv, TypeInv, NEW p \in P, NEW th \in threads[p], RunRound(p, th)
  PROVE  /\ KindsOf(chan'[p][th.peer]) = KindsOf(chan[p][th.peer]) \o Only(Head(th.todo).reply)
         /\ Head(th.todo).await = "none" => chan'[th.peer][p] = chan[th.peer][p]
         /\ Head(th.todo).await # "none" => /\ chan[th.peer][p] # << >>
                                            /\ chan'[th.peer][p] = Tail(chan[th.peer][p])
         /\ \A a, b \in P : (a # p \/ b # th.peer) /\ (a # th.peer \/ b # p)
                              => chan'[a][b] = chan[a][b]
  <1> DEFINE q == th.peer
             r == Head(th.todo)
             x == IF r.await = "none" THEN chan[q][p] ELSE Tail(chan[q][p])
             y == IF r.reply = "none" THEN chan[p][q]
                  ELSE Append(chan[p][q], Message(p, th, r.reply))
  <1>1. /\ q \in P /\ q # p /\ r \in RoundRec
        /\ r.reply # "none" => Message(p, th, r.reply) \in MessageRec
    BY RoundThread
  <1>2. chan \in [P -> [P -> Seq(MessageRec)]]
    BY DEF TypeInv
  <1>3. chan' = [chan EXCEPT ![q][p] = x, ![p][q] = y]
    BY <1>1, <1>2 DEF RunRound
  <1>4. r.await # "none" => chan[q][p] # << >>
    BY DEF RunRound, CanRun
  <1> HIDE DEF x, y, q
  <1>5. chan'[q][p] = x /\ chan'[p][q] = y
    BY <1>1, <1>2, <1>3
  <1>6. \A a, b \in P : (a # p \/ b # q) /\ (a # q \/ b # p) => chan'[a][b] = chan[a][b]
    BY <1>1, <1>2, <1>3
  <1>7. KindsOf(y) = KindsOf(chan[p][q]) \o Only(r.reply)
    <2>1. chan[p][q] \in Seq(MessageRec)
      BY <1>1, <1>2
    <2>2. CASE r.reply = "none"
      <3>1. KindsOf(chan[p][q]) \o << >> = KindsOf(chan[p][q])
        BY <2>1, KindsOfMessages, ConcatKinds
      <3> QED BY <2>2, <3>1 DEF y, Only
    <2>3. CASE r.reply # "none"
      <3>1. Message(p, th, r.reply).kind = r.reply
        BY DEF Message
      <3>2. KindsOf(Append(chan[p][q], Message(p, th, r.reply))) = KindsOf(chan[p][q]) \o <<r.reply>>
        BY <1>1, <2>1, <2>3, <3>1, KindsOfMessages
      <3> QED BY <2>3, <3>2 DEF y, Only
    <2> QED BY <2>2, <2>3
  <1> QED BY <1>4, <1>5, <1>6, <1>7 DEF x, q

LEMMA FlowRound ==
  ASSUME Inv, TypeInv, FlowInv, NEW p \in P, NEW th \in threads[p], RunRound(p, th)
  PROVE  FlowInv'
  <1> DEFINE q == th.peer
             r == Head(th.todo)
             f == phase[p]
  <1>1. /\ UNCHANGED <<input, trial, phase>> /\ input \in Inputs
        /\ \A x \in P \ {p} : threads'[x] = threads[x]
    BY DEF RunRound, Inv
  <1>2. /\ q \in P \ {p} /\ Talk(p, q) /\ r \in RoundRec
        /\ SendsLeft(p, q, threads[p], f) = Only(r.reply) \o SendsLeft(p, q, threads'[p], f)
        /\ AwaitsLeft(p, q, threads[p], f) = Only(r.await) \o AwaitsLeft(p, q, threads'[p], f)
        /\ SendsLeft(p, q, threads'[p], f) \in Seq(Kinds)
        /\ AwaitsLeft(p, q, threads'[p], f) \in Seq(Kinds)
        /\ \A b : b # q => LeftIn(threads'[p], b) = LeftIn(threads[p], b)
    BY RoundLeft
  <1>3. Only(r.reply) \in Seq(Kinds) /\ Only(r.await) \in Seq(Kinds)
    BY <1>2, OnlySeq DEF RoundRec
  <1>4. SUFFICES ASSUME NEW a \in P, NEW b \in P \ {a}, Talk(a, b)
                 PROVE  FlowAt(a, b, chan'[a][b], threads'[a], phase'[a], trial'[a],
                               threads'[b], phase'[b], trial'[b])
    BY <1>1, FlowNext
  <1>5. FlowAt(a, b, chan[a][b], threads[a], phase[a], trial[a], threads[b], phase[b], trial[b])
    BY <1>4, FlowNow
  <1> HIDE DEF q, r
  <1>6. CASE a = p /\ b = q
    <2>1. KindsOf(chan'[a][b]) = KindsOf(chan[a][b]) \o Only(r.reply)
      BY <1>6, RoundChan DEF q, r
    <2>2. Flow(KindsOf(chan[a][b]), Only(r.reply) \o SendsLeft(a, b, threads'[a], f),
               AwaitsLeft(b, a, threads[b], phase[b]), AllSends(a, b), trial[a], trial[b])
      BY <1>2, <1>5, <1>6 DEF FlowAt
    <2>3. Flow(KindsOf(chan[a][b]) \o Only(r.reply), SendsLeft(a, b, threads'[a], f),
               AwaitsLeft(b, a, threads[b], phase[b]), AllSends(a, b), trial[a], trial[b])
      BY <1>1, <1>2, <1>3, <1>4, <1>6, <2>2, FlowTypes, PairAll, FlowSend
    <2> QED BY <1>1, <1>6, <2>1, <2>3 DEF FlowAt
  <1>7. CASE a = q /\ b = p
    <2>1. /\ r.await = "none" => chan'[a][b] = chan[a][b]
          /\ r.await # "none" => chan[a][b] # << >> /\ chan'[a][b] = Tail(chan[a][b])
      BY <1>7, RoundChan DEF q, r
    <2>2. Flow(KindsOf(chan[a][b]), SendsLeft(a, b, threads[a], phase[a]),
               Only(r.await) \o AwaitsLeft(b, a, threads'[b], f), AllSends(a, b), trial[a], trial[b])
      BY <1>2, <1>5, <1>7 DEF FlowAt
    <2>3. CASE r.await = "none"
      <3>1. Only(r.await) \o AwaitsLeft(b, a, threads'[b], f) = AwaitsLeft(b, a, threads'[b], f)
        BY <1>2, <1>7, <2>3, ConcatKinds DEF Only
      <3> QED BY <1>1, <1>4, <1>7, <2>1, <2>2, <2>3, <3>1 DEF FlowAt
    <2>4. CASE r.await # "none"
      <3>1. r.await \in Kinds /\ Only(r.await) = <<r.await>>
        BY <1>2, <2>4, OnlySeq DEF RoundRec, Some
      <3>2. chan[a][b] \in Seq(MessageRec) /\ chan[a][b] # << >>
        BY <1>4, <2>1, <2>4 DEF TypeInv
      <3>3. /\ KindsOf(chan[a][b]) # << >>
            /\ KindsOf(chan'[a][b]) = Tail(KindsOf(chan[a][b]))
        BY <2>1, <2>4, <3>2, KindsOfMessages
      <3>4. Flow(KindsOf(chan[a][b]), SendsLeft(a, b, threads[a], phase[a]),
                 <<r.await>> \o AwaitsLeft(b, a, threads'[b], f), AllSends(a, b), trial[a], trial[b])
        BY <2>2, <3>1
      <3>5. Flow(Tail(KindsOf(chan[a][b])), SendsLeft(a, b, threads[a], phase[a]),
                 AwaitsLeft(b, a, threads'[b], f), AllSends(a, b), trial[a], trial[b])
        BY <1>1, <1>2, <1>4, <1>7, <3>1, <3>3, <3>4, FlowTypes, PairAll, FlowTake
      <3> QED BY <1>1, <1>4, <1>7, <3>3, <3>5 DEF FlowAt
    <2> QED BY <2>3, <2>4
  <1>8. CASE ~(a = p /\ b = q) /\ ~(a = q /\ b = p)
    <2>1. chan'[a][b] = chan[a][b]
      BY <1>4, <1>8, RoundChan DEF q
    <2>2. SendsLeft(a, b, threads'[a], phase[a]) = SendsLeft(a, b, threads[a], phase[a])
      BY <1>1, <1>2, <1>4, <1>8 DEF SendsLeft
    <2>3. AwaitsLeft(b, a, threads'[b], phase[b]) = AwaitsLeft(b, a, threads[b], phase[b])
      BY <1>1, <1>2, <1>4, <1>8 DEF AwaitsLeft
    <2> QED BY <1>1, <1>5, <2>1, <2>2, <2>3 DEF FlowAt
  <1> QED BY <1>6, <1>7, <1>8

LEMMA FlowInit == Init => FlowInv
  <1> SUFFICES ASSUME Init PROVE FlowInv
    OBVIOUS
  <1>1. input \in Inputs
    BY DEF Init
  <1>2. SUFFICES ASSUME NEW p \in P, NEW q \in P \ {p}, Talk(p, q)
                 PROVE  FlowAt(p, q, chan[p][q], threads[p], phase[p], trial[p],
                               threads[q], phase[q], trial[q])
    BY FlowNow
  <1>3. /\ chan[p][q] = << >> /\ threads[p] = {} /\ threads[q] = {}
        /\ phase[p] = "start" /\ phase[q] = "start" /\ trial[p] = 0 /\ trial[q] = 0
    BY DEF Init
  <1>4. KindsOf(<< >>) = << >>
    BY DEF KindsOf
  <1>5. Talk(q, p) /\ p \in P \ {q}
    BY <1>1, <1>2, PairRoles
  <1>6. SendsLeft(p, q, {}, "start") = << >>
    <2>1. SendsAfter(p, q, "start") = << >>
      BY DEF SendsAfter
    <2> QED BY <1>1, <1>2, <2>1, LeftJoined
  <1>7. AwaitsLeft(q, p, {}, "start") = << >>
    <2>1. AwaitsAfter(q, p, "start") = << >>
      BY DEF AwaitsAfter
    <2> QED BY <1>1, <1>5, <2>1, LeftJoined
  <1>8. Flow(<< >>, << >>, << >>, AllSends(p, q), 0, 0)
    <2>1. << >> \o << >> = << >>
      BY ConcatKinds, EmptySeq
    <2>2. 0 <= 0 + 1 /\ ~(0 < 0)
      BY SMT
    <2> QED BY <2>1, <2>2, Zenon DEF Flow
  <1> QED BY <1>3, <1>4, <1>6, <1>7, <1>8, Zenon DEF FlowAt

LEMMA FlowStep ==
  ASSUME Inv, TypeInv, FlowInv, [Next]_vars
  PROVE  FlowInv'
  <1>1. ASSUME NEW p \in P, MainStep(p) PROVE FlowInv'
    BY <1>1, FlowBegin, MoveKeeps, EndKeeps, FlowKept DEF MainStep
  <1>2. ASSUME NEW p \in P, ThreadStep(p) PROVE FlowInv'
    BY <1>2, FlowRound DEF ThreadStep
  <1>3. CASE UNCHANGED vars
    <2>1. UNCHANGED <<input, trial, phase, threads, chan>>
      BY <1>3 DEF vars
    <2> QED BY <2>1, FlowNow, FlowNext
  <1> QED BY <1>1, <1>2, <1>3 DEF Next, Finished

(***************************************************************************)
(* In every state, between any two parties that talk, the messages on the  *)
(* way and those still to be sent are the ones still to be read.           *)
(***************************************************************************)
THEOREM SpecFlow == Spec => [](Inv /\ TypeInv /\ FlowInv)
  <1>1. Init => FlowInv
    BY FlowInit
  <1>2. Inv /\ TypeInv /\ FlowInv /\ [Next]_vars => FlowInv'
    BY FlowStep
  <1> QED BY <1>1, <1>2, SpecType, PTL DEF Spec

(* What a thread that waits for a message still awaits.                    *)
LEMMA AwaitsFirst ==
  ASSUME Inv, NEW p \in P, NEW th \in threads[p], th.todo # << >>
  PROVE  /\ th.peer \in P \ {p} /\ Talk(p, th.peer) /\ Head(th.todo) \in RoundRec
         /\ \E r \in Seq(Kinds) : AwaitsLeft(p, th.peer, threads[p], phase[p]) =
                                    Only(Head(th.todo).await) \o r
  <1> DEFINE q == th.peer
             k == Only(Head(th.todo).await)
             at == Awaits(Tail(th.todo))
             aa == AwaitsAfter(p, q, phase[p])
  <1>1. /\ input \in Inputs /\ phase[p] \in Working
        /\ ThreadsOf(threads[p], Spawned(p, phase[p]), phase[p])
    BY DEF Inv
  <1>2. PICK s \in Spawned(p, phase[p]) : Runs(th, s, phase[p])
    BY <1>1 DEF ThreadsOf
  <1>3. q \in P \ {p} /\ Talk(p, q)
    BY <1>1, <1>2, PhasePeers, TalkAlways DEF Runs
  <1>4. th.todo \in Seq(RoundRec) /\ Len(th.todo) <= 3
    BY <1>1, <1>2 DEF ThreadsOf, ThreadRec, Runs
  <1>5. /\ Awaits(th.todo) = k \o at /\ at \in Seq(Kinds) /\ Head(th.todo) \in RoundRec
    BY <1>4, FirstRound
  <1>6. k \in Seq(Kinds)
    BY <1>5, OnlySeq DEF RoundRec
  <1>7. aa \in Seq(Kinds)
    BY <1>1, <1>3, PairAfter, PairRoles
  <1>8. AwaitsLeft(p, q, threads[p], phase[p]) = (k \o at) \o aa
    <2>1. LeftIn(threads[p], q) = th.todo
      BY LeftOf
    <2> QED BY <1>5, <2>1, Zenon DEF AwaitsLeft
  <1> HIDE DEF k, at, aa
  <1>9. (k \o at) \o aa = k \o (at \o aa) /\ at \o aa \in Seq(Kinds)
    <2>1. k \in Seq(Kinds) /\ at \in Seq(Kinds) /\ aa \in Seq(Kinds)
      BY <1>5, <1>6, <1>7
    <2> QED BY <2>1, JoinThree, Zenon
  <1>10. \E r \in Seq(Kinds) : AwaitsLeft(p, q, threads[p], phase[p]) = k \o r
    BY <1>8, <1>9
  <1> QED BY <1>3, <1>5, <1>10 DEF k

(* The message a thread takes is of the kind it awaits.                    *)
LEMMA HeadMatches ==
  ASSUME Inv, TypeInv, FlowInv, NEW p \in P, NEW th \in threads[p],
         CanRun(p, th), Head(th.todo).await # "none"
  PROVE  /\ th.peer \in P \ {p} /\ chan[th.peer][p] \in Seq(MessageRec)
         /\ chan[th.peer][p] # << >>
         /\ Head(chan[th.peer][p]).kind = Head(th.todo).await
  <1> DEFINE k == Head(th.todo).await
             q == th.peer
  <1>1. th.todo # << >> /\ chan[q][p] # << >>
    BY DEF CanRun
  <1>2. /\ q \in P \ {p} /\ Talk(p, q) /\ k \in Kinds /\ input \in Inputs
        /\ \E r \in Seq(Kinds) : AwaitsLeft(p, q, threads[p], phase[p]) = Only(k) \o r
    BY <1>1, AwaitsFirst DEF RoundRec, Some, Inv
  <1>3. Talk(q, p) /\ p \in P \ {q}
    BY <1>2, PairRoles
  <1>4. PICK r \in Seq(Kinds) : AwaitsLeft(p, q, threads[p], phase[p]) = <<k>> \o r
    BY <1>2 DEF Only
  <1>5. Flow(KindsOf(chan[q][p]), SendsLeft(q, p, threads[q], phase[q]), <<k>> \o r,
             AllSends(q, p), trial[q], trial[p])
    BY <1>2, <1>3, <1>4, FlowNow DEF FlowAt
  <1>6. /\ KindsOf(chan[q][p]) \in Seq(Kinds)
        /\ SendsLeft(q, p, threads[q], phase[q]) \in Seq(Kinds)
        /\ trial[q] \in Nat /\ trial[p] \in Nat /\ AllSends(q, p) \in Seq(Kinds)
    BY <1>2, <1>3, FlowTypes, PairAll
  <1>7. chan[q][p] \in Seq(MessageRec)
    BY <1>2 DEF TypeInv
  <1>8. KindsOf(chan[q][p]) # << >> /\ Head(KindsOf(chan[q][p])) = Head(chan[q][p]).kind
    BY <1>1, <1>7, KindsOfMessages
  <1> DEFINE c == KindsOf(chan[q][p])
             s == SendsLeft(q, p, threads[q], phase[q])
             a == AllSends(q, p)
             tq == trial[q]
             tp == trial[p]
  <1>9. Head(c) = k
    <2>1. /\ c \in Seq(Kinds) /\ c # << >> /\ k \in Kinds /\ s \in Seq(Kinds)
          /\ a \in Seq(Kinds) /\ tq \in Nat /\ tp \in Nat
          /\ Flow(c, s, <<k>> \o r, a, tq, tp)
      BY <1>2, <1>5, <1>6, <1>8
    <2> HIDE DEF c, s, a, tq, tp, k
    <2> QED BY <2>1, FlowTake
  <1> QED BY <1>1, <1>2, <1>7, <1>8, <1>9

(***************************************************************************)
(* Though nothing on a channel says what a message is, and parties run     *)
(* ahead of each other, from phase to phase and into the next trial, a     *)
(* thread only ever takes a message of the kind that it waits for.         *)
(***************************************************************************)
THEOREM KindsMatched == Spec => []KindsMatch
  <1>1. Inv /\ TypeInv /\ FlowInv => KindsMatch
    BY HeadMatches DEF KindsMatch
  <1> QED BY <1>1, SpecFlow, PTL

(***************************************************************************)
(* What a party awaits is never more than a trial brings.                  *)
(***************************************************************************)
WaitAt(p, q, ch, T, f) ==
  IF q # p /\ Talk(p, q) THEN Len(AwaitsLeft(p, q, T, f)) <= Len(AllAwaits(p, q))
                         ELSE ch = << >>

LEMMA WaitNow == WaitInv <=> \A p, q \in P : WaitAt(p, q, chan[p][q], threads[p], phase[p])
  BY DEF WaitInv, WaitAt, AwaitsLeft, StillAwaits, LeftIn, Left

LEMMA WaitNext ==
  ASSUME UNCHANGED input
  PROVE  WaitInv' <=> \A p, q \in P : WaitAt(p, q, chan'[p][q], threads'[p], phase'[p])
  <1>1. P' = P /\ \A p, ph : Spawned(p, ph)' = Spawned(p, ph)
    BY InputFrame
  <1>2. \A p, q : Talk(p, q)' = Talk(p, q)
    BY <1>1 DEF Talk
  <1>3. \A p, q, ph : Agenda(p, q, ph)' = Agenda(p, q, ph)
    BY <1>1 DEF Agenda
  <1>4. /\ \A p, q, ph : AwaitsAfter(q, p, ph)' = AwaitsAfter(q, p, ph)
        /\ \A p, q : AllAwaits(p, q)' = AllAwaits(p, q)
    BY <1>3 DEF AwaitsAfter, AllAwaits
  <1>5. \A p, q : Left(p, q)' = LeftIn(threads'[p], q)
    BY DEF Left, LeftIn
  <1>6. \A p, q : StillAwaits(q, p)' = AwaitsLeft(q, p, threads'[q], phase'[q])
    BY <1>4, <1>5 DEF StillAwaits, AwaitsLeft
  <1> QED BY <1>1, <1>2, <1>4, <1>6 DEF WaitInv, WaitAt

LEMMA WaitInit == Init => WaitInv
  <1> SUFFICES ASSUME Init, NEW p \in P, NEW q \in P
               PROVE  WaitAt(p, q, chan[p][q], threads[p], phase[p])
    BY WaitNow
  <1>1. input \in Inputs /\ chan[p][q] = << >> /\ threads[p] = {} /\ phase[p] = "start"
    BY DEF Init
  <1>2. CASE q # p /\ Talk(p, q)
    <2>1. AwaitsAfter(p, q, "start") = << >>
      BY DEF AwaitsAfter
    <2>2. AwaitsLeft(p, q, {}, "start") = << >>
      BY <1>1, <1>2, <2>1, LeftJoined
    <2>3. Len(AllAwaits(p, q)) \in Nat
      BY <1>1, <1>2, PairRoles, PairAll, LenProperties
    <2>4. Len(<< >>) <= Len(AllAwaits(p, q))
      BY <2>3, SMT
    <2> QED BY <1>1, <1>2, <2>2, <2>4 DEF WaitAt
  <1> QED BY <1>1, <1>2 DEF WaitAt

LEMMA WaitStep ==
  ASSUME Inv, TypeInv, WaitInv, [Next]_vars
  PROVE  WaitInv'
  <1>1. input \in Inputs /\ threads \in [P -> SUBSET ThreadRec] /\ phase \in [P -> Alive]
    BY DEF Inv
  <1>2. ASSUME NEW p \in P, Keeps(p) PROVE WaitInv'
    <2> SUFFICES ASSUME NEW a \in P, NEW b \in P
                 PROVE  WaitAt(a, b, chan'[a][b], threads'[a], phase'[a])
      BY <1>2, WaitNext DEF Keeps
    <2>1. WaitAt(a, b, chan[a][b], threads[a], phase[a])
      BY WaitNow
    <2>2. CASE a = p
      BY <1>2, <2>1, <2>2 DEF WaitAt, Keeps
    <2>3. CASE a # p
      BY <1>2, <2>1, <2>3 DEF Keeps
    <2> QED BY <2>2, <2>3
  <1>3. ASSUME NEW p \in P, InitDone(p) \/ OprfDone(p) \/ ShareDone(p) \/ LeaderDone(p)
        PROVE  WaitInv'
    BY <1>2, <1>3, MoveKeeps, EndKeeps
  <1>4. ASSUME NEW p \in P, BeginTrial(p) PROVE WaitInv'
    <2>1. /\ UNCHANGED <<input, chan>>
          /\ phase' = [phase EXCEPT ![p] = FirstPhase]
          /\ threads' = [threads EXCEPT ![p] = Started(p, FirstPhase)]
      BY <1>1, <1>4, Entered DEF BeginTrial, FirstPhase, Working
    <2> SUFFICES ASSUME NEW a \in P, NEW b \in P
                 PROVE  WaitAt(a, b, chan'[a][b], threads'[a], phase'[a])
      BY <2>1, WaitNext
    <2>2. WaitAt(a, b, chan[a][b], threads[a], phase[a])
      BY WaitNow
    <2>3. CASE a = p /\ b # p /\ Talk(a, b)
      <3>1. AwaitsLeft(a, b, threads'[a], phase'[a]) = AllAwaits(a, b)
        BY <1>1, <2>1, <2>3, LeftBegun, PairAll, PairRoles
      <3>2. Len(AllAwaits(a, b)) \in Nat
        BY <1>1, <2>3, PairRoles, PairAll, LenProperties
      <3>3. Len(AllAwaits(a, b)) <= Len(AllAwaits(a, b))
        BY <3>2, SMT
      <3> QED BY <2>3, <3>1, <3>3 DEF WaitAt
    <2>4. CASE a = p /\ ~(b # p /\ Talk(a, b))
      BY <2>1, <2>2, <2>4 DEF WaitAt
    <2>5. CASE a # p
      BY <1>1, <2>1, <2>2, <2>5
    <2> QED BY <2>3, <2>4, <2>5
  <1>5. ASSUME NEW p \in P, NEW th \in threads[p], RunRound(p, th) PROVE WaitInv'
    <2> DEFINE q == th.peer
               k == Only(Head(th.todo).await)
    <2>1. UNCHANGED <<input, phase>> /\ \A x \in P \ {p} : threads'[x] = threads[x]
      BY <1>1, <1>5 DEF RunRound
    <2>2. /\ q \in P \ {p} /\ Talk(p, q) /\ k \in Seq(Kinds)
          /\ AwaitsLeft(p, q, threads[p], phase[p]) = k \o AwaitsLeft(p, q, threads'[p], phase[p])
          /\ AwaitsLeft(p, q, threads'[p], phase[p]) \in Seq(Kinds)
          /\ \A b : b # q => LeftIn(threads'[p], b) = LeftIn(threads[p], b)
      BY <1>5, RoundLeft, OnlySeq DEF RoundRec
    <2>3. Talk(q, p)
      BY <1>1, <2>2, PairRoles
    <2> SUFFICES ASSUME NEW a \in P, NEW b \in P
                 PROVE  WaitAt(a, b, chan'[a][b], threads'[a], phase'[a])
      BY <2>1, WaitNext
    <2>4. WaitAt(a, b, chan[a][b], threads[a], phase[a])
      BY WaitNow
    <2>5. (a # p \/ b # q) /\ (a # q \/ b # p) => chan'[a][b] = chan[a][b]
      BY <1>5, RoundChan
    <2> HIDE DEF q, k
    <2>6. CASE a = p /\ b = q
      <3> DEFINE x == AwaitsLeft(p, q, threads'[p], phase[p])
                 n == Len(AllAwaits(p, q))
      <3>1. Len(k \o x) = Len(k) + Len(x) /\ Len(k) \in Nat /\ Len(x) \in Nat
        BY <2>2, ConcatProperties, LenProperties
      <3>2. Len(k \o x) <= n
        BY <2>2, <2>4, <2>6 DEF WaitAt
      <3>3. n \in Nat
        BY <1>1, <2>2, PairRoles, PairAll, LenProperties
      <3> HIDE DEF x, n
      <3>4. Len(x) <= n
        BY <3>1, <3>2, <3>3, SMT
      <3> QED BY <2>1, <2>2, <2>6, <3>4 DEF WaitAt, x, n
    <2>7. CASE a = q /\ b = p
      BY <2>1, <2>2, <2>3, <2>4, <2>7 DEF WaitAt
    <2>8. CASE a = p /\ b # q
      <3>1. AwaitsLeft(a, b, threads'[a], phase[a]) = AwaitsLeft(a, b, threads[a], phase[a])
        BY <2>2, <2>8 DEF AwaitsLeft
      <3> QED BY <2>1, <2>2, <2>4, <2>5, <2>8, <3>1 DEF WaitAt
    <2>9. CASE a # p /\ (a # q \/ b # p)
      BY <2>1, <2>4, <2>5, <2>9
    <2> QED BY <2>6, <2>7, <2>8, <2>9
  <1>6. CASE UNCHANGED vars
    <2>1. UNCHANGED <<input, phase, threads, chan>>
      BY <1>6 DEF vars
    <2> QED BY <2>1, WaitNow, WaitNext
  <1> QED BY <1>3, <1>4, <1>5, <1>6 DEF Next, MainStep, ThreadStep, Finished

(***************************************************************************)
(* Corrections that are no longer awaited.                                 *)
(***************************************************************************)
NoCorr(s) == \A i \in 1..Len(s) : s[i] # "corr"

LEMMA NoCorrNothing == NoCorr(<< >>)
  <1>1. Len(<< >>) = 0 /\ 1..0 = {}
    BY SMT
  <1> QED BY <1>1 DEF NoCorr

LEMMA NoCorrBoth ==
  ASSUME NEW x \in Seq(Kinds), NEW y \in Seq(Kinds), NoCorr(x), NoCorr(y)
  PROVE  NoCorr(x \o y)
  <1> DEFINE z == x \o y
  <1>1. /\ Len(z) = Len(x) + Len(y) /\ Len(x) \in Nat /\ Len(y) \in Nat
        /\ \A i \in 1..(Len(x) + Len(y)) : z[i] = IF i <= Len(x) THEN x[i] ELSE y[i - Len(x)]
    BY ConcatProperties, LenProperties
  <1> HIDE DEF z
  <1> SUFFICES ASSUME NEW i \in 1..(Len(x) + Len(y)) PROVE z[i] # "corr"
    BY <1>1 DEF NoCorr, z
  <1>2. CASE i <= Len(x)
    <2>1. i \in 1..Len(x)
      BY <1>1, <1>2, SMT
    <2> QED BY <1>1, <1>2, <2>1 DEF NoCorr
  <1>3. CASE ~(i <= Len(x))
    <2>1. i - Len(x) \in 1..Len(y)
      BY <1>1, <1>3, SMT
    <2> QED BY <1>1, <1>3, <2>1 DEF NoCorr
  <1> QED BY <1>2, <1>3

LEMMA NoCorrOnly ==
  ASSUME NEW k \in Some, k # "corr"
  PROVE  NoCorr(Only(k))
  <1>1. CASE k = "none"
    BY <1>1, NoCorrNothing DEF Only
  <1>2. CASE k # "none"
    <2> DEFINE s == <<k>>
    <2>1. Len(s) = 1 /\ s[1] = k
      OBVIOUS
    <2>2. 1..1 = {1}
      BY SMT
    <2> HIDE DEF s
    <2>3. NoCorr(s)
      BY <2>1, <2>2 DEF NoCorr
    <2> QED BY <1>2, <2>3 DEF Only, s
  <1> QED BY <1>1, <1>2

LEMMA NoCorrAwaited ==
  ASSUME NEW todo \in Seq(RoundRec), Len(todo) <= 3, "corr" \notin Awaited(todo)
  PROVE  NoCorr(Awaits(todo)) /\ Awaits(todo) \in Seq(Kinds)
  <1>1. ASSUME NEW i \in {1, 2, 3}
        PROVE  NoCorr(ReadIn(todo, i)) /\ ReadIn(todo, i) \in Seq(Kinds)
    <2>1. CASE i <= Len(todo)
      <3>1. Len(todo) \in Nat /\ i \in 1..Len(todo)
        <4>1. Len(todo) \in Nat
          BY LenProperties
        <4> QED BY <1>1, <2>1, <4>1, SMT
      <3>2. todo[i] \in RoundRec
        BY <3>1, ElementOfSeq
      <3>3. todo[i].await \in Some /\ todo[i].await # "corr"
        BY <3>1, <3>2 DEF RoundRec, Awaited
      <3> QED BY <2>1, <3>3, NoCorrOnly, OnlySeq DEF ReadIn
    <2>2. CASE ~(i <= Len(todo))
      BY <2>2, NoCorrNothing, EmptySeq DEF ReadIn
    <2> QED BY <2>1, <2>2
  <1> DEFINE a == ReadIn(todo, 1)
             b == ReadIn(todo, 2)
             c == ReadIn(todo, 3)
  <1>2. /\ a \in Seq(Kinds) /\ b \in Seq(Kinds) /\ c \in Seq(Kinds)
        /\ NoCorr(a) /\ NoCorr(b) /\ NoCorr(c) /\ Awaits(todo) = a \o (b \o c)
    BY <1>1 DEF Awaits
  <1> HIDE DEF a, b, c
  <1>3. b \o c \in Seq(Kinds) /\ NoCorr(b \o c)
    BY <1>2, NoCorrBoth, ConcatProperties
  <1> DEFINE d == b \o c
  <1>4. d \in Seq(Kinds) /\ NoCorr(d) /\ Awaits(todo) = a \o d
    BY <1>2, <1>3
  <1> HIDE DEF d
  <1>5. a \o d \in Seq(Kinds) /\ NoCorr(a \o d)
    BY <1>2, <1>4, NoCorrBoth, ConcatProperties
  <1> QED BY <1>4, <1>5

(* What is left of the rounds with a peer awaits nothing new.              *)
LEMMA LeftAwaited ==
  ASSUME Inv, NEW p \in P, NEW q, phase[p] \in Working
  PROVE  Awaited(LeftIn(threads[p], q)) \subseteq Awaited(Agenda(p, q, phase[p]))
  <1>1. CASE \E th \in threads[p] : th.peer = q
    <2>1. PICK th \in threads[p] : th.peer = q
      BY <1>1
    <2>2. LeftIn(threads[p], q) = th.todo
      BY <2>1, LeftOf
    <2>3. PICK s \in Spawned(p, phase[p]) : Runs(th, s, phase[p])
      BY <2>1 DEF Inv, ThreadsOf
    <2>4. Agenda(p, q, phase[p]) = Rounds(phase[p], s.role)
      BY <2>1, <2>3, AgendaOf DEF Inv, Runs
    <2> QED BY <2>2, <2>3, <2>4 DEF Runs
  <1>2. CASE ~ \E th \in threads[p] : th.peer = q
    <2>1. LeftIn(threads[p], q) = << >>
      BY <1>2 DEF LeftIn
    <2> QED BY <2>1, AwaitedNothing
  <1> QED BY <1>1, <1>2

(* Corrections are awaited in the phase of the OPRF keys only, and not by  *)
(* a side that sends nothing after it.                                     *)
LEMMA CorrAwaited ==
  ASSUME input \in Inputs, NEW q \in P, NEW p \in P \ {q}, Talk(q, p)
  PROVE  /\ \A f \in {"share", "leader"} : "corr" \notin Awaited(Agenda(q, p, f))
         /\ SendsAfter(q, p, "oprf") = << >> => "corr" \notin Awaited(Agenda(q, p, "oprf"))
         /\ SendsAfter(q, p, "init") # << >>
  <1>1. PICK role \in TalkRoles : Paired(q, p, role)
    BY PairRoles
  <1>2. {"none", "corr", "share"} \subseteq Some
    BY DEF Some, Kinds
  <1>3. ASSUME NEW a \in Some, NEW b \in Some, a # "corr"
        PROVE  "corr" \notin Awaited(<<RoundOf(a, b)>>)
    BY <1>3, AwaitedRound DEF Round, RoundOf
  <1>4. ASSUME NEW a \in Some, NEW b \in Some, NEW c \in Some, NEW d \in Some, a # "corr", c # "corr"
        PROVE  "corr" \notin Awaited(<<RoundOf(a, b), RoundOf(c, d)>>)
    <2> DEFINE x == RoundOf(a, b)
               y == RoundOf(c, d)
               w == <<x, y>>
    <2>1. x.await = a /\ y.await = c
      BY DEF RoundOf
    <2> HIDE DEF x, y
    <2>2. Len(w) = 2 /\ w[1] = x /\ w[2] = y
      OBVIOUS
    <2>3. \A i \in 1..2 : i = 1 \/ i = 2
      BY SMT
    <2> HIDE DEF w
    <2>4. "corr" \notin Awaited(w)
      BY <1>4, <2>1, <2>2, <2>3 DEF Awaited
    <2> QED BY <2>4 DEF w, x, y
  <1>5. ASSUME NEW f \in {"share", "leader"} PROVE "corr" \notin Awaited(Rounds(f, role))
    <2>1. CASE role \in {"send", "recv"}
      <3>1. \/ Rounds(f, role) = <<RoundOf("none", "share")>>
            \/ Rounds(f, role) = <<RoundOf("share", "none")>>
        BY <1>5, <2>1, RoundsTable
      <3>2. /\ "corr" \notin Awaited(<<RoundOf("none", "share")>>)
            /\ "corr" \notin Awaited(<<RoundOf("share", "none")>>)
        BY <1>2, <1>3
      <3> QED BY <3>1, <3>2, Zenon
    <2>2. CASE role \in {"dualSend", "dualRecv"}
      <3>1. \/ Rounds(f, role) = <<RoundOf("none", "share"), RoundOf("share", "none")>>
            \/ Rounds(f, role) = <<RoundOf("share", "none"), RoundOf("none", "share")>>
        BY <1>5, <2>2, RoundsTable
      <3>2. /\ "corr" \notin Awaited(<<RoundOf("none", "share"), RoundOf("share", "none")>>)
            /\ "corr" \notin Awaited(<<RoundOf("share", "none"), RoundOf("none", "share")>>)
        BY <1>2, <1>4
      <3> QED BY <3>1, <3>2, Zenon
    <2> QED BY <2>1, <2>2 DEF TalkRoles
  <1>6. ASSUME NEW f \in {"share", "leader"} PROVE "corr" \notin Awaited(Agenda(q, p, f))
    <2>1. Agenda(q, p, f) = << >> \/ Agenda(q, p, f) = Rounds(f, role)
      BY <1>1, <1>6 DEF Paired
    <2> QED BY <1>5, <2>1, AwaitedNothing
  <1> DEFINE x == Sends(Agenda(q, p, "oprf"))
             y == Sends(Agenda(q, p, "share"))
             z == Sends(Agenda(q, p, "leader"))
  <1>7. x \in Seq(Kinds) /\ y \in Seq(Kinds) /\ z \in Seq(Kinds)
    BY PairStreams DEF Working
  <1>8. SendsAfter(q, p, "oprf") = y \o z /\ SendsAfter(q, p, "init") = x \o (y \o z)
    BY DEF SendsAfter
  <1>9. x # << >> \/ y # << >> \/ z # << >>
    BY SendsSome
  <1>10. role # "recv" => y # << >> \/ z # << >>
    <2> SUFFICES ASSUME role # "recv" PROVE y # << >> \/ z # << >>
      OBVIOUS
    <2>1. PICK f \in {"share", "leader"} : Agenda(q, p, f) = Rounds(f, role)
      BY <1>1 DEF Paired
    <2>2. Sends(Rounds(f, role)) = Only("share")
      BY StreamTable DEF Working
    <2>3. Only("share") # << >>
      BY OnlySeq DEF Some, Kinds
    <2> QED BY <2>1, <2>2, <2>3
  <1> HIDE DEF x, y, z
  <1>11. y # << >> \/ z # << >> => y \o z # << >>
    BY <1>7, ConcatSome
  <1>12. x # << >> \/ y \o z # << >> => x \o (y \o z) # << >>
    BY <1>7, ConcatSome, ConcatKinds
  <1>13. role = "recv" => "corr" \notin Awaited(Agenda(q, p, "oprf"))
    <2>1. role = "recv" => Agenda(q, p, "oprf") = <<RoundOf("none", "corr")>>
      BY <1>1, RoundsTable DEF Paired
    <2> QED BY <1>2, <1>3, <2>1
  <1>14. SendsAfter(q, p, "oprf") = << >> => "corr" \notin Awaited(Agenda(q, p, "oprf"))
    BY <1>8, <1>10, <1>11, <1>13
  <1>15. SendsAfter(q, p, "init") # << >>
    BY <1>8, <1>9, <1>11, <1>12
  <1> QED BY <1>6, <1>14, <1>15

(* A party that awaits no correction in its phase awaits none until it     *)
(* begins another trial.                                                   *)
LEMMA NoCorrLate ==
  ASSUME Inv, NEW q \in P, NEW p \in P \ {q}, Talk(q, p), phase[q] # "init",
         phase[q] \in Working => "corr" \notin Awaited(Agenda(q, p, phase[q]))
  PROVE  NoCorr(AwaitsLeft(q, p, threads[q], phase[q]))
  <1> DEFINE f == phase[q]
             x == Awaits(LeftIn(threads[q], p))
  <1>1. input \in Inputs /\ f \in Alive /\ (f \notin Working => threads[q] = {})
    BY DEF Inv
  <1>2. NoCorr(x) /\ x \in Seq(Kinds)
    <2>1. CASE f \in Working
      <3>1. "corr" \notin Awaited(LeftIn(threads[q], p))
        BY <2>1, LeftAwaited
      <3> QED BY <3>1, LeftTypes, NoCorrAwaited
    <2>2. CASE f \notin Working
      <3>1. LeftIn(threads[q], p) = << >>
        BY <1>1, <2>2, LeftNothing
      <3> QED BY <3>1, NoRounds, NoCorrNothing, EmptySeq
    <2> QED BY <2>1, <2>2
  <1>3. \A g \in {"share", "leader"} : /\ NoCorr(Awaits(Agenda(q, p, g)))
                                       /\ Awaits(Agenda(q, p, g)) \in Seq(Kinds)
    <2> TAKE g \in {"share", "leader"}
    <2>1. Agenda(q, p, g) \in Seq(RoundRec) /\ Len(Agenda(q, p, g)) <= 3
      <3>1. CASE \E s \in Spawned(q, g) : s.peer = p
        <4>1. PICK s \in Spawned(q, g) : s.peer = p
          BY <3>1
        <4>2. Agenda(q, p, g) = Rounds(g, s.role)
          BY <1>1, <4>1, AgendaOf DEF Working
        <4> QED BY <4>2, RoundsOf, RoundsLength, SpawnedRoles DEF Working
      <3>2. CASE ~ \E s \in Spawned(q, g) : s.peer = p
        <4>1. Agenda(q, p, g) = << >>
          BY <3>2 DEF Agenda
        <4>2. Len(<< >>) <= 3
          BY SMT
        <4> QED BY <4>1, <4>2, EmptySeq
      <3> QED BY <3>1, <3>2
    <2> QED BY <1>1, <2>1, CorrAwaited, NoCorrAwaited
  <1> DEFINE y == AwaitsAfter(q, p, f)
  <1>4. NoCorr(y) /\ y \in Seq(Kinds)
    <2> DEFINE s == Awaits(Agenda(q, p, "share"))
               l == Awaits(Agenda(q, p, "leader"))
    <2>1. y = s \o l \/ y = l \/ y = << >>
      BY DEF AwaitsAfter
    <2>2. NoCorr(s) /\ NoCorr(l) /\ s \in Seq(Kinds) /\ l \in Seq(Kinds)
      BY <1>3
    <2> HIDE DEF s, l, y
    <2>3. NoCorr(s \o l) /\ s \o l \in Seq(Kinds)
      BY <2>2, NoCorrBoth, ConcatProperties
    <2> QED BY <2>1, <2>2, <2>3, NoCorrNothing, EmptySeq
  <1>5. AwaitsLeft(q, p, threads[q], f) = x \o y
    BY DEF AwaitsLeft
  <1> HIDE DEF x, y, f
  <1>6. NoCorr(x \o y)
    BY <1>2, <1>4, NoCorrBoth
  <1> QED BY <1>5, <1>6 DEF f

(* Whoever has sent a peer everything in its trial awaits no correction    *)
(* from it.                                                                *)
LEMMA SentAll ==
  ASSUME Inv, TypeInv, NEW q \in P, NEW p \in P \ {q}, Talk(q, p),
         SendsLeft(q, p, threads[q], phase[q]) = << >>
  PROVE  NoCorr(AwaitsLeft(q, p, threads[q], phase[q]))
  <1> DEFINE f == phase[q]
  <1>1. input \in Inputs /\ f \in Alive
    BY DEF Inv
  <1>2. SendsAfter(q, p, f) = << >>
    <2>1. Sends(LeftIn(threads[q], p)) \in Seq(Kinds) /\ SendsAfter(q, p, f) \in Seq(Kinds)
      BY <1>1, LeftTypes, KindsTypes, PairAfter
    <2> QED BY <2>1, ConcatEqualIffEmpty DEF SendsLeft
  <1>3. f # "init"
    BY <1>1, <1>2, CorrAwaited
  <1>4. f \in Working => "corr" \notin Awaited(Agenda(q, p, f))
    BY <1>1, <1>2, <1>3, CorrAwaited DEF Working
  <1> QED BY <1>3, <1>4, NoCorrLate

(* A party that has joined the threads of its last phase leaves no         *)
(* correction on the way.                                                  *)
LEMMA CorrectionsRead ==
  ASSUME Inv, TypeInv, FlowInv, WaitInv, NEW p \in P, phase[p] = "leader", Joined(p),
         NEW q \in P, NEW i \in 1..Len(chan[p][q])
  PROVE  chan[p][q][i].kind # "corr"
  <1>1. chan[p][q] # << >>
    <2>1. chan[p][q] \in Seq(MessageRec)
      BY DEF TypeInv
    <2>2. Len(chan[p][q]) # 0
      BY <2>1, LenProperties, SMT
    <2> QED BY <2>1, <2>2, EmptySeq
  <1>2. q # p /\ Talk(p, q) /\ input \in Inputs
    BY <1>1 DEF WaitInv, Inv
  <1>3. Talk(q, p) /\ q \in P \ {p} /\ p \in P \ {q}
    BY <1>2, PairRoles
  <1> DEFINE c == KindsOf(chan[p][q])
             r == AwaitsLeft(q, p, threads[q], phase[q])
             all == AllSends(p, q)
             tp == trial[p]
             tq == trial[q]
  <1>4. /\ SendsLeft(p, q, threads[p], phase[p]) = << >>
        /\ AwaitsLeft(p, q, threads[p], phase[p]) = << >>
    <2>1. \A th \in threads[p] : th.todo = << >>
      BY DEF Joined
    <2>2. SendsAfter(p, q, "leader") = << >> /\ AwaitsAfter(p, q, "leader") = << >>
      BY DEF SendsAfter, AwaitsAfter
    <2> QED BY <1>2, <1>3, <2>1, <2>2, LeftJoined
  <1>5. tp <= tq /\ (tp = tq => SendsLeft(q, p, threads[q], phase[q]) = << >>)
    <2>1. FlowAt(q, p, chan[q][p], threads[q], phase[q], trial[q], threads[p], phase[p], trial[p])
      BY <1>3, FlowNow
    <2>2. Flow(KindsOf(chan[q][p]), SendsLeft(q, p, threads[q], phase[q]), << >>, AllSends(q, p), tq, tp)
      BY <1>4, <2>1 DEF FlowAt
    <2> DEFINE d == KindsOf(chan[q][p])
               s == SendsLeft(q, p, threads[q], phase[q])
               a == AllSends(q, p)
    <2>3. /\ d \in Seq(Kinds) /\ s \in Seq(Kinds) /\ a \in Seq(Kinds) /\ a # << >>
          /\ tp \in Nat /\ tq \in Nat /\ Flow(d, s, << >>, a, tq, tp)
      BY <1>2, <1>3, <2>2, FlowTypes, PairAll
    <2> HIDE DEF d, s, a, tp, tq
    <2>4. tp <= tq /\ (tq = tp => d = << >> /\ s = << >>)
      BY <2>3, FlowBound
    <2> QED BY <2>4 DEF s
  <1>6. /\ c \in Seq(Kinds) /\ r \in Seq(Kinds) /\ all \in Seq(Kinds)
        /\ tp \in Nat /\ tq \in Nat
    BY <1>2, <1>3, FlowTypes, PairAll
  <1>7. Flow(c, << >>, r, all, tp, tq)
    <2>1. FlowAt(p, q, chan[p][q], threads[p], phase[p], trial[p], threads[q], phase[q], trial[q])
      BY <1>2, <1>3, FlowNow
    <2> QED BY <1>4, <2>1 DEF FlowAt
  <1>8. NoCorr(c)
    <2>1. CASE tp = tq
      <3>1. c \o << >> = r
        BY <1>7, <2>1 DEF Flow
      <3>2. c = r
        BY <1>6, <3>1, ConcatKinds
      <3>3. NoCorr(r)
        BY <1>3, <1>5, <2>1, SentAll
      <3> QED BY <3>2, <3>3
    <2>2. CASE tp < tq
      <3>1. c \o (<< >> \o all) = r
        BY <1>7, <2>2 DEF Flow
      <3>2. c \o all = r
        BY <1>6, <3>1, ConcatKinds
      <3>3. Len(r) <= Len(all)
        <4>1. WaitAt(q, p, chan[q][p], threads[q], phase[q])
          BY WaitNow
        <4>2. AllAwaits(q, p) = all
          BY <1>2, <1>3, PairAll
        <4> QED BY <1>3, <4>1, <4>2 DEF WaitAt
      <3> HIDE DEF c, r, all
      <3>4. Len(r) = Len(c) + Len(all) /\ Len(c) \in Nat /\ Len(all) \in Nat
        BY <1>6, <3>2, ConcatProperties, LenProperties
      <3>5. Len(c) = 0
        BY <3>3, <3>4, SMT
      <3>6. 1..0 = {}
        BY SMT
      <3> QED BY <3>5, <3>6 DEF NoCorr
    <2>3. tp = tq \/ tp < tq
      BY <1>5, <1>6, SMT
    <2> QED BY <2>1, <2>2, <2>3
  <1>9. Len(c) = Len(chan[p][q]) /\ c[i] = chan[p][q][i].kind
    <2>1. chan[p][q] \in Seq(MessageRec)
      BY DEF TypeInv
    <2>2. DOMAIN chan[p][q] = 1..Len(chan[p][q]) /\ Len(chan[p][q]) \in Nat
      BY <2>1, LenProperties
    <2>3. c = [j \in 1..Len(chan[p][q]) |-> chan[p][q][j].kind]
      BY <2>2 DEF KindsOf
    <2>4. Len(c) = Len(chan[p][q])
      <3>1. DOMAIN c = 1..Len(c) /\ Len(c) \in Nat
        BY <1>6, LenProperties
      <3>2. 1..Len(c) = 1..Len(chan[p][q])
        BY <2>3, <3>1
      <3> HIDE DEF c
      <3> QED BY <2>2, <3>1, <3>2, SMT
    <2> QED BY <2>3, <2>4
  <1> HIDE DEF c
  <1> QED BY <1>8, <1>9 DEF NoCorr

(***************************************************************************)
(* When a party ends a trial, and the buffers of its corrections go, its   *)
(* corrections have all been read, though nothing tells it so: each peer   *)
(* has by then sent what it only sends after it has read them.             *)
(***************************************************************************)
THEOREM CorrectionsSafe == Spec => CorrectionsDelivered
  <1>1. Init => WaitInv
    BY WaitInit
  <1>2. Inv /\ TypeInv /\ WaitInv /\ [Next]_vars => WaitInv'
    BY WaitStep
  <1>3. Inv /\ TypeInv /\ FlowInv /\ WaitInv /\ [Next]_vars =>
          [\A p \in P : phase[p] = "leader" /\ phase'[p] # "leader" =>
             \A q \in P : \A i \in 1..Len(chan[p][q]) : chan[p][q][i].kind # "corr"]_vars
    <2> SUFFICES ASSUME Inv, TypeInv, FlowInv, WaitInv, Next,
                        NEW p \in P, phase[p] = "leader", phase'[p] # "leader"
                 PROVE  \A q \in P : \A i \in 1..Len(chan[p][q]) : chan[p][q][i].kind # "corr"
      OBVIOUS
    <2>1. ASSUME NEW x \in P, MainStep(x) PROVE x = p
      <3>1. CASE BeginTrial(x) \/ InitDone(x) \/ OprfDone(x) \/ ShareDone(x)
        <4>1. PICK g : Enter(x, g)
          BY <3>1 DEF BeginTrial, InitDone, OprfDone, ShareDone
        <4> QED BY <4>1 DEF Enter, Inv
      <3>2. CASE LeaderDone(x)
        BY <3>2 DEF LeaderDone, Inv
      <3> QED BY <2>1, <3>1, <3>2 DEF MainStep
    <2>2. ~ \E x \in P : ThreadStep(x)
      BY DEF ThreadStep, RunRound
    <2>3. ~ Finished
      BY DEF Finished, vars
    <2>4. MainStep(p)
      BY <2>1, <2>2, <2>3 DEF Next
    <2>5. Joined(p)
      BY <2>4 DEF MainStep, BeginTrial, InitDone, OprfDone, ShareDone, LeaderDone
    <2> QED BY <2>5, CorrectionsRead
  <1> QED BY <1>1, <1>2, <1>3, SpecFlow, PTL DEF Spec, CorrectionsDelivered
=============================================================================
