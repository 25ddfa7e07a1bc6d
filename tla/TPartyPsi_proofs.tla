-------------------------- MODULE TPartyPsi_proofs --------------------------
(***************************************************************************)
(* The theorem that TParty implements IdealPsi, for every set of inputs    *)
(* and every number of trials: the shares of zero cancel at the leader     *)
(* exactly for the items that all parties hold.                            *)
(*                                                                         *)
(* First, what the XOR of a family of blocks is; then, who deals a share   *)
(* to whom, which makes every share occur twice among the totals of the    *)
(* clients; then, that the totals and payloads are those of the trial.     *)
(***************************************************************************)
EXTENDS TParty_proofs, FiniteSetTheorems

(***************************************************************************)
(* The XOR of blocks.                                                      *)
(***************************************************************************)

(* Blocks that share no atom add up to their union.                        *)
LEMMA XorApart ==
  ASSUME NEW f, NEW K,
         \A j, k \in K : \A a : a \in f[j] /\ a \in f[k] => j = k
  PROVE  XorOver(f, K) = UNION {f[k] : k \in K}
  <1>1. SUFFICES ASSUME NEW k \in K, NEW a \in f[k]
                 PROVE  Cardinality({j \in K : a \in f[j]}) % 2 = 1
    BY DEF XorOver
  <1>2. {j \in K : a \in f[j]} = {k}
    BY <1>1
  <1>3. Cardinality({k}) = 1
    BY FS_Singleton
  <1>4. Cardinality({j \in K : a \in f[j]}) = 1
    BY <1>2, <1>3, Zenon
  <1>5. 1 % 2 = 1
    BY SMT
  <1> QED BY <1>4, <1>5, Zenon

(* Blocks of which every atom is in two cancel.                            *)
LEMMA XorTwice ==
  ASSUME NEW f, NEW K,
         \A k \in K : \A a \in f[k] :
           \E i, j : i # j /\ {m \in K : a \in f[m]} = {i, j}
  PROVE  XorOver(f, K) = {}
  <1>1. SUFFICES ASSUME NEW k \in K, NEW a \in f[k]
                 PROVE  Cardinality({m \in K : a \in f[m]}) % 2 # 1
    BY DEF XorOver
  <1>2. PICK i, j : i # j /\ {m \in K : a \in f[m]} = {i, j}
    BY <1>1
  <1>3. IsFiniteSet({i}) /\ Cardinality({i}) = 1
    BY FS_Singleton
  <1>4. Cardinality({i} \cup {j}) = Cardinality({i}) + 1
    BY <1>2, <1>3, FS_AddElement
  <1>5. {i} \cup {j} = {i, j}
    OBVIOUS
  <1>6. Cardinality({m \in K : a \in f[m]}) = 1 + 1
    BY <1>2, <1>3, <1>4, <1>5, Zenon
  <1>7. (1 + 1) % 2 # 1
    BY SMT
  <1> QED BY <1>6, <1>7, Zenon

(* An atom that only one block has remains.                                *)
LEMMA XorOnce ==
  ASSUME NEW f, NEW K, NEW k \in K, NEW a \in f[k], \A j \in K : a \in f[j] => j = k
  PROVE  a \in XorOver(f, K)
  <1>1. {j \in K : a \in f[j]} = {k}
    OBVIOUS
  <1>2. Cardinality({k}) = 1 /\ 1 % 2 = 1
    <2>1. 1 % 2 = 1
      BY SMT
    <2> QED BY <2>1, FS_Singleton, Zenon
  <1>3. Cardinality({j \in K : a \in f[j]}) % 2 = 1
    BY <1>1, <1>2, Zenon
  <1> QED BY <1>3 DEF XorOver

(***************************************************************************)
(* Who deals what to whom.                                                 *)
(***************************************************************************)
Dealing == {"send", "dualSend", "dualRecv"}

LEMMA DualRoles ==
  ASSUME NEW p \in Int, NEW q \in Int, p # q
  PROVE  dualRole(p, q) \in Dealing
  <1>1. p < q \/ p > q
    BY SMT
  <1> QED BY <1>1 DEF dualRole, Dealing

LEMMA ShareThreads ==
  ASSUME input \in Inputs, NEW p \in P \ {leader}
  PROVE  /\ Spawned(p, "share") = ClientThreads(input.n, input.t, p, "idle")
         /\ p \in Clients(input.n) /\ Pays(p) = 0..(tSS(input.n, input.t) - 1)
  <1>1. Spawned(p, "share") = ClientThreads(input.n, input.t, p, "idle")
    BY DEF Spawned
  <1> QED BY <1>1, InputFacts DEF Pays

LEMMA PrevShape ==
  ASSUME NEW n, NEW t, Usable(n, t), NEW p \in Clients(n), NEW r \in PrevThreads(n, t, p)
  PROVE  \E k \in 0..(tSS(n, t) - 1) : r.pay = k /\ r.peer = prevIdx(n, p, k)
  <1> DEFINE th(k) == Thread(tSS(n, t) + k, prevIdx(n, p, k), k, "recv")
  <1>1. PICK k \in 0..(tSS(n, t) - 1) : r = th(k)
    BY DEF PrevThreads
  <1>2. th(k).pay = k /\ th(k).peer = prevIdx(n, p, k)
    BY DEF Thread
  <1> HIDE DEF th
  <1> QED BY <1>1, <1>2

LEMMA NextShape ==
  ASSUME NEW n, NEW t, Usable(n, t), NEW p \in Clients(n)
  PROVE  /\ \A r \in NextThreads(n, t, p) :
              \E k \in 0..(tSS(n, t) - 1) : r.pay = k /\ r.peer = nextIdx(n, p, k)
         /\ \A k \in 0..(tSS(n, t) - 1) :
              \E r \in NextThreads(n, t, p) : r.pay = k /\ r.peer = nextIdx(n, p, k)
  <1> DEFINE th(k) == Thread(k, nextIdx(n, p, k), k,
                IF dualPartner(n, t, p, nextIdx(n, p, k))
                  THEN dualRole(p, nextIdx(n, p, k)) ELSE "send")
  <1>1. NextThreads(n, t, p) = {th(k) : k \in 0..(tSS(n, t) - 1)}
    BY DEF NextThreads
  <1>2. \A k : th(k).pay = k /\ th(k).peer = nextIdx(n, p, k)
    BY DEF Thread
  <1> HIDE DEF th
  <1> QED BY <1>1, <1>2

LEMMA PaysInt ==
  ASSUME input \in Inputs, NEW p \in P \ {leader}
  PROVE  /\ Pays(p) = 0..(tSS(input.n, input.t) - 1)
         /\ \A k \in Pays(p) : k \in Int /\ k # -1
  <1>1. Pays(p) = 0..(tSS(input.n, input.t) - 1)
    BY ShareThreads
  <1>2. tSS(input.n, input.t) \in Int
    BY InputFacts, RingBound
  <1> HIDE DEF Pays
  <1>3. \A k \in 0..(tSS(input.n, input.t) - 1) : k \in Int /\ k # -1
    BY <1>2, SMT
  <1> QED BY <1>1, <1>3

(* The threads that deal are those for the next clients, the kth deals the *)
(* kth share.                                                              *)
LEMMA DealingNext ==
  ASSUME input \in Inputs, NEW p \in P \ {leader}, NEW s
  PROVE  s \in Spawned(p, "share") /\ s.role \in Dealing <=>
           \E k \in Pays(p) : /\ s.pay = k /\ s.peer = nextIdx(input.n, p, k)
                              /\ s \in NextThreads(input.n, input.t, p)
  <1> DEFINE n == input.n
             t == input.t
             Role(k) == IF dualPartner(n, t, p, nextIdx(n, p, k))
                          THEN dualRole(p, nextIdx(n, p, k)) ELSE "send"
             Next1(k) == Thread(k, nextIdx(n, p, k), k, Role(k))
  <1>1. Usable(n, t) /\ p \in Clients(n)
    BY InputFacts
  <1>2. /\ Spawned(p, "share") = PrevThreads(n, t, p) \cup NextThreads(n, t, p)
                                   \cup {LeaderThread(n, t, p, "idle")}
        /\ Pays(p) = 0..(tSS(n, t) - 1)
    BY ShareThreads DEF ClientThreads
  <1>3. NextThreads(n, t, p) = {Next1(k) : k \in Pays(p)}
    BY <1>2 DEF NextThreads
  <1>4. \A r \in PrevThreads(n, t, p) \cup {LeaderThread(n, t, p, "idle")} : r.role \notin Dealing
    BY DEF PrevThreads, LeaderThread, Thread, Dealing
  <1>5. ASSUME NEW k \in Pays(p)
        PROVE  /\ Next1(k).pay = k /\ Next1(k).peer = nextIdx(n, p, k)
               /\ Next1(k).role \in Dealing
    <2>1. Next1(k).peer = nextIdx(n, p, k) /\ Next1(k).role = Role(k) /\ Next1(k).pay = k
      BY DEF Thread
    <2>2. Next1(k) \in Spawned(p, "share")
      BY <1>2, <1>3
    <2>3. nextIdx(n, p, k) \in P \ {p}
      BY <2>1, <2>2, PhasePeers DEF Working
    <2>4. P \subseteq Int /\ p \in P
      BY InputFacts DEF Parties
    <2>5. dualRole(p, nextIdx(n, p, k)) \in Dealing
      <3>1. nextIdx(n, p, k) \in Int /\ p \in Int /\ p # nextIdx(n, p, k)
        BY <2>3, <2>4
      <3> QED BY <3>1, DualRoles, Zenon
    <2>6. "send" \in Dealing
      BY DEF Dealing
    <2> HIDE DEF Next1
    <2> QED BY <2>1, <2>5, <2>6
  <1> HIDE DEF Next1
  <1>6. ASSUME s \in Spawned(p, "share"), s.role \in Dealing
        PROVE  \E k \in Pays(p) : /\ s.pay = k /\ s.peer = nextIdx(n, p, k)
                                  /\ s \in NextThreads(n, t, p)
    <2>1. s \in NextThreads(n, t, p)
      BY <1>2, <1>4, <1>6
    <2>2. PICK k \in Pays(p) : s = Next1(k)
      BY <1>3, <2>1
    <2> QED BY <1>5, <2>1, <2>2
  <1>7. ASSUME NEW k \in Pays(p), s \in NextThreads(n, t, p)
        PROVE  s \in Spawned(p, "share") /\ s.role \in Dealing
    BY <1>2, <1>3, <1>5, <1>7
  <1> QED BY <1>6, <1>7

(* Of its shares, p deals each to one other client.                        *)
LEMMA EachDealt ==
  ASSUME input \in Inputs, NEW p \in P \ {leader}, NEW k \in Pays(p)
  PROVE  \E q \in P \ {p, leader} : Deals(p, q) /\ PayTo(p, q) = k
  <1> DEFINE n == input.n
             t == input.t
             q == nextIdx(n, p, k)
  <1>1. PICK s \in NextThreads(n, t, p) : s.pay = k /\ s.peer = q
    <2>1. k \in 0..(tSS(n, t) - 1) /\ Usable(n, t) /\ p \in Clients(n)
      BY ShareThreads, InputFacts
    <2> QED BY <2>1, NextShape
  <1>2. s \in Spawned(p, "share") /\ s.role \in Dealing
    BY <1>1, DealingNext
  <1>3. q \in P \ {p}
    BY <1>1, <1>2, PhasePeers DEF Working
  <1>4. q # leader
    <2>1. /\ Usable(n, t) /\ p \in Clients(n) /\ k \in 0..(tSS(n, t) - 1)
      BY InputFacts, ShareThreads
    <2>2. q = IF p + k + 1 < nSS(n) THEN p + k + 1 ELSE p + k + 1 - nSS(n)
      BY <2>1, NextRing
    <2>3. nSS(n) = n - 1 /\ tSS(n, t) < nSS(n) /\ n \in Nat /\ tSS(n, t) \in Nat
      BY <2>1, RingBound, InputFacts
    <2>4. leader = n - 1
      BY InputFacts DEF Leader
    <2> HIDE DEF q, n, t
    <2> QED BY <2>1, <2>2, <2>3, <2>4, SMT DEF Clients
  <1>5. PayTo(p, q) = k
    BY <1>1, <1>2, PhasePeers DEF PayTo, Working
  <1>6. Deals(p, q)
    BY <1>1, <1>2 DEF Deals, Dealing
  <1> QED BY <1>3, <1>4, <1>5, <1>6

(* Who deals is a client, and deals different shares to different clients. *)
LEMMA DealtOnce ==
  ASSUME input \in Inputs, NEW p \in P, NEW q, Deals(p, q)
  PROVE  /\ p # leader /\ q \in P \ {p, leader} /\ PayTo(p, q) \in Pays(p)
         /\ \A r : Deals(p, r) /\ PayTo(p, r) = PayTo(p, q) => r = q
  <1>1. p # leader
    BY DEF Deals, Spawned
  <1> DEFINE Next1(r) == nextIdx(input.n, p, PayTo(p, r))
  <1>2. ASSUME NEW r, Deals(p, r)
        PROVE  r \in P \ {p} /\ PayTo(p, r) \in Pays(p) /\ r = Next1(r)
    <2>1. PICK s \in Spawned(p, "share") : s.peer = r /\ s.role \in Dealing
      BY <1>2 DEF Deals, Dealing
    <2>2. PayTo(p, r) = s.pay /\ r \in P \ {p}
      BY <2>1, PhasePeers DEF PayTo, Working
    <2> QED BY <1>1, <2>1, <2>2, DealingNext
  <1>3. q # leader
    <2>1. PICK r \in P \ {p, leader} : Deals(p, r) /\ PayTo(p, r) = PayTo(p, q)
      BY <1>1, <1>2, EachDealt
    <2> QED BY <1>2, <2>1
  <1> QED BY <1>1, <1>2, <1>3

(* A thread receives a share iff its peer deals one.                       *)
LEMMA ReceivedDealt ==
  ASSUME input \in Inputs, NEW q \in P \ {leader}
  PROVE  /\ \A s \in Spawned(q, "share") : Receives(s) =>
              s.peer \in P \ {q, leader} /\ Deals(s.peer, q)
         /\ \A p \in P : Deals(p, q) =>
              \E s \in Spawned(q, "share") : Receives(s) /\ s.peer = p
  <1> DEFINE n == input.n
             t == input.t
  <1>1. /\ Usable(n, t) /\ leader = Leader(n)
        /\ \A p \in P \ {leader} : /\ p \in Clients(n)
                                   /\ Spawned(p, "share") = ClientThreads(n, t, p, "idle")
        /\ \A p \in Clients(n) : p \in P \ {leader}
    <2>1. \A p \in Clients(n) : p \in P \ {leader}
      BY InputFacts, SMT DEF Clients, Parties, Leader
    <2> QED BY <2>1, InputFacts, ShareThreads
  <1>2. \A s : Receives(s) => Opposite(s.role) \in Dealing
    BY DEF Receives, Opposite, Dealing
  <1>3. \A s : s.role \in Dealing /\ s.role # "none" => Opposite(s.role) \in Receiving
    BY DEF Receiving, Opposite, Dealing
  <1>4. ASSUME NEW s \in Spawned(q, "share"), Receives(s)
        PROVE  s.peer \in P \ {q, leader} /\ Deals(s.peer, q)
    <2>1. s.peer # leader
      <3>1. \A r \in PrevThreads(n, t, q) : r.peer # leader
        <4>1. TAKE r \in PrevThreads(n, t, q)
        <4>2. PICK j \in 0..(tSS(n, t) - 1) : r.peer = prevIdx(n, q, j)
          BY <1>1, PrevShape
        <4>3. r.peer = IF j < q THEN q - j - 1 ELSE q - j - 1 + nSS(n)
          BY <1>1, <4>2, PrevRing
        <4>4. nSS(n) = n - 1 /\ tSS(n, t) < nSS(n) /\ n \in Nat /\ tSS(n, t) \in Nat
          BY <1>1, RingBound, InputFacts
        <4>5. q \in 0..(n - 2) /\ leader = n - 1
          BY <1>1 DEF Clients, Leader
        <4> HIDE DEF n, t
        <4> QED BY <4>2, <4>3, <4>4, <4>5, SMT
      <3>2. \A r \in NextThreads(n, t, q) : r.peer # leader
        <4>1. TAKE r \in NextThreads(n, t, q)
        <4>2. PICK k \in Pays(q) : r.pay = k /\ r.peer = nextIdx(n, q, k)
          <5>1. \E k \in 0..(tSS(n, t) - 1) : r.pay = k /\ r.peer = nextIdx(n, q, k)
            BY <1>1, NextShape
          <5> QED BY <5>1, ShareThreads
        <4>3. r \in Spawned(q, "share") /\ r.role \in Dealing
          BY <4>2, DealingNext
        <4> QED BY <4>3, DealtOnce DEF Deals, Dealing
      <3>3. LeaderThread(n, t, q, "idle").role = "idle"
        BY DEF LeaderThread, Thread
      <3> QED BY <1>1, <1>4, <3>1, <3>2, <3>3 DEF ClientThreads, Receives
    <2>2. PICK r \in ClientThreads(n, t, s.peer, "idle") :
                 r.peer = q /\ r.role = Opposite(s.role) /\ s.peer \in Clients(n)
      BY <1>1, <2>1, RolesMatch
    <2>3. s.peer \in P \ {leader} /\ r \in Spawned(s.peer, "share")
      BY <1>1, <2>2
    <2>4. Deals(s.peer, q)
      BY <1>2, <1>4, <2>2, <2>3 DEF Deals, Dealing
    <2> QED BY <2>3, <2>4, DealtOnce
  <1>5. ASSUME NEW p \in P, Deals(p, q)
        PROVE  \E s \in Spawned(q, "share") : Receives(s) /\ s.peer = p
    <2>1. p # leader /\ q # leader
      BY <1>5, DealtOnce
    <2>2. PICK s \in ClientThreads(n, t, p, "idle") : s.peer = q /\ s.role \in Dealing
      BY <1>1, <1>5, <2>1 DEF Deals, Dealing
    <2>3. PICK r \in ClientThreads(n, t, q, "idle") : r.peer = p /\ r.role = Opposite(s.role)
      BY <1>1, <2>1, <2>2, RolesMatch
    <2> QED BY <1>1, <1>3, <2>1, <2>2, <2>3 DEF Receives, Receiving, Dealing
  <1> QED BY <1>4, <1>5

(* Each payload of a client has one thread that receives into it.          *)
LEMMA ReceivedOnce ==
  ASSUME input \in Inputs, NEW q \in P \ {leader}
  PROVE  /\ \A k \in Pays(q) : \E s \in Spawned(q, "share") : Receives(s) /\ s.pay = k
         /\ \A s \in Spawned(q, "share") : Receives(s) => s.pay \in Pays(q)
         /\ \A s1, s2 \in Spawned(q, "share") :
              Receives(s1) /\ Receives(s2) /\ s1.pay = s2.pay => s1 = s2
  <1>1. \A s : Receives(s) <=> s.role \in Receiving
    BY DEF Receives, Receiving
  <1>2. "idle" \notin Receiving
    BY DEF Receiving
  <1>3. Usable(input.n, input.t)
    BY InputFacts
  <1>4. ASSUME NEW k \in Pays(q)
        PROVE  \E s \in Spawned(q, "share") : Receives(s) /\ s.pay = k
    <2>1. q \in Clients(input.n) /\ k \in 0..(tSS(input.n, input.t) - 1)
      BY ShareThreads
    <2>2. \E th \in ClientThreads(input.n, input.t, q, "idle") :
            th.pay = k /\ th.role \in Receiving
      BY <1>2, <1>3, <2>1, PayloadsFilled
    <2> QED BY <1>1, <2>2, ShareThreads
  <1>5. ASSUME NEW s \in Spawned(q, "share"), Receives(s)
        PROVE  s.pay \in Pays(q)
    <2> DEFINE n == input.n
               t == input.t
    <2>1. \A r \in PrevThreads(n, t, q) : r.pay \in 0..(tSS(n, t) - 1)
      BY <1>3, ShareThreads, PrevShape
    <2>2. \A r \in NextThreads(n, t, q) : r.pay \in 0..(tSS(n, t) - 1)
      BY <1>3, ShareThreads, NextShape
    <2>3. LeaderThread(input.n, input.t, q, "idle").role = "idle"
      BY DEF LeaderThread, Thread
    <2> QED BY <1>1, <1>2, <1>5, <2>1, <2>2, <2>3, ShareThreads DEF ClientThreads
  <1> QED BY <1>1, <1>4, <1>5, PhasePayloads DEF Working

(***************************************************************************)
(* What the clients and the leader add up.                                 *)
(***************************************************************************)
LEMMA AtomFields ==
  ASSUME NEW tr \in Nat, NEW p \in P, NEW k \in Int, NEW x \in Items
  PROVE  /\ ShareAtom(tr, p, k, x)[1] = "share" /\ ShareAtom(tr, p, k, x)[3] = p
         /\ ShareAtom(tr, p, k, x)[4] = k
         /\ OprfAtom(tr, p, k, x)[1] = "oprf" /\ OprfAtom(tr, p, k, x)[3] = p
         /\ OprfAtom(tr, p, k, x)[4] = k
  BY DEF ShareAtom, OprfAtom

LEMMA MarkFields ==
  ASSUME input \in Inputs, NEW tr \in Nat, NEW p \in P, NEW q \in P, NEW x \in Items,
         Deals(p, q)
  PROVE  Mark(tr, p, q, x)[3] = p
  <1>1. PayTo(p, q) \in Int /\ q \in Int
    <2>1. PayTo(p, q) \in Pays(p) /\ p \in P \ {leader}
      BY DealtOnce
    <2>2. q \in Int
      BY InputFacts DEF Parties
    <2> QED BY <2>1, <2>2, PaysInt
  <1>2. ShareAtom(tr, p, PayTo(p, q), x)[3] = p
    BY <1>1, AtomFields
  <1>3. OprfAtom(tr, p, q, x)[3] = p
    BY <1>1, AtomFields
  <1> QED BY <1>2, <1>3 DEF Mark

(* A client adds the shares it got to its own: no two of them cancel.      *)
LEMMA ShareSum ==
  ASSUME input \in Inputs, NEW p \in P \ {leader}, NEW tr \in Nat, NEW x \in Items, NEW f,
         f[-1] = Own(tr, p, x),
         \A s \in Spawned(p, "share") : Receives(s) => f[s.pay] = {Mark(tr, s.peer, p, x)}
  PROVE  XorOver(f, Pays(p) \cup {-1}) = Total(tr, p, x)
  <1> DEFINE K == Pays(p) \cup {-1}
  <1>1. Pays(p) = 0..(tSS(input.n, input.t) - 1) /\ -1 \notin Pays(p) /\ Pays(p) \subseteq Int
    BY PaysInt
  <1>2. \A k \in Pays(p) : \E s \in Spawned(p, "share") :
          /\ s.pay = k /\ f[k] = {Mark(tr, s.peer, p, x)}
          /\ s.peer \in P \ {p} /\ Mark(tr, s.peer, p, x)[3] = s.peer
    <2>1. TAKE k \in Pays(p)
    <2>2. PICK s \in Spawned(p, "share") : Receives(s) /\ s.pay = k
      BY ReceivedOnce
    <2>3. s.peer \in P \ {p} /\ Deals(s.peer, p)
      BY <2>2, ReceivedDealt
    <2>4. Mark(tr, s.peer, p, x)[3] = s.peer
      BY <2>3, MarkFields
    <2> QED BY <2>2, <2>3, <2>4
  <1>3. \A a \in f[-1] : a[3] = p
    <2>1. TAKE a \in f[-1]
    <2>2. PICK k \in Pays(p) : a = ShareAtom(tr, p, k, x)
      BY <1>1, <2>1 DEF Own
    <2> QED BY <1>1, <2>2, AtomFields
  <1>4. ASSUME NEW j \in K, NEW k \in K, NEW a, a \in f[j], a \in f[k]
        PROVE  j = k
    <2>1. CASE j \in Pays(p) /\ k \in Pays(p)
      <3>1. PICK s \in Spawned(p, "share") :
              /\ s.pay = j /\ f[j] = {Mark(tr, s.peer, p, x)} /\ Mark(tr, s.peer, p, x)[3] = s.peer
        BY <1>2, <2>1
      <3>2. PICK r \in Spawned(p, "share") :
              /\ r.pay = k /\ f[k] = {Mark(tr, r.peer, p, x)} /\ Mark(tr, r.peer, p, x)[3] = r.peer
        BY <1>2, <2>1
      <3>3. s.peer = r.peer
        BY <1>4, <3>1, <3>2
      <3>4. s = r
        BY <3>3, PhasePeers DEF Working
      <3> QED BY <3>1, <3>2, <3>4
    <2>2. \A i \in Pays(p) : \A b \in f[i] : b[3] # p
      BY <1>2
    <2>3. ~(j = -1 /\ k \in Pays(p)) /\ ~(k = -1 /\ j \in Pays(p))
      BY <1>3, <1>4, <2>2
    <2> HIDE DEF K
    <2>4. j = -1 \/ j \in Pays(p)
      BY DEF K
    <2>5. k = -1 \/ k \in Pays(p)
      BY DEF K
    <2> QED BY <2>1, <2>2, <2>3, <2>4, <2>5
  <1>5. XorOver(f, K) = UNION {f[k] : k \in K}
    <2> HIDE DEF K
    <2> QED BY <1>4, XorApart
  <1>6. UNION {f[k] : k \in K} = f[-1] \cup UNION {f[k] : k \in Pays(p)}
    OBVIOUS
  <1> DEFINE G == {Mark(tr, d, p, x) : d \in {e \in P : Deals(e, p)}}
  <1>7. UNION {f[k] : k \in Pays(p)} = G
    <2>1. ASSUME NEW k \in Pays(p), NEW a \in f[k] PROVE a \in G
      <3>1. PICK s \in Spawned(p, "share") : Receives(s) /\ s.pay = k
        BY ReceivedOnce
      <3>2. s.peer \in P /\ Deals(s.peer, p)
        BY <3>1, ReceivedDealt
      <3> QED BY <2>1, <3>1, <3>2
    <2>2. ASSUME NEW d \in P, Deals(d, p) PROVE \E k \in Pays(p) : Mark(tr, d, p, x) \in f[k]
      <3>1. PICK s \in Spawned(p, "share") : Receives(s) /\ s.peer = d
        BY <2>2, ReceivedDealt
      <3>2. s.pay \in Pays(p)
        BY <3>1, ReceivedOnce
      <3> QED BY <3>1, <3>2
    <2> QED BY <2>1, <2>2
  <1> HIDE DEF G
  <1>8. XorOver(f, K) = Own(tr, p, x) \cup G
    BY <1>5, <1>6, <1>7
  <1> QED BY <1>8 DEF Total, G

(* Among items that all hold, the kth share of d is in the totals of d and *)
(* of the client it was dealt to, and in no other.                         *)
LEMMA InTotal ==
  ASSUME input \in Inputs, NEW tr \in Nat, NEW x \in Items, \A p \in P : x \in input.sets[p],
         NEW d \in P \ {leader}, NEW k \in Pays(d), NEW m \in P \ {leader}
  PROVE  ShareAtom(tr, d, k, x) \in Total(tr, m, x)
           <=> m = d \/ (Deals(d, m) /\ PayTo(d, m) = k)
  <1>1. \A p \in P \ {leader} : Pays(p) = 0..(tSS(input.n, input.t) - 1) /\ Pays(p) \subseteq Int
    BY PaysInt
  <1>2. ShareAtom(tr, d, k, x) \in Own(tr, m, x) <=> m = d
    <2>1. ASSUME NEW j \in Pays(m), ShareAtom(tr, d, k, x) = ShareAtom(tr, m, j, x)
          PROVE  m = d
      BY <1>1, <2>1, AtomFields
    <2> QED BY <1>1, <2>1 DEF Own
  <1>3. ASSUME NEW e \in P, Deals(e, m)
        PROVE  Mark(tr, e, m, x) = ShareAtom(tr, d, k, x) <=> e = d /\ PayTo(e, m) = k
    <2>1. Mark(tr, e, m, x) = ShareAtom(tr, e, PayTo(e, m), x)
      BY DEF Mark
    <2>2. e # leader /\ PayTo(e, m) \in Pays(e)
      BY <1>3, DealtOnce
    <2> QED BY <1>1, <2>1, <2>2, AtomFields
  <1> QED BY <1>2, <1>3 DEF Total

(* The leader's sum vanishes exactly at the items that all hold.           *)
LEMMA LeaderSum ==
  ASSUME input \in Inputs, NEW tr \in Nat, NEW x \in Items, x \in input.sets[leader], NEW f,
         \A p \in P \ {leader} : f[p] = Given(tr, p, leader, x)
  PROVE  XorOver(f, P \ {leader}) = {} <=> \A p \in P : x \in input.sets[p]
  <1> DEFINE K == P \ {leader}
  <1>1. ASSUME \A p \in P : x \in input.sets[p]
        PROVE  XorOver(f, K) = {}
    <2>1. \A m \in K : f[m] = Total(tr, m, x)
      BY <1>1 DEF Given, Body
    <2>2. ASSUME NEW m \in K, NEW a \in f[m]
          PROVE  \E d \in K : \E k \in Pays(d) : a = ShareAtom(tr, d, k, x)
      <3>1. CASE a \in Own(tr, m, x)
        BY <3>1, ShareThreads DEF Own
      <3>2. CASE \E e \in P : Deals(e, m) /\ a = Mark(tr, e, m, x)
        <4>1. PICK e \in P : Deals(e, m) /\ a = Mark(tr, e, m, x)
          BY <3>2
        <4>2. e \in K /\ PayTo(e, m) \in Pays(e)
          BY <4>1, DealtOnce
        <4> QED BY <1>1, <4>1, <4>2 DEF Mark
      <3> QED BY <2>1, <2>2, <3>1, <3>2 DEF Total
    <2>3. ASSUME NEW m \in K, NEW a \in f[m]
          PROVE  \E i, j : i # j /\ {l \in K : a \in f[l]} = {i, j}
      <3>1. PICK d \in K : \E k \in Pays(d) : a = ShareAtom(tr, d, k, x)
        BY <2>2, <2>3
      <3>2. PICK k \in Pays(d) : a = ShareAtom(tr, d, k, x)
        BY <3>1
      <3>3. PICK q \in P \ {d, leader} : Deals(d, q) /\ PayTo(d, q) = k
        BY EachDealt
      <3>4. \A l \in K : a \in f[l] <=> l = d \/ l = q
        <4>1. \A l \in K : a \in f[l] <=> l = d \/ (Deals(d, l) /\ PayTo(d, l) = k)
          BY <1>1, <2>1, <3>2, InTotal
        <4> QED BY <3>3, <4>1, DealtOnce
      <3>5. {l \in K : a \in f[l]} = {d, q}
        BY <3>3, <3>4
      <3> QED BY <3>3, <3>5
    <2> HIDE DEF K
    <2> QED BY <2>3, XorTwice
  <1>2. ASSUME NEW p \in P, x \notin input.sets[p]
        PROVE  XorOver(f, K) # {}
    <2> DEFINE a == OprfAtom(tr, p, leader, x)
    <2>1. p \in K /\ a \in f[p]
      BY <1>2 DEF Given
    <2>2. P \subseteq Int /\ leader \in P
      BY InputFacts DEF Parties
    <2>3. ASSUME NEW m \in K, a \in f[m]
          PROVE  m = p
      <3>1. a[1] = "oprf" /\ a[3] = p /\ a[4] = leader
        BY <2>2, AtomFields
      <3>2. CASE x \in input.sets[m]
        <4>1. a \in Total(tr, m, x)
          BY <2>3, <3>2 DEF Given, Body
        <4>2. a \notin Own(tr, m, x)
          <5>1. ASSUME NEW k \in 0..(tSS(input.n, input.t) - 1), a = ShareAtom(tr, m, k, x)
                PROVE  FALSE
            <6>1. k \in Int
              BY SMT
            <6> QED BY <3>1, <5>1, <6>1, AtomFields
          <5> QED BY <5>1 DEF Own
        <4>3. PICK e \in P : Deals(e, m) /\ a = Mark(tr, e, m, x)
          BY <4>1, <4>2 DEF Total
        <4>4. e # leader /\ PayTo(e, m) \in Pays(e)
          BY <4>3, DealtOnce
        <4>5. PayTo(e, m) \in Int /\ m \in Int
          BY <2>2, <4>4, PaysInt
        <4> QED BY <2>2, <3>1, <4>3, <4>5, AtomFields DEF Mark
      <3>3. CASE x \notin input.sets[m]
        <4>1. a = OprfAtom(tr, m, leader, x)
          BY <2>3, <3>3 DEF Given
        <4>2. leader \in Int
          BY <2>2
        <4>3. OprfAtom(tr, m, leader, x)[3] = m
          BY <4>2, AtomFields
        <4> HIDE DEF a
        <4> QED BY <3>1, <4>1, <4>3
      <3> QED BY <3>2, <3>3
    <2> HIDE DEF a, K
    <2>4. a \in XorOver(f, K)
      BY <2>1, <2>3, XorOnce
    <2> QED BY <2>4
  <1> QED BY <1>1, <1>2

(***************************************************************************)
(* Who has shares to send, and who awaits some.                            *)
(***************************************************************************)
HasReply(todo, k) == \E i \in 1..Len(todo) : todo[i].reply = k
HasAwait(todo, k) == \E i \in 1..Len(todo) : todo[i].await = k

LEMMA FewRounds ==
  /\ \A k : ~HasReply(<< >>, k)
  /\ \A x, k : HasReply(<<x>>, k) => x.reply = k
  /\ \A x, y, k : HasReply(<<x, y>>, k) => k \in {x.reply, y.reply}
  /\ \A x, y, z, k : HasReply(<<x, y, z>>, k) => k \in {x.reply, y.reply, z.reply}
  /\ \A x, k : x.await = k => HasAwait(<<x>>, k)
  /\ \A x, y, k : k \in {x.await, y.await} => HasAwait(<<x, y>>, k)
  <1>1. \A k : ~HasReply(<< >>, k)
    <2>1. Len(<< >>) = 0 /\ 1..0 = {}
      BY SMT
    <2> QED BY <2>1 DEF HasReply
  <1>2. ASSUME NEW x, NEW k
        PROVE  /\ HasReply(<<x>>, k) => x.reply = k
               /\ x.await = k => HasAwait(<<x>>, k)
    <2> DEFINE u == <<x>>
    <2>1. Len(u) = 1 /\ u[1] = x
      OBVIOUS
    <2> HIDE DEF u
    <2>2. 1..Len(u) = {1}
      BY <2>1, SMT
    <2>3. /\ HasReply(u, k) => x.reply = k
          /\ x.await = k => HasAwait(u, k)
      BY <2>1, <2>2 DEF HasReply, HasAwait
    <2> QED BY <2>3 DEF u
  <1>3. ASSUME NEW x, NEW y, NEW k
        PROVE  /\ HasReply(<<x, y>>, k) => k \in {x.reply, y.reply}
               /\ k \in {x.await, y.await} => HasAwait(<<x, y>>, k)
    <2> DEFINE u == <<x, y>>
    <2>1. Len(u) = 2 /\ u[1] = x /\ u[2] = y
      OBVIOUS
    <2> HIDE DEF u
    <2>2. 1..Len(u) = {1, 2}
      BY <2>1, SMT
    <2>3. /\ HasReply(u, k) => k \in {x.reply, y.reply}
          /\ k \in {x.await, y.await} => HasAwait(u, k)
      BY <2>1, <2>2 DEF HasReply, HasAwait
    <2> QED BY <2>3 DEF u
  <1>4. ASSUME NEW x, NEW y, NEW z, NEW k
        PROVE  HasReply(<<x, y, z>>, k) => k \in {x.reply, y.reply, z.reply}
    <2> DEFINE u == <<x, y, z>>
    <2>1. Len(u) = 3 /\ u[1] = x /\ u[2] = y /\ u[3] = z
      OBVIOUS
    <2> HIDE DEF u
    <2>2. 1..Len(u) = {1, 2, 3}
      BY <2>1, SMT
    <2>3. HasReply(u, k) => k \in {x.reply, y.reply, z.reply}
      BY <2>1, <2>2 DEF HasReply
    <2> QED BY <2>3 DEF u
  <1> QED BY <1>1, <1>2, <1>3, <1>4, Zenon

(* Shares are sent, and awaited, in the last two phases, by those who deal *)
(* and receive.                                                            *)
LEMMA RoundsShare ==
  ASSUME NEW ph \in Working, NEW role \in Roles
  PROVE  /\ HasReply(Rounds(ph, role), "share") => ph \in {"share", "leader"} /\ role \in Dealing
         /\ ph \in {"share", "leader"} /\ role \in {"recv", "dualSend", "dualRecv"}
              => HasAwait(Rounds(ph, role), "share")
  <1>1. \A x, y : RoundOf(x, y).await = x /\ RoundOf(x, y).reply = y
    BY DEF RoundOf
  <1>2. role = "idle" => ~HasReply(Rounds(ph, role), "share")
    BY FewRounds, RoundsTable
  <1>3. CASE ph = "init" /\ role # "idle"
    <2>1. CASE role = "send"
      BY <1>1, <1>3, <2>1, FewRounds, RoundsTable
    <2>2. CASE role = "recv"
      BY <1>1, <1>3, <2>2, FewRounds, RoundsTable
    <2>3. CASE role = "dualSend"
      BY <1>1, <1>3, <2>3, FewRounds, RoundsTable
    <2>4. CASE role = "dualRecv"
      BY <1>1, <1>3, <2>4, FewRounds, RoundsTable
    <2> QED BY <1>3, <2>1, <2>2, <2>3, <2>4 DEF Roles
  <1>4. CASE ph = "oprf" /\ role # "idle"
    <2>1. CASE role = "send"
      BY <1>1, <1>4, <2>1, FewRounds, RoundsTable
    <2>2. CASE role = "recv"
      BY <1>1, <1>4, <2>2, FewRounds, RoundsTable
    <2>3. CASE role = "dualSend"
      BY <1>1, <1>4, <2>3, FewRounds, RoundsTable
    <2>4. CASE role = "dualRecv"
      BY <1>1, <1>4, <2>4, FewRounds, RoundsTable
    <2> QED BY <1>4, <2>1, <2>2, <2>3, <2>4 DEF Roles
  <1>5. CASE ph \in {"share", "leader"} /\ role # "idle"
    <2>1. CASE role = "send"
      BY <1>5, <2>1 DEF Dealing
    <2>2. CASE role = "recv"
      <3>1. Rounds(ph, role) = <<RoundOf("share", "none")>>
        BY <1>5, <2>2, RoundsTable
      <3>2. ~HasReply(<<RoundOf("share", "none")>>, "share")
        BY <1>1, FewRounds
      <3>3. HasAwait(<<RoundOf("share", "none")>>, "share")
        BY <1>1, FewRounds
      <3> QED BY <3>1, <3>2, <3>3
    <2>3. CASE role = "dualSend"
      <3>1. Rounds(ph, role) = <<RoundOf("none", "share"), RoundOf("share", "none")>>
        BY <1>5, <2>3, RoundsTable
      <3>2. HasAwait(<<RoundOf("none", "share"), RoundOf("share", "none")>>, "share")
        BY <1>1, FewRounds
      <3> QED BY <1>5, <2>3, <3>1, <3>2 DEF Dealing
    <2>4. CASE role = "dualRecv"
      <3>1. Rounds(ph, role) = <<RoundOf("share", "none"), RoundOf("none", "share")>>
        BY <1>5, <2>4, RoundsTable
      <3>2. HasAwait(<<RoundOf("share", "none"), RoundOf("none", "share")>>, "share")
        BY <1>1, FewRounds
      <3> QED BY <1>5, <2>4, <3>1, <3>2 DEF Dealing
    <2> QED BY <1>5, <2>1, <2>2, <2>3, <2>4 DEF Roles
  <1>6. CASE role = "idle"
    BY <1>2, <1>6
  <1> QED BY <1>3, <1>4, <1>5, <1>6 DEF Working

(* The operators below depend on the inputs alone.                         *)
LEMMA DealFrame ==
  ASSUME UNCHANGED input
  PROVE  /\ P' = P /\ leader' = leader
         /\ \A p, ph : Spawned(p, ph)' = Spawned(p, ph)
         /\ \A p, q : (Deals(p, q)' <=> Deals(p, q)) /\ PayTo(p, q)' = PayTo(p, q)
         /\ \A tr, p, x : Own(tr, p, x)' = Own(tr, p, x) /\ Total(tr, p, x)' = Total(tr, p, x)
         /\ \A tr, p, q, x : /\ Body(tr, p, q, x)' = Body(tr, p, q, x)
                             /\ Given(tr, p, q, x)' = Given(tr, p, q, x)
  <1>1. /\ P' = P /\ leader' = leader
        /\ \A p, ph : Spawned(p, ph)' = Spawned(p, ph)
    BY InputFrame
  <1>2. \A p, q : (Deals(p, q)' <=> Deals(p, q)) /\ PayTo(p, q)' = PayTo(p, q)
    BY <1>1 DEF Deals, PayTo
  <1>3. \A tr, p, q, x : Mark(tr, p, q, x)' = Mark(tr, p, q, x)
    BY <1>2 DEF Mark, ShareAtom, OprfAtom
  <1>4. \A tr, p, x : Own(tr, p, x)' = Own(tr, p, x)
    BY DEF Own, ShareAtom
  <1>5. \A tr, p, x : Total(tr, p, x)' = Total(tr, p, x)
    BY <1>1, <1>2, <1>3, <1>4 DEF Total
  <1>6. \A tr, p, q, x : Body(tr, p, q, x)' = Body(tr, p, q, x)
    BY <1>1, <1>2, <1>5 DEF Body, ShareAtom
  <1>7. \A tr, p, q, x : Given(tr, p, q, x)' = Given(tr, p, q, x)
    BY <1>6 DEF Given, OprfAtom
  <1> QED BY <1>1, <1>2, <1>4, <1>5, <1>6, <1>7

(* A thread of p in phase f that has shares to send.                       *)
MaySend(p, f, th) == HasReply(th.todo, "share") =>
  \/ f = "share" /\ Deals(p, th.peer) /\ PayTo(p, th.peer) = th.pay
  \/ f = "leader" /\ p # leader /\ th.peer = leader

LEMMA SendNow == SendInv <=> \A p \in P : \A th \in threads[p] : MaySend(p, phase[p], th)
  BY DEF SendInv, MaySend, HasReply

LEMMA SendNext ==
  ASSUME UNCHANGED input
  PROVE  SendInv' <=> \A p \in P : \A th \in threads'[p] : MaySend(p, phase'[p], th)
  <1>1. /\ P' = P /\ leader' = leader
        /\ \A p, q : (Deals(p, q)' <=> Deals(p, q)) /\ PayTo(p, q)' = PayTo(p, q)
    BY DealFrame
  <1> QED BY <1>1 DEF SendInv, MaySend, HasReply

LEMMA SendEntered ==
  ASSUME input \in Inputs, NEW p \in P, NEW ph \in Working, NEW th \in Started(p, ph)
  PROVE  MaySend(p, ph, th)
  <1>1. PICK s \in Spawned(p, ph) :
          th.peer = s.peer /\ th.pay = s.pay /\ th.todo = Rounds(ph, s.role)
    BY DEF Started
  <1>2. SUFFICES ASSUME HasReply(Rounds(ph, s.role), "share")
                 PROVE  \/ ph = "share" /\ Deals(p, s.peer) /\ PayTo(p, s.peer) = s.pay
                        \/ ph = "leader" /\ p # leader /\ s.peer = leader
    BY <1>1 DEF MaySend
  <1>3. ph \in {"share", "leader"} /\ s.role \in Dealing
    BY <1>2, RoundsShare, SpawnedRoles
  <1>4. CASE ph = "share"
    <2>1. Deals(p, s.peer)
      BY <1>3, <1>4 DEF Deals, Dealing
    <2>2. PayTo(p, s.peer) = s.pay
      BY <1>4, PhasePeers DEF PayTo
    <2> QED BY <1>4, <2>1, <2>2
  <1>5. CASE ph = "leader"
    <2>1. p # leader
      <3>1. ASSUME p = leader PROVE s.role = "recv"
        BY <1>5, <3>1 DEF Spawned, LeaderThreads, Thread
      <3> QED BY <1>3, <3>1 DEF Dealing
    <2>2. s.peer = leader
      BY <1>5, <2>1 DEF Spawned, Thread
    <2> QED BY <1>5, <2>1, <2>2
  <1> QED BY <1>3, <1>4, <1>5

LEMMA SendStep ==
  ASSUME Inv, SendInv, [Next]_vars
  PROVE  SendInv'
  <1>1. input \in Inputs /\ threads \in [P -> SUBSET ThreadRec] /\ phase \in [P -> Alive]
    BY DEF Inv
  <1>2. ASSUME NEW p \in P, NEW ph \in Working, Enter(p, ph), UNCHANGED input PROVE SendInv'
    <2>1. /\ phase' = [phase EXCEPT ![p] = ph]
          /\ threads' = [threads EXCEPT ![p] = Started(p, ph)]
      BY <1>1, <1>2, Entered
    <2> SUFFICES ASSUME NEW a \in P, NEW th \in threads'[a] PROVE MaySend(a, phase'[a], th)
      BY <1>2, SendNext
    <2>2. CASE a = p
      BY <1>1, <2>1, <2>2, SendEntered
    <2>3. CASE a # p
      BY <1>1, <2>1, <2>3, SendNow
    <2> QED BY <2>2, <2>3
  <1>3. ASSUME NEW p \in P, BeginTrial(p) \/ InitDone(p) \/ OprfDone(p) \/ ShareDone(p)
        PROVE  SendInv'
    <2>1. PICK ph \in Working : Enter(p, ph) /\ UNCHANGED input
      BY <1>3 DEF BeginTrial, InitDone, OprfDone, ShareDone, FirstPhase, Working
    <2> QED BY <1>2, <2>1
  <1>4. ASSUME NEW p \in P, LeaderDone(p) PROVE SendInv'
    <2>1. /\ UNCHANGED input /\ threads' = [threads EXCEPT ![p] = {}]
          /\ \A a \in P \ {p} : phase'[a] = phase[a]
      BY <1>1, <1>4 DEF LeaderDone
    <2> SUFFICES ASSUME NEW a \in P, NEW th \in threads'[a] PROVE MaySend(a, phase'[a], th)
      BY <2>1, SendNext
    <2>2. a # p /\ threads'[a] = threads[a]
      BY <1>1, <2>1
    <2> QED BY <2>1, <2>2, SendNow
  <1>5. ASSUME NEW p \in P, NEW th \in threads[p], RunRound(p, th) PROVE SendInv'
    <2> DEFINE nth == [th EXCEPT !.todo = Tail(@)]
    <2>1. /\ UNCHANGED <<input, phase>> /\ th.todo # << >>
          /\ threads' = [threads EXCEPT ![p] = (@ \ {th}) \cup {nth}]
      BY <1>5 DEF RunRound, CanRun
    <2>2. th \in ThreadRec
      BY <1>1
    <2>3. nth.peer = th.peer /\ nth.pay = th.pay /\ nth.todo = Tail(th.todo)
      BY <2>2 DEF ThreadRec
    <2>4. \A k : HasReply(Tail(th.todo), k) => HasReply(th.todo, k)
      <3> DEFINE u == th.todo
      <3>1. u \in Seq(RoundRec) /\ u # << >>
        BY <2>1, <2>2 DEF ThreadRec
      <3> HIDE DEF u
      <3>2. /\ Len(Tail(u)) = Len(u) - 1 /\ Len(u) \in Nat
            /\ \A i \in 1..Len(Tail(u)) : Tail(u)[i] = u[i + 1]
        BY <3>1, HeadTailProperties, LenProperties
      <3>3. \A i \in 1..Len(Tail(u)) : i + 1 \in 1..Len(u)
        BY <3>2, SMT
      <3>4. \A k : HasReply(Tail(u), k) => HasReply(u, k)
        BY <3>2, <3>3 DEF HasReply
      <3> QED BY <3>4 DEF u
    <2> HIDE DEF nth
    <2>5. MaySend(p, phase[p], nth)
      BY <2>3, <2>4, SendNow DEF MaySend
    <2> SUFFICES ASSUME NEW a \in P, NEW t \in threads'[a] PROVE MaySend(a, phase[a], t)
      BY <2>1, SendNext
    <2>6. CASE a = p
      <3>1. t \in threads[p] \/ t = nth
        BY <1>1, <2>1, <2>6
      <3> QED BY <2>5, <2>6, <3>1, SendNow
    <2>7. CASE a # p
      BY <1>1, <2>1, <2>7, SendNow
    <2> QED BY <2>6, <2>7
  <1>6. CASE UNCHANGED vars
    <2>1. UNCHANGED <<input, phase, threads>>
      BY <1>6 DEF vars
    <2> QED BY <2>1, SendNow, SendNext
  <1> QED BY <1>3, <1>4, <1>5, <1>6 DEF Next, MainStep, ThreadStep, Finished

(***************************************************************************)
(* No share runs ahead of its trial.                                       *)
(***************************************************************************)
LEMMA NoCorrParts ==
  ASSUME NEW x \in Seq(Kinds), NEW y \in Seq(Kinds), NoCorr(x \o y)
  PROVE  NoCorr(x) /\ NoCorr(y)
  <1> DEFINE z == x \o y
  <1>1. /\ Len(z) = Len(x) + Len(y) /\ Len(x) \in Nat /\ Len(y) \in Nat
        /\ \A i \in 1..(Len(x) + Len(y)) : z[i] = IF i <= Len(x) THEN x[i] ELSE y[i - Len(x)]
    BY ConcatProperties, LenProperties
  <1> HIDE DEF z
  <1>2. ASSUME NEW i \in 1..Len(x) PROVE x[i] # "corr"
    <2>1. i \in 1..Len(z) /\ i \in 1..(Len(x) + Len(y)) /\ i <= Len(x)
      BY <1>1, SMT
    <2>2. z[i] = x[i]
      BY <1>1, <2>1
    <2> QED BY <2>1, <2>2 DEF NoCorr, z
  <1>3. ASSUME NEW i \in 1..Len(y) PROVE y[i] # "corr"
    <2> DEFINE j == Len(x) + i
    <2>1. j \in 1..Len(z) /\ j \in 1..(Len(x) + Len(y)) /\ ~(j <= Len(x)) /\ j - Len(x) = i
      BY <1>1, SMT
    <2> HIDE DEF j
    <2>2. z[j] = y[i]
      BY <1>1, <2>1
    <2> QED BY <2>1, <2>2 DEF NoCorr, z
  <1> QED BY <1>2, <1>3 DEF NoCorr

(* Whoever is dealt shares sends corrections.                              *)
LEMMA CorrSent ==
  ASSUME input \in Inputs, NEW p \in P, NEW q \in P \ {p}, Talk(q, p), Talk(p, q),
         NEW role \in Dealing, Agenda(p, q, "oprf") = Rounds("oprf", role)
  PROVE  ~NoCorr(AllSends(q, p))
  <1> DEFINE a == Sends(Agenda(q, p, "oprf"))
             i == Sends(Agenda(q, p, "init"))
             s == Sends(Agenda(q, p, "share"))
             l == Sends(Agenda(q, p, "leader"))
  <1>1. a = <<"corr">>
    <2>1. a = Awaits(Rounds("oprf", role))
      BY PairStreams DEF Working
    <2>2. role \in TalkRoles /\ Opposite(role) # "send"
      BY DEF Dealing, TalkRoles, Opposite
    <2>3. Awaits(Rounds("oprf", role)) = Sends(Rounds("oprf", Opposite(role)))
      BY <2>2, StreamTable DEF Working
    <2>4. Sends(Rounds("oprf", Opposite(role))) = Only("corr")
      BY <2>2, StreamTable DEF Working
    <2> QED BY <2>1, <2>3, <2>4 DEF Only
  <1>2. ~NoCorr(<<"corr">>)
    <2> DEFINE u == <<"corr">>
    <2>1. Len(u) = 1 /\ u[1] = "corr"
      OBVIOUS
    <2> HIDE DEF u
    <2>2. 1 \in 1..Len(u)
      BY <2>1, SMT
    <2>3. ~NoCorr(u)
      BY <2>1, <2>2 DEF NoCorr
    <2> QED BY <2>3 DEF u
  <1>3. a \in Seq(Kinds) /\ i \in Seq(Kinds) /\ s \in Seq(Kinds) /\ l \in Seq(Kinds)
    BY PairStreams DEF Working
  <1>4. AllSends(q, p) = a \o (s \o l) \/ AllSends(q, p) = i \o (a \o (s \o l))
    BY DEF AllSends, SendsAfter, FirstPhase
  <1> HIDE DEF a, i, s, l
  <1>5. s \o l \in Seq(Kinds)
    BY <1>3, ConcatProperties
  <1>6. a \o (s \o l) \in Seq(Kinds) /\ ~NoCorr(a \o (s \o l))
    BY <1>1, <1>2, <1>3, <1>5, ConcatProperties, NoCorrParts
  <1>7. ~NoCorr(i \o (a \o (s \o l)))
    BY <1>3, <1>6, NoCorrParts
  <1> QED BY <1>4, <1>6, <1>7

(* Whoever sends a share is in the same trial as its peer: not ahead of    *)
(* it, since it has read the peer's corrections, and not behind it, since  *)
(* the peer cannot end a trial without the share.                          *)
LEMMA Level ==
  ASSUME Inv, TypeInv, FlowInv, WaitInv, SendInv,
         NEW p \in P, NEW th \in threads[p], RunRound(p, th), Head(th.todo).reply = "share"
  PROVE  trial[p] = trial[th.peer] /\ MaySend(p, phase[p], th) /\ HasReply(th.todo, "share")
  <1> DEFINE q == th.peer
  <1>1. /\ input \in Inputs /\ q \in P \ {p} /\ Talk(p, q) /\ Talk(q, p)
    BY RoundLeft, PairRoles DEF Inv
  <1>2. HasReply(th.todo, "share") /\ MaySend(p, phase[p], th)
    <2>1. th.todo # << >> /\ th.todo \in Seq(RoundRec)
      BY DEF RunRound, CanRun, Inv, ThreadRec
    <2>2. Head(th.todo) = th.todo[1] /\ 1 \in 1..Len(th.todo)
      <3> DEFINE u == th.todo
      <3> HIDE DEF u
      <3>1. u # << >> /\ u \in Seq(RoundRec) => Head(u) = u[1] /\ 1 \in 1..Len(u)
        BY HeadTailProperties, LenProperties, EmptySeq, SMT
      <3> QED BY <2>1, <3>1 DEF u
    <2>3. HasReply(th.todo, "share")
      BY <2>2 DEF HasReply
    <2> QED BY <2>3, SendNow
  <1>3. phase[p] \in {"share", "leader"}
    BY <1>2 DEF MaySend
  <1>4. PICK role \in Dealing : Agenda(p, q, "oprf") = Rounds("oprf", role)
    <2>1. CASE phase[p] = "leader"
      <3>1. p # leader /\ q = leader
        BY <1>2, <2>1 DEF MaySend
      <3> QED BY <1>1, <3>1, ClientLeader DEF Paired, Dealing
    <2>2. CASE phase[p] = "share"
      <3>1. Deals(p, q)
        BY <1>2, <2>2 DEF MaySend
      <3>2. p # leader
        BY <1>1, <3>1, DealtOnce
      <3>3. PICK s \in Spawned(p, "share") : s.peer = q /\ s.role \in Dealing
        BY <3>1 DEF Deals, Dealing
      <3>4. s \in NextThreads(input.n, input.t, p)
        BY <1>1, <3>2, <3>3, DealingNext
      <3>5. s \in Spawned(p, "oprf")
        BY <3>2, <3>4 DEF Spawned, ClientThreads
      <3> QED BY <1>1, <3>3, <3>5, AgendaOf DEF Working
    <2> QED BY <1>3, <2>1, <2>2
  <1> DEFINE s  == SendsLeft(p, q, threads[p], phase[p])
             r  == AwaitsLeft(q, p, threads[q], phase[q])
             c  == KindsOf(chan[p][q])
             a  == AllSends(p, q)
             s2 == SendsLeft(q, p, threads[q], phase[q])
             r2 == AwaitsLeft(p, q, threads[p], phase[p])
             c2 == KindsOf(chan[q][p])
             a2 == AllSends(q, p)
             tp == trial[p]
             tq == trial[q]
  <1>5. /\ Flow(c, s, r, a, tp, tq) /\ Flow(c2, s2, r2, a2, tq, tp)
        /\ c \in Seq(Kinds) /\ s \in Seq(Kinds) /\ r \in Seq(Kinds) /\ a \in Seq(Kinds)
        /\ c2 \in Seq(Kinds) /\ s2 \in Seq(Kinds) /\ r2 \in Seq(Kinds) /\ a2 \in Seq(Kinds)
        /\ tp \in Nat /\ tq \in Nat
    <2>1. p \in P \ {q}
      BY <1>1
    <2> QED BY <1>1, <2>1, FlowNow, FlowTypes, PairAll DEF FlowAt
  <1>6. s # << >>
    <2>1. /\ s = Only("share") \o SendsLeft(p, q, threads'[p], phase[p])
          /\ SendsLeft(p, q, threads'[p], phase[p]) \in Seq(Kinds)
      BY RoundLeft
    <2>2. Only("share") \in Seq(Kinds) /\ Only("share") # << >>
      BY OnlySeq DEF Some, Kinds
    <2> HIDE DEF s
    <2> QED BY <2>1, <2>2, ConcatSome
  <1>7. Len(r) <= Len(a)
    <2>1. WaitAt(q, p, chan[q][p], threads[q], phase[q])
      BY <1>1, WaitNow
    <2>2. AllAwaits(q, p) = a
      BY <1>1, PairAll
    <2> QED BY <1>1, <2>1, <2>2 DEF WaitAt
  <1>8. NoCorr(r2)
    <2>1. "corr" \notin Awaited(Agenda(p, q, phase[p]))
      BY <1>1, <1>3, CorrAwaited
    <2>2. p \in P /\ q \in P \ {p} /\ phase[p] # "init"
      BY <1>1, <1>3
    <2> QED BY <1>1, <2>1, <2>2, NoCorrLate
  <1>9. ~NoCorr(a2)
    BY <1>1, <1>4, CorrSent
  <1> HIDE DEF s, r, c, a, s2, r2, c2, a2, tp, tq
  <1>10. ~(tp < tq)
    <2>1. SUFFICES ASSUME tp < tq PROVE FALSE
      OBVIOUS
    <2>2. c \o (s \o a) = r
      BY <1>5, <2>1 DEF Flow
    <2>3. s \o a \in Seq(Kinds) /\ Len(s \o a) = Len(s) + Len(a)
      BY <1>5, ConcatProperties
    <2>4. Len(r) = Len(c) + Len(s \o a)
      BY <1>5, <2>2, <2>3, ConcatProperties
    <2>5. Len(s) \in Nat /\ Len(s) # 0 /\ Len(c) \in Nat /\ Len(a) \in Nat
      BY <1>5, <1>6, LenProperties, EmptySeq
    <2> QED BY <1>7, <2>3, <2>4, <2>5, SMT
  <1>11. ~(tq < tp)
    <2>1. SUFFICES ASSUME tq < tp PROVE FALSE
      OBVIOUS
    <2>2. c2 \o (s2 \o a2) = r2
      BY <1>5, <2>1 DEF Flow
    <2>3. s2 \o a2 \in Seq(Kinds)
      BY <1>5, ConcatProperties
    <2>4. NoCorr(s2 \o a2)
      BY <1>5, <1>8, <2>2, <2>3, NoCorrParts
    <2>5. NoCorr(a2)
      BY <1>5, <2>4, NoCorrParts
    <2> QED BY <1>9, <2>5
  <1>12. tp = tq
    BY <1>5, <1>10, <1>11, SMT
  <1> QED BY <1>2, <1>12 DEF tp, tq

(***************************************************************************)
(* The payload for the leader.                                             *)
(***************************************************************************)
LEMMA LeaderShareOwn ==
  ASSUME input \in Inputs, NEW p \in P \ {leader}, NEW tr \in Nat, NEW x \in Items
  PROVE  LeaderShare(tr, p)[x] = Own(tr, p, x)
  <1> DEFINE K == 0..(tSS(input.n, input.t) - 1)
             f == [k \in K |-> Share(tr, p, k)[x]]
  <1>1. LeaderShare(tr, p)[x] = XorOver(f, K)
    BY DEF LeaderShare
  <1>2. \A k \in K : f[k] = {ShareAtom(tr, p, k, x)}
    BY DEF Share, ShareAtom
  <1>3. \A k \in K : k \in Int
    BY SMT
  <1>4. \A j, k \in K : \A a : a \in f[j] /\ a \in f[k] => j = k
    <2> HIDE DEF f, K
    <2> QED BY <1>2, <1>3, AtomFields
  <1>5. XorOver(f, K) = UNION {f[k] : k \in K}
    <2> HIDE DEF f, K
    <2> QED BY <1>4, XorApart
  <1>6. UNION {f[k] : k \in K} = Own(tr, p, x)
    <2>1. Own(tr, p, x) = {ShareAtom(tr, p, k, x) : k \in K}
      BY DEF Own
    <2> HIDE DEF f, K
    <2> QED BY <1>2, <2>1
  <1> QED BY <1>1, <1>5, <1>6

SumAt(p, f, tr, sm) == p # leader /\ f \in Working =>
  IF f = "leader" THEN \A x \in input.sets[p] : sm[x] = Total(tr, p, x)
                  ELSE \A x \in Items : sm[x] = Own(tr, p, x)

LEMMA SumNow == SumInv <=> \A p \in P : SumAt(p, phase[p], trial[p], sum[p])
  BY DEF SumInv, SumAt

LEMMA SumNext ==
  ASSUME UNCHANGED input
  PROVE  SumInv' <=> \A p \in P : SumAt(p, phase'[p], trial'[p], sum'[p])
  <1>1. /\ P' = P /\ leader' = leader
        /\ \A tr, p, x : Own(tr, p, x)' = Own(tr, p, x) /\ Total(tr, p, x)' = Total(tr, p, x)
    BY DealFrame
  <1> QED BY <1>1 DEF SumInv, SumAt

(* A client that has joined its threads has got all its shares.            *)
LEMMA SharesGot ==
  ASSUME Inv, TypeInv, RecvInv, NEW p \in P, Joined(p),
         phase[p] = (IF p = leader THEN "leader" ELSE "share"),
         NEW s \in Spawned(p, phase[p]), Receives(s), NEW x \in input.sets[p]
  PROVE  recvPay[p][s.pay][x] = Given(trial[p], s.peer, p, x)
  <1>1. LeftIn(threads[p], s.peer) = << >>
    BY LeftNothing DEF Joined
  <1>2. Left(p, s.peer) = << >>
    BY <1>1 DEF Left, LeftIn
  <1>3. Len(<< >>) = 0 /\ 1..0 = {}
    BY SMT
  <1> QED BY <1>2, <1>3 DEF RecvInv

LEMMA SetsOfItems ==
  ASSUME input \in Inputs
  PROVE  DOMAIN input.sets = P /\ \A p \in P : input.sets[p] \subseteq Items
  BY InputsAssumption DEF P

LEMMA ShareDoneSum ==
  ASSUME Inv, TypeInv, SumInv, RecvInv, NEW p \in P \ {leader}, ShareDone(p),
         NEW x \in input.sets[p]
  PROVE  sum'[p][x] = Total(trial[p], p, x)
  <1> DEFINE K == Pays(p) \cup {-1}
             f == [k \in K |-> IF k = -1 THEN sum[p][x] ELSE recvPay[p][k][x]]
  <1>1. input \in Inputs /\ phase[p] = "share" /\ Joined(p) /\ trial[p] \in Nat /\ x \in Items
    <2>1. trial[p] \in Nat
      BY TrialsAssumption, SMT DEF TypeInv
    <2>2. input \in Inputs
      BY DEF Inv
    <2>3. x \in Items
      BY <2>2, SetsOfItems
    <2> QED BY <2>1, <2>2, <2>3 DEF ShareDone
  <1>2. sum'[p][x] = XorOver(f, K)
    <2>1. sum' = [sum EXCEPT ![p] =
            [y \in Items |-> XorOver([k \in K |-> IF k = -1 THEN sum[p][y] ELSE recvPay[p][k][y]], K)]]
      BY DEF ShareDone
    <2>2. p \in DOMAIN sum
      BY DEF TypeInv
    <2> QED BY <1>1, <2>1, <2>2
  <1>3. f[-1] = Own(trial[p], p, x)
    <2>1. f[-1] = sum[p][x]
      OBVIOUS
    <2> QED BY <1>1, <2>1 DEF SumInv, Working
  <1>4. ASSUME NEW s \in Spawned(p, "share"), Receives(s)
        PROVE  f[s.pay] = {Mark(trial[p], s.peer, p, x)}
    <2>1. s.pay \in Pays(p) /\ s.pay # -1
      BY <1>1, <1>4, ReceivedOnce, PaysInt
    <2>2. f[s.pay] = recvPay[p][s.pay][x]
      BY <2>1
    <2>3. recvPay[p][s.pay][x] = Given(trial[p], s.peer, p, x)
      BY <1>1, <1>4, SharesGot
    <2>4. Given(trial[p], s.peer, p, x) = {Mark(trial[p], s.peer, p, x)}
      BY DEF Given, Mark, Body
    <2> QED BY <2>2, <2>3, <2>4
  <1> HIDE DEF f
  <1>5. XorOver(f, K) = Total(trial[p], p, x)
    BY <1>1, <1>3, <1>4, ShareSum
  <1> QED BY <1>2, <1>5

LEMMA SumStep ==
  ASSUME Inv, TypeInv, SumInv, RecvInv, [Next]_vars
  PROVE  SumInv'
  <1>1. /\ input \in Inputs /\ phase \in [P -> Alive] /\ trial \in [P -> 0..Trials]
        /\ sum \in [P -> Payloads]
    BY DEF Inv, TypeInv
  <1>2. ASSUME NEW p \in P, BeginTrial(p) PROVE SumInv'
    <2>1. /\ phase' = [phase EXCEPT ![p] = FirstPhase] /\ UNCHANGED input
          /\ trial' = [trial EXCEPT ![p] = trial[p] + 1]
          /\ sum' = [sum EXCEPT ![p] = IF p = leader THEN Zero ELSE LeaderShare(trial[p] + 1, p)]
      BY <1>1, <1>2, Entered DEF BeginTrial, FirstPhase, Working
    <2>2. trial[p] + 1 \in Nat
      BY <1>1, TrialsAssumption, SMT
    <2> SUFFICES ASSUME NEW a \in P PROVE SumAt(a, phase'[a], trial'[a], sum'[a])
      BY <2>1, SumNext
    <2>3. CASE a = p
      <3>1. /\ phase'[p] = FirstPhase /\ FirstPhase # "leader" /\ trial'[p] = trial[p] + 1
            /\ p # leader => sum'[p] = LeaderShare(trial[p] + 1, p)
        BY <1>1, <2>1 DEF FirstPhase
      <3>2. p # leader => \A x \in Items : sum'[p][x] = Own(trial[p] + 1, p, x)
        BY <1>1, <2>2, <3>1, LeaderShareOwn
      <3> QED BY <2>3, <3>1, <3>2 DEF SumAt
    <2>4. CASE a # p
      BY <1>1, <2>1, <2>4, SumNow
    <2> QED BY <2>3, <2>4
  <1>3. ASSUME NEW p \in P, InitDone(p) \/ OprfDone(p) PROVE SumInv'
    <2>1. PICK g \in {"oprf", "share"} :
            /\ phase' = [phase EXCEPT ![p] = g] /\ phase[p] \in {"init", "oprf"}
            /\ UNCHANGED <<input, trial, sum>>
      BY <1>1, <1>3, Entered DEF InitDone, OprfDone, Working
    <2> SUFFICES ASSUME NEW a \in P PROVE SumAt(a, phase'[a], trial[a], sum[a])
      BY <2>1, SumNext
    <2>2. SumAt(a, phase[a], trial[a], sum[a])
      BY SumNow
    <2>3. CASE a = p
      BY <1>1, <2>1, <2>2, <2>3 DEF SumAt, Working
    <2>4. CASE a # p
      BY <1>1, <2>1, <2>2, <2>4
    <2> QED BY <2>3, <2>4
  <1>4. ASSUME NEW p \in P, ShareDone(p) PROVE SumInv'
    <2>1. /\ phase' = [phase EXCEPT ![p] = "leader"] /\ UNCHANGED <<input, trial>>
          /\ \A a \in P \ {p} : sum'[a] = sum[a]
      BY <1>1, <1>4, Entered DEF ShareDone, Working
    <2> SUFFICES ASSUME NEW a \in P PROVE SumAt(a, phase'[a], trial[a], sum'[a])
      BY <2>1, SumNext
    <2>2. CASE a = p
      <3>1. a # leader => \A x \in input.sets[a] : sum'[a][x] = Total(trial[a], a, x)
        BY <1>4, <2>2, ShareDoneSum
      <3> QED BY <1>1, <2>1, <2>2, <3>1 DEF SumAt
    <2>3. CASE a # p
      BY <1>1, <2>1, <2>3, SumNow
    <2> QED BY <2>2, <2>3
  <1>5. ASSUME NEW p \in P, LeaderDone(p) PROVE SumInv'
    <2>1. PICK g \in {"start", "done"} : phase' = [phase EXCEPT ![p] = g]
                                         /\ UNCHANGED <<input, trial, sum>>
      BY <1>5 DEF LeaderDone
    <2> SUFFICES ASSUME NEW a \in P PROVE SumAt(a, phase'[a], trial[a], sum[a])
      BY <2>1, SumNext
    <2>2. CASE a = p
      BY <1>1, <2>1, <2>2 DEF SumAt, Working
    <2>3. CASE a # p
      BY <1>1, <2>1, <2>3, SumNow
    <2> QED BY <2>2, <2>3
  <1>6. ASSUME UNCHANGED <<input, trial, phase, sum>> PROVE SumInv'
    BY <1>6, SumNow, SumNext
  <1>7. ASSUME NEW p \in P, NEW th \in threads[p], RunRound(p, th) PROVE SumInv'
    BY <1>6, <1>7 DEF RunRound
  <1>8. CASE UNCHANGED vars
    BY <1>6, <1>8 DEF vars
  <1> QED BY <1>2, <1>3, <1>4, <1>5, <1>7, <1>8 DEF Next, MainStep, ThreadStep, Finished

(***************************************************************************)
(* What the threads have received.                                         *)
(***************************************************************************)
RecvAt(p, T, f, tr, rp) == f = (IF p = leader THEN "leader" ELSE "share") =>
  \A s \in Spawned(p, f) : Receives(s) =>
    \/ HasAwait(LeftIn(T, s.peer), "share")
    \/ \A x \in input.sets[p] : rp[s.pay][x] = Given(tr, s.peer, p, x)

LEMMA RecvNow == RecvInv <=> \A p \in P : RecvAt(p, threads[p], phase[p], trial[p], recvPay[p])
  BY DEF RecvInv, RecvAt, HasAwait, LeftIn, Left

LEMMA RecvNext ==
  ASSUME UNCHANGED input
  PROVE  RecvInv' <=> \A p \in P : RecvAt(p, threads'[p], phase'[p], trial'[p], recvPay'[p])
  <1>1. /\ P' = P /\ leader' = leader
        /\ \A p, ph : Spawned(p, ph)' = Spawned(p, ph)
        /\ \A tr, p, q, x : Given(tr, p, q, x)' = Given(tr, p, q, x)
    BY DealFrame
  <1>2. \A p, q : Left(p, q)' = LeftIn(threads'[p], q)
    BY DEF Left, LeftIn
  <1> QED BY <1>1, <1>2 DEF RecvInv, RecvAt, HasAwait, Receives

(* Threads that have just started have all their shares before them.       *)
LEMMA RecvEntered ==
  ASSUME input \in Inputs, NEW p \in P, NEW ph \in Working, NEW tr, NEW rp
  PROVE  RecvAt(p, Started(p, ph), ph, tr, rp)
  <1> SUFFICES ASSUME ph = (IF p = leader THEN "leader" ELSE "share"),
                      NEW s \in Spawned(p, ph), Receives(s)
               PROVE  HasAwait(LeftIn(Started(p, ph), s.peer), "share")
    BY DEF RecvAt
  <1>1. LeftIn(Started(p, ph), s.peer) = Rounds(ph, s.role)
    BY LeftStarted, AgendaOf
  <1>2. HasAwait(Rounds(ph, s.role), "share")
    BY RoundsShare, SpawnedRoles DEF Receives
  <1> QED BY <1>1, <1>2

(* What a client or the leader makes of a share is what is meant for it.   *)
LEMMA ShareTaken ==
  ASSUME Inv, TypeInv, FlowInv, ShareInv, NEW p \in P, NEW th \in threads[p],
         CanRun(p, th), Head(th.todo).await = "share", NEW x \in input.sets[p]
  PROVE  Evaluated(p, th.peer, Head(chan[th.peer][p]).body)[x] = Given(trial[p], th.peer, p, x)
  <1> DEFINE q == th.peer
             c == chan[q][p]
  <1>1. q \in P \ {p} /\ c \in Seq(MessageRec) /\ c # << >> /\ Head(c).kind = "share"
    BY HeadMatches
  <1>2. Head(c) = c[1] /\ 1 \in 1..Len(c)
    <2> HIDE DEF c
    <2> QED BY <1>1, HeadTailProperties, LenProperties, EmptySeq, SMT
  <1>3. p \in P \ {q}
    BY <1>1
  <1>4. \A y \in input.sets[q] : Head(c).body[y] = Body(trial[p], q, p, y)
    BY <1>1, <1>2, <1>3 DEF ShareInv
  <1>5. x \in Items
    BY SetsOfItems DEF Inv
  <1>6. Evaluated(p, q, Head(c).body)[x] =
          IF x \in input.sets[q] THEN Head(c).body[x] ELSE {<<"oprf", trial[p], q, p, x>>}
    BY <1>5 DEF Evaluated
  <1> QED BY <1>4, <1>6 DEF Given, OprfAtom

(* The payload of a thread that receives exists.                           *)
LEMMA ReceivedPay ==
  ASSUME input \in Inputs, NEW p \in P,
         NEW s \in Spawned(p, IF p = leader THEN "leader" ELSE "share"), Receives(s)
  PROVE  s.pay \in Pays(p)
  <1>1. CASE p = leader
    <2> DEFINE th(k) == Thread(k, k, k, "recv")
    <2>1. s \in {th(k) : k \in 0..(input.n - 2)}
      BY <1>1 DEF Spawned, LeaderThreads
    <2>2. \A k : th(k).pay = k
      BY DEF Thread
    <2> HIDE DEF th
    <2>3. Pays(p) = 0..(input.n - 2)
      BY <1>1 DEF Pays
    <2> QED BY <2>1, <2>2, <2>3
  <1>2. CASE p # leader
    BY <1>2, ReceivedOnce
  <1> QED BY <1>1, <1>2

LEMMA RecvRound ==
  ASSUME Inv, TypeInv, FlowInv, ShareInv, RecvInv,
         NEW p \in P, NEW th \in threads[p], RunRound(p, th)
  PROVE  RecvAt(p, threads'[p], phase[p], trial[p], recvPay'[p])
  <1> DEFINE q == th.peer
             f == phase[p]
             a == Head(th.todo).await
             rp == recvPay[p]
             new == Evaluated(p, q, Head(chan[q][p]).body)
  <1>1. /\ input \in Inputs /\ f \in Working /\ ThreadsOf(threads[p], Spawned(p, f), f)
        /\ CanRun(p, th) /\ th \in ThreadRec /\ th.todo \in Seq(RoundRec) /\ th.todo # << >>
    BY DEF Inv, RunRound, CanRun, ThreadRec
  <1>2. PICK s0 \in Spawned(p, f) : Runs(th, s0, f)
    BY <1>1 DEF ThreadsOf
  <1>3. LeftIn(threads[p], q) = th.todo /\ \A b : b # q => LeftIn(threads'[p], b) = LeftIn(threads[p], b)
    BY LeftOf, RoundLeft
  <1>4. LeftIn(threads'[p], q) = Tail(th.todo)
    <2> DEFINE nth == [th EXCEPT !.todo = Tail(@)]
    <2>1. /\ threads' = [threads EXCEPT ![p] = (@ \ {th}) \cup {nth}]
          /\ threads \in [P -> SUBSET ThreadRec]
      BY DEF RunRound, Inv
    <2>2. nth.peer = q /\ nth.todo = Tail(th.todo)
      BY <1>1 DEF ThreadRec
    <2>3. \A t \in threads[p] : t.peer = q => t = th
      BY LeftOf
    <2> HIDE DEF nth, q
    <2>4. nth \in threads'[p] /\ \A t \in threads'[p] : t.peer = q => t = nth
      BY <2>1, <2>2, <2>3
    <2> QED BY <2>2, <2>4 DEF LeftIn
  <1>5. recvPay'[p] = IF a # "share" THEN rp ELSE [rp EXCEPT ![th.pay] = new]
    BY DEF RunRound, TypeInv
  <1>6. a = "share" => s0.role \in Receiving
    <2>1. SUFFICES ASSUME a = "share" PROVE "share" \in Awaited(th.todo)
      BY <1>2, RoundsOf DEF Runs
    <2> DEFINE u == th.todo
    <2>2. u \in Seq(RoundRec) /\ u # << >>
      BY <1>1
    <2> HIDE DEF u
    <2>3. Head(u) = u[1] /\ 1 \in 1..Len(u)
      BY <2>2, HeadTailProperties, LenProperties, EmptySeq, SMT
    <2> QED BY <2>1, <2>3 DEF Awaited, u
  <1> SUFFICES ASSUME f = (IF p = leader THEN "leader" ELSE "share"),
                      NEW s \in Spawned(p, f), Receives(s)
               PROVE  \/ HasAwait(LeftIn(threads'[p], s.peer), "share")
                      \/ \A x \in input.sets[p] :
                           recvPay'[p][s.pay][x] = Given(trial[p], s.peer, p, x)
    BY DEF RecvAt
  <1>7. \/ HasAwait(LeftIn(threads[p], s.peer), "share")
        \/ \A x \in input.sets[p] : rp[s.pay][x] = Given(trial[p], s.peer, p, x)
    BY RecvNow DEF RecvAt
  <1>8. s.pay \in Pays(p) /\ DOMAIN rp = Pays(p)
    BY <1>1, ReceivedPay DEF TypeInv
  <1>9. CASE s.peer # q
    <2>1. a = "share" => th.pay # s.pay
      <3>1. SUFFICES ASSUME a = "share", th.pay = s.pay PROVE FALSE
        OBVIOUS
      <3>2. s0.pay = s.pay /\ s0.peer = q
        BY <1>2, <3>1 DEF Runs
      <3>3. s.role \in Receiving /\ s0.role \in Receiving
        BY <1>6, <3>1 DEF Receives, Receiving
      <3>4. s0 = s
        BY <1>1, <1>2, <3>2, <3>3, PhasePayloads
      <3> QED BY <1>9, <3>2, <3>4
    <2>2. recvPay'[p][s.pay] = rp[s.pay]
      BY <1>5, <1>8, <2>1
    <2> QED BY <1>3, <1>7, <1>9, <2>2
  <1>10. CASE s.peer = q
    <2>1. s = s0
      BY <1>1, <1>2, <1>10, PhasePeers DEF Runs
    <2>2. CASE a = "share"
      <3>1. recvPay'[p][s.pay] = new
        BY <1>2, <1>5, <1>8, <2>1, <2>2 DEF Runs
      <3> QED BY <1>1, <1>10, <2>2, <3>1, ShareTaken
    <2>3. CASE a # "share"
      <3>1. HasAwait(th.todo, "share") => HasAwait(Tail(th.todo), "share")
        <4> DEFINE u == th.todo
        <4>1. u \in Seq(RoundRec) /\ u # << >> /\ Head(u).await # "share"
          BY <1>1, <2>3
        <4> HIDE DEF u
        <4>2. /\ Head(u) = u[1] /\ Len(Tail(u)) = Len(u) - 1 /\ Len(u) \in Nat
              /\ \A i \in 1..Len(Tail(u)) : Tail(u)[i] = u[i + 1]
          BY <4>1, HeadTailProperties, LenProperties
        <4>3. ASSUME NEW i \in 1..Len(u), u[i].await = "share"
              PROVE  \E j \in 1..Len(Tail(u)) : Tail(u)[j].await = "share"
          <5>1. i # 1
            BY <4>1, <4>2, <4>3
          <5>2. i - 1 \in 1..Len(Tail(u)) /\ (i - 1) + 1 = i
            BY <4>2, <5>1, SMT
          <5> QED BY <4>2, <4>3, <5>2
        <4>4. HasAwait(u, "share") => HasAwait(Tail(u), "share")
          BY <4>3 DEF HasAwait
        <4> QED BY <4>4 DEF u
      <3> QED BY <1>3, <1>4, <1>5, <1>7, <1>10, <2>3, <3>1
    <2> QED BY <2>2, <2>3
  <1> QED BY <1>9, <1>10

LEMMA RecvStep ==
  ASSUME Inv, TypeInv, FlowInv, ShareInv, RecvInv, [Next]_vars
  PROVE  RecvInv'
  <1>1. /\ input \in Inputs /\ phase \in [P -> Alive] /\ trial \in [P -> 0..Trials]
        /\ threads \in [P -> SUBSET ThreadRec] /\ DOMAIN recvPay = P
    BY DEF Inv, TypeInv
  <1>2. ASSUME NEW p \in P, BeginTrial(p) \/ InitDone(p) \/ OprfDone(p) \/ ShareDone(p)
        PROVE  RecvInv'
    <2>1. PICK g \in Working : Enter(p, g) /\ UNCHANGED input
                               /\ \A a \in P \ {p} : trial'[a] = trial[a] /\ recvPay'[a] = recvPay[a]
      BY <1>1, <1>2 DEF BeginTrial, InitDone, OprfDone, ShareDone, FirstPhase, Working
    <2>2. /\ phase' = [phase EXCEPT ![p] = g]
          /\ threads' = [threads EXCEPT ![p] = Started(p, g)]
      BY <1>1, <2>1, Entered
    <2> SUFFICES ASSUME NEW a \in P
                 PROVE  RecvAt(a, threads'[a], phase'[a], trial'[a], recvPay'[a])
      BY <2>1, RecvNext
    <2>3. CASE a = p
      BY <1>1, <2>2, <2>3, RecvEntered
    <2>4. CASE a # p
      BY <1>1, <2>1, <2>2, <2>4, RecvNow
    <2> QED BY <2>3, <2>4
  <1>3. ASSUME NEW p \in P, LeaderDone(p) PROVE RecvInv'
    <2>1. PICK g \in {"start", "done"} :
            /\ phase' = [phase EXCEPT ![p] = g] /\ threads' = [threads EXCEPT ![p] = {}]
            /\ UNCHANGED <<input, trial, recvPay>>
      BY <1>3 DEF LeaderDone
    <2> SUFFICES ASSUME NEW a \in P
                 PROVE  RecvAt(a, threads'[a], phase'[a], trial[a], recvPay[a])
      BY <2>1, RecvNext
    <2>2. CASE a = p
      BY <1>1, <2>1, <2>2 DEF RecvAt
    <2>3. CASE a # p
      BY <1>1, <2>1, <2>3, RecvNow
    <2> QED BY <2>2, <2>3
  <1>4. ASSUME NEW p \in P, NEW th \in threads[p], RunRound(p, th) PROVE RecvInv'
    <2>1. /\ UNCHANGED <<input, trial, phase>>
          /\ \A a \in P \ {p} : threads'[a] = threads[a] /\ recvPay'[a] = recvPay[a]
      BY <1>1, <1>4 DEF RunRound
    <2> SUFFICES ASSUME NEW a \in P
                 PROVE  RecvAt(a, threads'[a], phase[a], trial[a], recvPay'[a])
      BY <2>1, RecvNext
    <2>2. CASE a = p
      BY <1>4, <2>2, RecvRound
    <2>3. CASE a # p
      BY <2>1, <2>3, RecvNow
    <2> QED BY <2>2, <2>3
  <1>5. CASE UNCHANGED vars
    <2>1. UNCHANGED <<input, trial, phase, threads, recvPay>>
      BY <1>5 DEF vars
    <2> QED BY <2>1, RecvNow, RecvNext
  <1> QED BY <1>2, <1>3, <1>4, <1>5 DEF Next, MainStep, ThreadStep, Finished

(***************************************************************************)
(* The shares on the way.                                                  *)
(***************************************************************************)
ShareAt(p, q, ch, T, f, tp, tq) == \A i \in 1..Len(ch) : ch[i].kind = "share" =>
  /\ tq < tp => i <= Len(AwaitsLeft(q, p, T, f))
  /\ \A x \in input.sets[p] : ch[i].body[x] = Body(tq, p, q, x)

LEMMA ShareNow ==
  ShareInv <=> \A p \in P : \A q \in P \ {p} :
    ShareAt(p, q, chan[p][q], threads[q], phase[q], trial[p], trial[q])
  BY DEF ShareInv, ShareAt, AwaitsLeft, StillAwaits, LeftIn, Left

LEMMA ShareNext ==
  ASSUME UNCHANGED input
  PROVE  ShareInv' <=> \A p \in P : \A q \in P \ {p} :
    ShareAt(p, q, chan'[p][q], threads'[q], phase'[q], trial'[p], trial'[q])
  <1>1. /\ P' = P /\ \A p, ph : Spawned(p, ph)' = Spawned(p, ph)
        /\ \A tr, p, q, x : Body(tr, p, q, x)' = Body(tr, p, q, x)
    BY DealFrame
  <1>2. \A p, q, ph : Agenda(p, q, ph)' = Agenda(p, q, ph)
    BY <1>1 DEF Agenda
  <1>3. \A p, q, ph : AwaitsAfter(q, p, ph)' = AwaitsAfter(q, p, ph)
    BY <1>2 DEF AwaitsAfter
  <1>4. \A p, q : Left(p, q)' = LeftIn(threads'[p], q)
    BY DEF Left, LeftIn
  <1>5. \A p, q : StillAwaits(q, p)' = AwaitsLeft(q, p, threads'[q], phase'[q])
    BY <1>3, <1>4 DEF StillAwaits, AwaitsLeft
  <1> QED BY <1>1, <1>5 DEF ShareInv, ShareAt

LEMMA NoMessages ==
  ASSUME WaitInv, NEW p \in P, NEW q \in P \ {p}, ~Talk(p, q), NEW T, NEW f, NEW tp, NEW tq
  PROVE  ShareAt(p, q, chan[p][q], T, f, tp, tq)
  <1>1. chan[p][q] = << >>
    BY DEF WaitInv
  <1>2. Len(<< >>) = 0 /\ 1..0 = {}
    BY SMT
  <1> QED BY <1>1, <1>2 DEF ShareAt

LEMMA KindsLength ==
  ASSUME NEW c \in Seq(MessageRec)
  PROVE  Len(KindsOf(c)) = Len(c)
  <1> DEFINE k == KindsOf(c)
  <1>1. k \in Seq(Kinds) /\ DOMAIN c = 1..Len(c) /\ Len(c) \in Nat
    BY KindsOfMessages, LenProperties
  <1>2. DOMAIN k = 1..Len(c)
    BY <1>1 DEF KindsOf
  <1>3. DOMAIN k = 1..Len(k) /\ Len(k) \in Nat
    BY <1>1, LenProperties
  <1> HIDE DEF k
  <1>4. Len(k) = Len(c)
    BY <1>1, <1>2, <1>3, SMT
  <1> QED BY <1>4 DEF k

(* A party that goes on within its trial, or ends it.                      *)
LEMMA ShareKept ==
  ASSUME Inv, WaitInv, ShareInv, NEW p \in P, Keeps(p)
  PROVE  ShareInv'
  <1>1. input \in Inputs
    BY DEF Inv
  <1> SUFFICES ASSUME NEW a \in P, NEW b \in P \ {a}
               PROVE  ShareAt(a, b, chan'[a][b], threads'[b], phase'[b], trial'[a], trial'[b])
    BY ShareNext DEF Keeps
  <1>2. UNCHANGED <<trial, chan>>
    BY DEF Keeps
  <1>3. CASE ~Talk(a, b)
    BY <1>2, <1>3, NoMessages
  <1>4. CASE Talk(a, b)
    <2>1. Talk(b, a)
      BY <1>1, <1>4, PairRoles
    <2>2. AwaitsLeft(b, a, threads'[b], phase'[b]) = AwaitsLeft(b, a, threads[b], phase[b])
      <3>1. CASE b = p
        BY <2>1, <3>1 DEF Keeps
      <3>2. CASE b # p
        BY <3>2 DEF Keeps
      <3> QED BY <3>1, <3>2
    <2>3. ShareAt(a, b, chan[a][b], threads[b], phase[b], trial[a], trial[b])
      BY ShareNow
    <2> QED BY <1>2, <2>2, <2>3 DEF ShareAt
  <1> QED BY <1>3, <1>4

(* The start of a trial finds no share for it, and makes none outdated.    *)
LEMMA ShareBegin ==
  ASSUME Inv, TypeInv, FlowInv, WaitInv, ShareInv, NEW p \in P, BeginTrial(p)
  PROVE  ShareInv'
  <1>1. /\ input \in Inputs /\ phase[p] = "start" /\ threads[p] = {}
        /\ threads \in [P -> SUBSET ThreadRec] /\ phase \in [P -> Alive]
        /\ trial \in [P -> 0..Trials] /\ trial[p] \in Nat
    <2>1. trial \in [P -> 0..Trials] /\ trial[p] \in Nat
      BY TrialsAssumption, SMT DEF TypeInv
    <2> QED BY <2>1 DEF Inv, BeginTrial, Working
  <1>2. /\ UNCHANGED <<input, chan>> /\ trial' = [trial EXCEPT ![p] = trial[p] + 1]
        /\ \A a \in P \ {p} : threads'[a] = threads[a] /\ phase'[a] = phase[a]
    BY <1>1, Entered DEF BeginTrial, FirstPhase, Working
  <1> SUFFICES ASSUME NEW a \in P, NEW b \in P \ {a}
               PROVE  ShareAt(a, b, chan'[a][b], threads'[b], phase'[b], trial'[a], trial'[b])
    BY <1>2, ShareNext
  <1>3. ShareAt(a, b, chan[a][b], threads[b], phase[b], trial[a], trial[b])
    BY ShareNow
  <1>4. CASE ~Talk(a, b)
    BY <1>2, <1>4, NoMessages
  <1> DEFINE c   == KindsOf(chan[a][b])
             s   == SendsLeft(a, b, threads[a], phase[a])
             r   == AwaitsLeft(b, a, threads[b], phase[b])
             all == AllSends(a, b)
             ta  == trial[a]
             tb  == trial[b]
  <1>5. Talk(a, b) => /\ Flow(c, s, r, all, ta, tb) /\ Len(c) = Len(chan[a][b])
                      /\ c \in Seq(Kinds) /\ s \in Seq(Kinds) /\ r \in Seq(Kinds)
                      /\ all \in Seq(Kinds) /\ all # << >> /\ ta \in Nat /\ tb \in Nat
    <2>1. chan[a][b] \in Seq(MessageRec)
      BY DEF TypeInv
    <2> QED BY <1>1, <2>1, FlowNow, FlowTypes, PairAll, KindsLength DEF FlowAt
  <1>6. CASE Talk(a, b) /\ a = p
    <2>1. s = << >>
      <3>1. SendsAfter(p, b, "start") = << >>
        BY DEF SendsAfter
      <3> QED BY <1>1, <1>6, <3>1, LeftJoined
    <2>2. /\ trial'[a] = ta + 1 /\ trial'[b] = tb
          /\ threads'[b] = threads[b] /\ phase'[b] = phase[b]
      BY <1>1, <1>2, <1>6
    <2>3. ta = tb => Len(chan[a][b]) = Len(r)
      <3>1. ta = tb => c \o << >> = r
        BY <1>5, <1>6, <2>1 DEF Flow
      <3> HIDE DEF c, s, r, all, ta, tb
      <3> QED BY <1>5, <1>6, <3>1, ConcatKinds
    <2> SUFFICES ASSUME NEW i \in 1..Len(chan[a][b]), chan[a][b][i].kind = "share", tb < ta + 1
                 PROVE  i <= Len(r)
      BY <1>2, <1>3, <2>2 DEF ShareAt
    <2>4. tb < ta => i <= Len(r)
      BY <1>3 DEF ShareAt
    <2>5. i <= Len(chan[a][b])
      <3>1. Len(chan[a][b]) \in Nat
        BY <1>5, <1>6, LenProperties
      <3> QED BY <3>1, SMT
    <2> HIDE DEF ta, tb, r
    <2>6. tb < ta \/ ta = tb
      BY <1>5, <1>6, SMT
    <2> QED BY <2>3, <2>4, <2>5, <2>6
  <1>7. CASE Talk(a, b) /\ b = p
    <2>1. r = << >>
      <3>1. AwaitsAfter(p, a, "start") = << >>
        BY DEF AwaitsAfter
      <3>2. Talk(p, a) /\ a \in P \ {p}
        BY <1>1, <1>7, PairRoles
      <3> QED BY <1>1, <1>7, <3>1, <3>2, LeftJoined
    <2>2. tb <= ta /\ (ta = tb => c = << >>)
      <3>1. /\ Flow(c, s, << >>, all, ta, tb) /\ c \in Seq(Kinds) /\ s \in Seq(Kinds)
            /\ all \in Seq(Kinds) /\ all # << >> /\ ta \in Nat /\ tb \in Nat
        BY <1>5, <1>7, <2>1
      <3> HIDE DEF c, s, all, ta, tb
      <3> QED BY <3>1, FlowBound
    <2>3. \A i \in 1..Len(chan[a][b]) : chan[a][b][i].kind # "share"
      <3> SUFFICES ASSUME NEW i \in 1..Len(chan[a][b]), chan[a][b][i].kind = "share"
                   PROVE  FALSE
        OBVIOUS
      <3>1. Len(<< >>) = 0 /\ i <= Len(chan[a][b]) /\ 1 <= i
        <4>1. Len(chan[a][b]) \in Nat
          BY <1>5, <1>7, LenProperties
        <4> QED BY <4>1, SMT
      <3>2. CASE tb < ta
        <4>1. i <= Len(<< >>)
          BY <1>3, <2>1, <3>2 DEF ShareAt
        <4> QED BY <3>1, <4>1, SMT
      <3>3. CASE ta = tb
        <4>1. Len(chan[a][b]) = 0
          BY <1>5, <1>7, <2>2, <3>1, <3>3
        <4> QED BY <3>1, <4>1, SMT
      <3> HIDE DEF ta, tb
      <3>4. tb < ta \/ ta = tb
        BY <1>5, <1>7, <2>2, SMT
      <3> QED BY <3>2, <3>3, <3>4 DEF ta, tb
    <2> QED BY <1>2, <2>3 DEF ShareAt
  <1>8. CASE a # p /\ b # p
    BY <1>1, <1>2, <1>3, <1>8
  <1> QED BY <1>4, <1>6, <1>7, <1>8

(* A share that is put on the way.                                         *)
LEMMA ShareSent ==
  ASSUME Inv, TypeInv, FlowInv, WaitInv, SendInv, SumInv,
         NEW p \in P, NEW th \in threads[p], RunRound(p, th), Head(th.todo).reply = "share",
         NEW x \in input.sets[p]
  PROVE  /\ trial[p] = trial[th.peer]
         /\ Message(p, th, "share").body[x] = Body(trial[th.peer], p, th.peer, x)
  <1> DEFINE q == th.peer
  <1>1. trial[p] = trial[q] /\ MaySend(p, phase[p], th) /\ HasReply(th.todo, "share")
    BY Level
  <1>2. Message(p, th, "share").body = Payload(p, th)
    BY DEF Message
  <1>3. input \in Inputs /\ x \in Items
    BY SetsOfItems DEF Inv
  <1>4. CASE phase[p] = "leader" /\ p # leader /\ q = leader
    <2>1. sum[p][x] = Total(trial[p], p, x)
      BY <1>4 DEF SumInv, Working
    <2> QED BY <1>1, <1>2, <1>4, <2>1 DEF Payload, Body
  <1>5. CASE Deals(p, q) /\ PayTo(p, q) = th.pay
    <2>1. q # leader
      BY <1>3, <1>5, DealtOnce
    <2>2. Payload(p, th)[x] = {ShareAtom(trial[p], p, th.pay, x)}
      BY <1>3, <2>1 DEF Payload, Share, ShareAtom
    <2> QED BY <1>1, <1>2, <1>5, <2>1, <2>2 DEF Body
  <1> QED BY <1>1, <1>4, <1>5 DEF MaySend

LEMMA ShareAppended ==
  ASSUME NEW ch \in Seq(MessageRec), NEW m \in MessageRec, NEW p, NEW q, NEW T, NEW f,
         NEW tp, NEW tq, ShareAt(p, q, ch, T, f, tp, tq),
         m.kind = "share" => /\ ~(tq < tp)
                             /\ \A x \in input.sets[p] : m.body[x] = Body(tq, p, q, x)
  PROVE  ShareAt(p, q, Append(ch, m), T, f, tp, tq)
  <1> DEFINE u == Append(ch, m)
  <1>1. /\ Len(u) = Len(ch) + 1 /\ Len(ch) \in Nat /\ u[Len(ch) + 1] = m
        /\ \A i \in 1..Len(ch) : u[i] = ch[i]
    BY AppendProperties, LenProperties
  <1> HIDE DEF u
  <1>2. \A i \in 1..Len(u) : i \in 1..Len(ch) \/ i = Len(ch) + 1
    BY <1>1, SMT
  <1>3. ShareAt(p, q, u, T, f, tp, tq)
    <2> SUFFICES ASSUME NEW i \in 1..Len(u), u[i].kind = "share"
                 PROVE  /\ tq < tp => i <= Len(AwaitsLeft(q, p, T, f))
                        /\ \A x \in input.sets[p] : u[i].body[x] = Body(tq, p, q, x)
      BY DEF ShareAt
    <2>1. CASE i \in 1..Len(ch)
      BY <1>1, <2>1 DEF ShareAt
    <2>2. CASE i = Len(ch) + 1
      BY <1>1, <2>2
    <2> QED BY <1>2, <2>1, <2>2
  <1> QED BY <1>3 DEF u

LEMMA ShareRead ==
  ASSUME NEW ch \in Seq(MessageRec), ch # << >>, NEW p, NEW q, NEW T, NEW f, NEW U, NEW g,
         NEW tp, NEW tq, ShareAt(p, q, ch, T, f, tp, tq), NEW k \in Kinds,
         AwaitsLeft(q, p, T, f) = <<k>> \o AwaitsLeft(q, p, U, g),
         AwaitsLeft(q, p, U, g) \in Seq(Kinds)
  PROVE  ShareAt(p, q, Tail(ch), U, g, tp, tq)
  <1> DEFINE u == Tail(ch)
             r == AwaitsLeft(q, p, U, g)
  <1>1. /\ Len(u) = Len(ch) - 1 /\ Len(ch) \in Nat
        /\ \A i \in 1..Len(u) : u[i] = ch[i + 1]
    BY HeadTailProperties, LenProperties
  <1>2. Len(<<k>> \o r) = Len(r) + 1 /\ Len(r) \in Nat
    <2>1. <<k>> \in Seq(Kinds) /\ Len(<<k>>) = 1
      OBVIOUS
    <2>2. Len(<<k>> \o r) = Len(<<k>>) + Len(r) /\ Len(r) \in Nat
      BY <2>1, ConcatProperties, LenProperties
    <2> HIDE DEF r
    <2> QED BY <2>1, <2>2, SMT
  <1> HIDE DEF u
  <1>3. \A i \in 1..Len(u) : i + 1 \in 1..Len(ch)
    BY <1>1, SMT
  <1>4. ShareAt(p, q, u, U, g, tp, tq)
    <2> SUFFICES ASSUME NEW i \in 1..Len(u), u[i].kind = "share"
                 PROVE  /\ tq < tp => i <= Len(r)
                        /\ \A x \in input.sets[p] : u[i].body[x] = Body(tq, p, q, x)
      BY DEF ShareAt
    <2>1. /\ tq < tp => i + 1 <= Len(<<k>> \o r)
          /\ \A x \in input.sets[p] : ch[i + 1].body[x] = Body(tq, p, q, x)
      BY <1>1, <1>3 DEF ShareAt
    <2>2. i + 1 <= Len(<<k>> \o r) => i <= Len(r)
      <3> HIDE DEF r
      <3>1. i \in Int
        BY SMT
      <3> QED BY <1>2, <3>1, SMT
    <2> QED BY <1>1, <2>1, <2>2
  <1> QED BY <1>4 DEF u

LEMMA ShareRound ==
  ASSUME Inv, TypeInv, FlowInv, WaitInv, SendInv, SumInv, ShareInv,
         NEW p \in P, NEW th \in threads[p], RunRound(p, th)
  PROVE  ShareInv'
  <1> DEFINE q == th.peer
             k == Head(th.todo).await
             o == Head(th.todo).reply
             m == Message(p, th, o)
  <1>1. /\ UNCHANGED <<input, trial, phase>> /\ input \in Inputs
        /\ threads \in [P -> SUBSET ThreadRec]
        /\ \A a \in P \ {p} : threads'[a] = threads[a]
    BY DEF RunRound, Inv
  <1>2. /\ q \in P \ {p} /\ Talk(p, q) /\ Head(th.todo) \in RoundRec
        /\ AwaitsLeft(p, q, threads[p], phase[p]) =
               Only(k) \o AwaitsLeft(p, q, threads'[p], phase[p])
        /\ AwaitsLeft(p, q, threads'[p], phase[p]) \in Seq(Kinds)
        /\ \A b : b # q => LeftIn(threads'[p], b) = LeftIn(threads[p], b)
    BY RoundLeft
  <1>3. /\ k = "none" => chan'[q][p] = chan[q][p]
        /\ k # "none" => chan[q][p] # << >> /\ chan'[q][p] = Tail(chan[q][p])
        /\ \A a, b \in P : (a # p \/ b # q) /\ (a # q \/ b # p) => chan'[a][b] = chan[a][b]
    BY RoundChan
  <1>4. chan'[p][q] = IF o = "none" THEN chan[p][q] ELSE Append(chan[p][q], m)
    <2>1. chan \in [P -> [P -> Seq(MessageRec)]]
      BY DEF TypeInv
    <2> QED BY <1>2, <2>1 DEF RunRound
  <1>5. o # "none" => m \in MessageRec /\ m.kind = o
    <2>1. m.kind = o
      BY DEF Message
    <2> QED BY <2>1, RoundThread
  <1> SUFFICES ASSUME NEW a \in P, NEW b \in P \ {a}
               PROVE  ShareAt(a, b, chan'[a][b], threads'[b], phase[b], trial[a], trial[b])
    BY <1>1, ShareNext
  <1>6. /\ ShareAt(a, b, chan[a][b], threads[b], phase[b], trial[a], trial[b])
        /\ chan[a][b] \in Seq(MessageRec)
    BY ShareNow DEF TypeInv
  <1>7. CASE a = p /\ b = q
    <2>1. CASE o = "none"
      BY <1>1, <1>4, <1>6, <1>7, <2>1
    <2>2. CASE o # "none"
      <3>1. m.kind = "share" => /\ ~(trial[q] < trial[p])
                                /\ \A x \in input.sets[p] : m.body[x] = Body(trial[q], p, q, x)
        <4>1. SUFFICES ASSUME o = "share"
                       PROVE  /\ ~(trial[q] < trial[p])
                              /\ \A x \in input.sets[p] : m.body[x] = Body(trial[q], p, q, x)
          BY <1>5, <2>2
        <4>2. trial[p] = trial[q] /\ trial[p] \in Int
          <5>1. trial[p] \in Int
            BY SMT DEF TypeInv
          <5> QED BY <4>1, <5>1, Level
        <4>3. ~(trial[q] < trial[p])
          BY <4>2, SMT
        <4> QED BY <4>1, <4>3, ShareSent
      <3>2. m \in MessageRec
        BY <1>5, <2>2
      <3>3. ShareAt(p, q, Append(chan[p][q], m), threads[q], phase[q], trial[p], trial[q])
        <4> HIDE DEF m
        <4> QED BY <1>6, <1>7, <3>1, <3>2, ShareAppended
      <3> QED BY <1>1, <1>4, <1>7, <2>2, <3>3
    <2> QED BY <2>1, <2>2
  <1>8. CASE a = q /\ b = p
    <2>1. CASE k = "none"
      <3>1. AwaitsLeft(p, q, threads[p], phase[p]) = AwaitsLeft(p, q, threads'[p], phase[p])
        BY <1>2, <2>1, ConcatKinds, EmptySeq DEF Only
      <3> QED BY <1>3, <1>6, <1>8, <2>1, <3>1 DEF ShareAt
    <2>2. CASE k # "none"
      <3>1. k \in Kinds /\ Only(k) = <<k>>
        BY <1>2, <2>2 DEF RoundRec, Some, Only
      <3>2. AwaitsLeft(p, q, threads[p], phase[p]) = <<k>> \o AwaitsLeft(p, q, threads'[p], phase[p])
        BY <1>2, <3>1
      <3> HIDE DEF k
      <3>3. ShareAt(q, p, Tail(chan[q][p]), threads'[p], phase[p], trial[q], trial[p])
        <4>1. /\ chan[q][p] \in Seq(MessageRec) /\ chan[q][p] # << >>
              /\ ShareAt(q, p, chan[q][p], threads[p], phase[p], trial[q], trial[p])
          BY <1>3, <1>6, <1>8, <2>2
        <4>2. AwaitsLeft(p, q, threads'[p], phase[p]) \in Seq(Kinds) /\ k \in Kinds
          BY <1>2, <3>1
        <4> HIDE DEF q
        <4> QED BY <3>2, <4>1, <4>2, ShareRead, Zenon
      <3> QED BY <1>3, <1>8, <2>2, <3>3
    <2> QED BY <2>1, <2>2
  <1>9. CASE (a # p \/ b # q) /\ (a # q \/ b # p)
    <2>1. chan'[a][b] = chan[a][b]
      BY <1>3, <1>9
    <2>2. CASE b = p
      <3>1. AwaitsLeft(b, a, threads'[b], phase[b]) = AwaitsLeft(b, a, threads[b], phase[b])
        BY <1>2, <1>9, <2>2 DEF AwaitsLeft
      <3> QED BY <1>6, <2>1, <3>1 DEF ShareAt
    <2>3. CASE b # p
      BY <1>1, <1>6, <2>1, <2>3
    <2> QED BY <2>2, <2>3
  <1> QED BY <1>7, <1>8, <1>9

LEMMA ShareStep ==
  ASSUME Inv, TypeInv, FlowInv, WaitInv, SendInv, SumInv, ShareInv, [Next]_vars
  PROVE  ShareInv'
  <1>1. ASSUME NEW p \in P, MainStep(p) PROVE ShareInv'
    BY <1>1, ShareBegin, MoveKeeps, EndKeeps, ShareKept DEF MainStep
  <1>2. ASSUME NEW p \in P, ThreadStep(p) PROVE ShareInv'
    BY <1>2, ShareRound DEF ThreadStep
  <1>3. CASE UNCHANGED vars
    <2>1. UNCHANGED <<input, trial, phase, threads, chan>>
      BY <1>3 DEF vars
    <2> QED BY <2>1, ShareNow, ShareNext
  <1> QED BY <1>1, <1>2, <1>3 DEF Next, Finished

(***************************************************************************)
(* The answers of the leader.                                              *)
(***************************************************************************)
LEMMA LeaderPays ==
  ASSUME input \in Inputs
  PROVE  /\ Pays(leader) = P \ {leader}
         /\ \A k \in P \ {leader} : \E s \in Spawned(leader, "leader") :
              Receives(s) /\ s.peer = k /\ s.pay = k
  <1>1. Pays(leader) = 0..(input.n - 2) /\ P = 0..(input.n - 1) /\ leader = input.n - 1
        /\ input.n \in Nat
    BY InputFacts DEF Pays, Parties, Leader
  <1>2. 0..(input.n - 2) = P \ {leader}
    <2> DEFINE n == input.n
    <2> HIDE DEF n
    <2>1. n \in Nat => 0..(n - 2) = 0..(n - 1) \ {n - 1}
      BY SMT
    <2> QED BY <1>1, <2>1 DEF n
  <1> DEFINE th(k) == Thread(k, k, k, "recv")
  <1>3. Spawned(leader, "leader") = {th(k) : k \in P \ {leader}}
    BY <1>2 DEF Spawned, LeaderThreads
  <1>4. \A k : Receives(th(k)) /\ th(k).peer = k /\ th(k).pay = k
    BY DEF Thread, Receives
  <1> HIDE DEF th
  <1> QED BY <1>1, <1>2, <1>3, <1>4

(* At the end of its trial the leader finds the intersection.              *)
LEMMA LeaderFinds ==
  ASSUME Inv, TypeInv, RecvInv, LeaderDone(leader)
  PROVE  /\ output' = Append(output, Ideal!Intersection)
         /\ Len(output) < Trials
  <1> DEFINE K == Pays(leader)
             f(x) == [k \in K |-> recvPay[leader][k][x]]
  <1>1. /\ input \in Inputs /\ leader \in P /\ phase[leader] = "leader" /\ Joined(leader)
        /\ trial[leader] \in 0..Trials
    BY InputFacts DEF Inv, TypeInv, LeaderDone
  <1>2. /\ K = P \ {leader}
        /\ \A k \in K : \E s \in Spawned(leader, "leader") :
             Receives(s) /\ s.peer = k /\ s.pay = k
    BY <1>1, LeaderPays
  <1>3. output' = Append(output, {x \in input.sets[leader] : XorOver(f(x), K) = {}})
    BY DEF LeaderDone
  <1>4. ASSUME NEW x \in input.sets[leader]
        PROVE  XorOver(f(x), K) = {} <=> \A p \in P : x \in input.sets[p]
    <2>1. \A k \in K : f(x)[k] = Given(trial[leader], k, leader, x)
      <3>1. TAKE k \in K
      <3>2. PICK s \in Spawned(leader, "leader") : Receives(s) /\ s.peer = k /\ s.pay = k
        BY <1>2
      <3>3. recvPay[leader][s.pay][x] = Given(trial[leader], s.peer, leader, x)
        BY <1>1, <3>2, SharesGot
      <3> QED BY <3>2, <3>3
    <2>2. x \in Items /\ trial[leader] \in Nat
      <3>1. trial[leader] \in Nat
        BY <1>1, SMT
      <3> QED BY <1>1, <3>1, SetsOfItems
    <2> HIDE DEF f, K
    <2> QED BY <1>1, <1>2, <2>1, <2>2, LeaderSum
  <1>5. Ideal!Intersection = {x \in Items : \A p \in P : x \in input.sets[p]}
    BY <1>1, SetsOfItems DEF Ideal!Intersection
  <1>6. {x \in input.sets[leader] : XorOver(f(x), K) = {}} = Ideal!Intersection
    <2> HIDE DEF f, K
    <2> QED BY <1>1, <1>4, <1>5, SetsOfItems
  <1>7. Len(output) < Trials
    <2>1. Len(output) = trial[leader] - 1
      BY <1>1 DEF TypeInv, TrialInv, Working
    <2> QED BY <1>1, <2>1, TrialsAssumption, SMT
  <1> QED BY <1>3, <1>6, <1>7

LEMMA AnswerStep ==
  ASSUME Inv, TypeInv, RecvInv, [Next]_vars
  PROVE  [Ideal!PsiAnswer]_<<input.sets, output>>
  <1>1. ASSUME UNCHANGED <<input, output>>
        PROVE  [Ideal!PsiAnswer]_<<input.sets, output>>
    BY <1>1
  <1>2. ASSUME NEW p \in P, MainStep(p)
        PROVE  [Ideal!PsiAnswer]_<<input.sets, output>>
    <2>1. CASE BeginTrial(p) \/ InitDone(p) \/ OprfDone(p) \/ ShareDone(p)
      BY <1>1, <2>1 DEF BeginTrial, InitDone, OprfDone, ShareDone
    <2>2. CASE LeaderDone(p) /\ p # leader
      BY <1>1, <2>2 DEF LeaderDone
    <2>3. CASE LeaderDone(p) /\ p = leader
      <3>1. output' = Append(output, Ideal!Intersection) /\ Len(output) < Trials
        BY <2>3, LeaderFinds
      <3>2. input' = input
        BY <2>3 DEF LeaderDone
      <3> QED BY <3>1, <3>2 DEF Ideal!PsiAnswer
    <2> QED BY <1>2, <2>1, <2>2, <2>3 DEF MainStep
  <1>3. ASSUME NEW p \in P, ThreadStep(p)
        PROVE  [Ideal!PsiAnswer]_<<input.sets, output>>
    BY <1>1, <1>3 DEF ThreadStep, RunRound
  <1>4. CASE UNCHANGED vars
    BY <1>1, <1>4 DEF vars
  <1> QED BY <1>2, <1>3, <1>4 DEF Next, Finished

LEMMA ValueInit == Init => ValueInv
  <1> SUFFICES ASSUME Init PROVE ValueInv
    OBVIOUS
  <1>1. /\ \A p \in P : phase[p] = "start" /\ threads[p] = {}
        /\ \A p, q \in P : chan[p][q] = << >>
    BY DEF Init
  <1>2. Len(<< >>) = 0 /\ 1..0 = {}
    BY SMT
  <1>3. SumInv
    BY <1>1 DEF SumInv, Working
  <1>4. ShareInv
    BY <1>1, <1>2 DEF ShareInv
  <1>5. RecvInv
    BY <1>1 DEF RecvInv
  <1>6. SendInv
    BY <1>1 DEF SendInv
  <1> QED BY <1>3, <1>4, <1>5, <1>6 DEF ValueInv

(***************************************************************************)
(* The invariant: in every trial, what the clients send, what is on the    *)
(* way and what has been received are the shares of that trial.            *)
(***************************************************************************)
THEOREM ValuesKept == Spec => []ValueInv
  <1>1. Init => WaitInv /\ ValueInv
    BY WaitInit, ValueInit
  <1>2. Inv /\ TypeInv /\ FlowInv /\ WaitInv /\ ValueInv /\ [Next]_vars => WaitInv' /\ ValueInv'
    BY WaitStep, SumStep, ShareStep, RecvStep, SendStep DEF ValueInv
  <1> QED BY <1>1, <1>2, SpecFlow, PTL DEF Spec

(***************************************************************************)
(* The leader outputs exactly the intersection of all sets in each trial,  *)
(* whatever the number of parties, the threshold, the sets and the order   *)
(* of the steps of the parties' threads: TParty implements IdealPsi.       *)
(***************************************************************************)
THEOREM PsiImplemented == Spec => ImplementsPsi
  <1>1. Init => Ideal!PsiInit
    BY DEF Init, Ideal!PsiInit
  <1>2. Inv /\ TypeInv /\ ValueInv /\ [Next]_vars => [Ideal!PsiAnswer]_<<input.sets, output>>
    BY AnswerStep DEF ValueInv
  <1> QED BY <1>1, <1>2, SpecFlow, ValuesKept, PTL DEF Spec, ImplementsPsi, Ideal!PsiSpec
=============================================================================
