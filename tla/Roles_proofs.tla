---------------------------- MODULE Roles_proofs ----------------------------
(***************************************************************************)
(* The ring arithmetic of tparty is right for every number of parties and  *)
(* every threshold: each slot gets one thread, each pair of parties meets  *)
(* in one thread of each side with matching roles, and each payload slot   *)
(* has one thread that writes it.                                          *)
(***************************************************************************)
EXTENDS Roles, TLAPS

(* A client deals shares to fewer clients than there are on the ring.      *)
LEMMA RingBound ==
  ASSUME NEW n, NEW t, Usable(n, t)
  PROVE  /\ n \in Nat /\ nSS(n) \in Nat /\ nSS(n) >= 1 /\ nSS(n) = n - 1
         /\ tSS(n, t) \in Nat /\ tSS(n, t) < nSS(n)
  BY SMT DEF Usable, nSS, tSS

(* Remainders on the ring are computed by at most one subtraction.         *)
LEMMA ModSmall ==
  ASSUME NEW m \in Nat \ {0}, NEW x \in Nat, x < m
  PROVE  x % m = x
  BY SMTT(30)

LEMMA ModWrap ==
  ASSUME NEW m \in Nat \ {0}, NEW x \in Nat, m <= x, x < 2 * m
  PROVE  x % m = x - m
  BY SMTT(30)

LEMMA ModRing ==
  ASSUME NEW m \in Nat \ {0}, NEW x \in Nat, x < 2 * m
  PROVE  x % m = IF x < m THEN x ELSE x - m
  <1>1. CASE x < m
    BY <1>1, ModSmall, Zenon
  <1>2. CASE ~(x < m)
    <2>1. m <= x
      BY <1>2, SMT
    <2> QED BY <1>2, <2>1, ModWrap, Zenon
  <1> QED BY <1>1, <1>2

(* The next and the previous clients without the remainder.                *)
LEMMA NextRing ==
  ASSUME NEW n, NEW t, Usable(n, t), NEW p \in Clients(n), NEW k \in 0..(tSS(n, t) - 1)
  PROVE  nextIdx(n, p, k) = IF p + k + 1 < nSS(n) THEN p + k + 1 ELSE p + k + 1 - nSS(n)
  <1>1. p + k + 1 \in Nat /\ p + k + 1 < 2 * nSS(n) /\ nSS(n) \in Nat \ {0}
    BY RingBound, SMT DEF Clients
  <1> DEFINE m == nSS(n)
             x == p + k + 1
  <1>2. nextIdx(n, p, k) = x % m
    BY Zenon DEF nextIdx
  <1> HIDE DEF m, x
  <1>3. x % m = IF x < m THEN x ELSE x - m
    <2>1. x \in Nat /\ x < 2 * m /\ m \in Nat \ {0}
      BY <1>1 DEF x, m
    <2> QED BY <2>1, ModRing, Zenon
  <1>4. nextIdx(n, p, k) = IF x < m THEN x ELSE x - m
    BY <1>2, <1>3, Zenon
  <1>5. p \in Nat /\ k \in Nat /\ m \in Nat
    BY RingBound, SMT DEF Clients, m
  <1>6. x = p + k + 1
    BY DEF x
  <1>7. nextIdx(n, p, k) = IF p + k + 1 < m THEN p + k + 1 ELSE p + k + 1 - m
    BY <1>4, <1>5, <1>6, SMT
  <1> QED BY <1>7 DEF m

LEMMA PrevRing ==
  ASSUME NEW n, NEW t, Usable(n, t), NEW p \in Clients(n), NEW k \in 0..(tSS(n, t) - 1)
  PROVE  prevIdx(n, p, k) = IF k < p THEN p - k - 1 ELSE p - k - 1 + nSS(n)
  <1>1. p - k - 1 + nSS(n) \in Nat /\ p - k - 1 + nSS(n) < 2 * nSS(n) /\ nSS(n) \in Nat \ {0}
    BY RingBound, SMT DEF Clients
  <1> DEFINE m == nSS(n)
             x == p - k - 1 + nSS(n)
  <1>2. prevIdx(n, p, k) = x % m
    BY Zenon DEF prevIdx
  <1> HIDE DEF m, x
  <1>3. x % m = IF x < m THEN x ELSE x - m
    <2>1. x \in Nat /\ x < 2 * m /\ m \in Nat \ {0}
      BY <1>1 DEF x, m
    <2> QED BY <2>1, ModRing, Zenon
  <1>4. prevIdx(n, p, k) = IF x < m THEN x ELSE x - m
    BY <1>2, <1>3, Zenon
  <1>5. p \in Nat /\ k \in Nat /\ m \in Nat
    BY RingBound, SMT DEF Clients, m
  <1>6. x = p - k - 1 + m
    BY DEF x, m
  <1>7. prevIdx(n, p, k) = IF k < p THEN p - k - 1 ELSE p - k - 1 + m
    BY <1>4, <1>5, <1>6, SMT
  <1> QED BY <1>7 DEF m

(* The ends of the dual area without the remainder.                        *)
LEMMA AreaRing ==
  ASSUME NEW n, NEW t, Usable(n, t), NEW p \in Clients(n)
  PROVE  /\ (p - tSS(n, t) + nSS(n)) % nSS(n)
              = IF p < tSS(n, t) THEN p - tSS(n, t) + nSS(n) ELSE p - tSS(n, t)
         /\ (p + tSS(n, t)) % nSS(n)
              = IF p + tSS(n, t) < nSS(n) THEN p + tSS(n, t) ELSE p + tSS(n, t) - nSS(n)
  <1> DEFINE m == nSS(n)
             s == tSS(n, t)
  <1>1. m \in Nat \ {0} /\ s \in Nat /\ s < m /\ p \in Nat /\ p < m
    BY RingBound, SMT DEF Clients
  <1>2. p - s + m \in Nat /\ p - s + m < 2 * m /\ p + s \in Nat /\ p + s < 2 * m
    BY <1>1, SMT
  <1> DEFINE x == p - s + m
             y == p + s
  <1> HIDE DEF m, s, x, y
  <1>3. x % m = IF x < m THEN x ELSE x - m
    <2>1. x \in Nat /\ x < 2 * m
      BY <1>2 DEF x
    <2> QED BY <1>1, <2>1, ModRing, Zenon
  <1>4. y % m = IF y < m THEN y ELSE y - m
    <2>1. y \in Nat /\ y < 2 * m
      BY <1>2 DEF y
    <2> QED BY <1>1, <2>1, ModRing, Zenon
  <1>5. (IF x < m THEN x ELSE x - m) = IF p < s THEN p - s + m ELSE p - s
    BY <1>1, SMT DEF x
  <1>6. x % m = IF p < s THEN p - s + m ELSE p - s
    BY <1>3, <1>5, Zenon
  <1>7. (p - s + m) % m = IF p < s THEN p - s + m ELSE p - s
    BY <1>6, Zenon DEF x
  <1>8. (p + s) % m = IF p + s < m THEN p + s ELSE p + s - m
    <2>1. (p + s) % m = IF y < m THEN y ELSE y - m
      BY <1>4, Zenon DEF y
    <2>2. (IF y < m THEN y ELSE y - m) = IF p + s < m THEN p + s ELSE p + s - m
      BY <1>1, SMT DEF y
    <2> QED BY <2>1, <2>2, Zenon
  <1> QED BY <1>7, <1>8 DEF m, s

(* What dual partners are: two clients that are at most tSS apart in both  *)
(* directions of the ring.                                                 *)
LEMMA DualNext ==
  ASSUME NEW n, NEW t, Usable(n, t), NEW p \in Clients(n), NEW k \in 0..(tSS(n, t) - 1)
  PROVE  dualPartner(n, t, p, nextIdx(n, p, k)) <=> k + 1 + tSS(n, t) >= nSS(n)
  <1> DEFINE m == nSS(n)
             s == tSS(n, t)
             b == (p - s + m) % m
             e == (p + s) % m
             q == nextIdx(n, p, k)
  <1>1. m \in Nat \ {0} /\ s \in Nat /\ s < m /\ p \in Nat /\ p < m /\ k \in Nat /\ k < s
    BY RingBound, SMT DEF Clients
  <1>2. q = IF p + k + 1 < m THEN p + k + 1 ELSE p + k + 1 - m
    BY NextRing
  <1>3. b = IF p < s THEN p - s + m ELSE p - s
    BY AreaRing
  <1>4. e = IF p + s < m THEN p + s ELSE p + s - m
    BY AreaRing
  <1>5. dualPartner(n, t, p, q) <=> /\ 2 * s >= m
                                    /\ IF b <= e THEN b <= q /\ q <= e
                                       ELSE q <= e \/ (b <= q /\ q <= m)
    BY DEF dualPartner, isDual, is_in_dual_area
  <1> HIDE DEF m, s, b, e, q
  <1>6. dualPartner(n, t, p, q) <=> k + 1 + s >= m
    BY <1>1, <1>2, <1>3, <1>4, <1>5, SMTT(30)
  <1> QED BY <1>6 DEF m, s, q

LEMMA DualPrev ==
  ASSUME NEW n, NEW t, Usable(n, t), NEW p \in Clients(n), NEW k \in 0..(tSS(n, t) - 1)
  PROVE  dualPartner(n, t, p, prevIdx(n, p, k)) <=> k + 1 + tSS(n, t) >= nSS(n)
  <1> DEFINE m == nSS(n)
             s == tSS(n, t)
             b == (p - s + m) % m
             e == (p + s) % m
             q == prevIdx(n, p, k)
  <1>1. m \in Nat \ {0} /\ s \in Nat /\ s < m /\ p \in Nat /\ p < m /\ k \in Nat /\ k < s
    BY RingBound, SMT DEF Clients
  <1>2. q = IF k < p THEN p - k - 1 ELSE p - k - 1 + m
    BY PrevRing
  <1>3. b = IF p < s THEN p - s + m ELSE p - s
    BY AreaRing
  <1>4. e = IF p + s < m THEN p + s ELSE p + s - m
    BY AreaRing
  <1>5. dualPartner(n, t, p, q) <=> /\ 2 * s >= m
                                    /\ IF b <= e THEN b <= q /\ q <= e
                                       ELSE q <= e \/ (b <= q /\ q <= m)
    BY DEF dualPartner, isDual, is_in_dual_area
  <1> HIDE DEF m, s, b, e, q
  <1>6. dualPartner(n, t, p, q) <=> k + 1 + s >= m
    BY <1>1, <1>2, <1>3, <1>4, <1>5, SMTT(30)
  <1> QED BY <1>6 DEF m, s, q

(***************************************************************************)
(* The thread in each slot of a client: the next clients, then those       *)
(* previous ones that are no dual partners, then the leader.               *)
(***************************************************************************)
Last(n, t, p) == num_threads(n, t, p) - 1

ThreadAt(n, t, p, r, i) ==
  IF i < tSS(n, t)
    THEN Thread(i, nextIdx(n, p, i), i,
                IF i + 1 + tSS(n, t) >= nSS(n) THEN dualRole(p, nextIdx(n, p, i)) ELSE "send")
  ELSE IF i < Last(n, t, p)
    THEN Thread(i, prevIdx(n, p, i - tSS(n, t)), i - tSS(n, t), "recv")
  ELSE Thread(i, Leader(n), tSS(n, t), r)

LEMMA LastSlot ==
  ASSUME NEW n, NEW t, Usable(n, t), NEW p \in Clients(n)
  PROVE  /\ Last(n, t, p) = IF 2 * tSS(n, t) >= nSS(n) THEN nSS(n) - 1 ELSE 2 * tSS(n, t)
         /\ Last(n, t, p) \in Nat /\ tSS(n, t) <= Last(n, t, p)
         /\ num_threads(n, t, p) = Last(n, t, p) + 1
  <1>1. p # Leader(n)
    BY RingBound, SMT DEF Clients, Leader
  <1>2. num_threads(n, t, p) = IF 2 * tSS(n, t) >= nSS(n) THEN nSS(n) ELSE 2 * tSS(n, t) + 1
    BY <1>1, RingBound, SMT DEF num_threads, isDual
  <1> QED BY <1>2, RingBound, SMT DEF Last

LEMMA PrevAt ==
  ASSUME NEW n, NEW t, Usable(n, t), NEW p \in Clients(n), NEW r
  PROVE  PrevThreads(n, t, p)
           = {ThreadAt(n, t, p, r, i) : i \in tSS(n, t)..(Last(n, t, p) - 1)}
  <1> DEFINE s == tSS(n, t)
             L == Last(n, t, p)
             K == {j \in 0..(s - 1) : ~dualPartner(n, t, p, prevIdx(n, p, j))}
             Prev(k) == Thread(s + k, prevIdx(n, p, k), k, "recv")
  <1>1. s \in Nat /\ L \in Nat /\ s <= L /\ nSS(n) \in Nat
    BY RingBound, LastSlot
  <1>2. K = {j \in 0..(s - 1) : ~(j + 1 + s >= nSS(n))}
    BY DualPrev
  <1>3. \A k : k \in K <=> k \in 0..(L - s - 1)
    BY <1>1, <1>2, RingBound, LastSlot, SMT
  <1>4. \A k \in K : s + k \in s..(L - 1)
    BY <1>1, <1>3, SMT
  <1>5. \A i \in s..(L - 1) : i - s \in K /\ s + (i - s) = i
    BY <1>1, <1>3, SMT
  <1>6. \A i \in s..(L - 1) : ThreadAt(n, t, p, r, i) = Prev(i - s)
    <2> TAKE i \in s..(L - 1)
    <2>1. ~(i < s) /\ i < L /\ s + (i - s) = i
      BY <1>1, SMT
    <2> QED BY <2>1, Zenon DEF ThreadAt
  <1>7. \A k \in K : (s + k) - s = k
    BY <1>1, <1>3, SMT
  <1>8. PrevThreads(n, t, p) = {Prev(k) : k \in K}
    BY Zenon DEF PrevThreads
  <1>a. \A k \in K : Prev(k) = ThreadAt(n, t, p, r, s + k)
    <2> TAKE k \in K
    <2>1. s + k \in s..(L - 1) /\ (s + k) - s = k
      BY <1>4, <1>7
    <2>2. ThreadAt(n, t, p, r, s + k) = Prev((s + k) - s)
      BY <2>1, <1>6
    <2> QED BY <2>1, <2>2
  <1> HIDE DEF Prev, K, s, L
  <1>9. {Prev(k) : k \in K} = {ThreadAt(n, t, p, r, i) : i \in s..(L - 1)}
    <2> DEFINE At(i) == ThreadAt(n, t, p, r, i)
               I == s..(L - 1)
    <2>1. \A k \in K : s + k \in I /\ Prev(k) = At(s + k)
      BY <1>4, <1>a
    <2>2. \A i \in I : i - s \in K /\ At(i) = Prev(i - s)
      BY <1>5, <1>6
    <2> HIDE DEF At, I
    <2>3. {Prev(k) : k \in K} = {At(i) : i \in I}
      BY <2>1, <2>2, Zenon
    <2> QED BY <2>3 DEF At, I
  <1> QED BY <1>8, <1>9 DEF s, L

LEMMA NextAt ==
  ASSUME NEW n, NEW t, Usable(n, t), NEW p \in Clients(n), NEW r
  PROVE  NextThreads(n, t, p) = {ThreadAt(n, t, p, r, i) : i \in 0..(tSS(n, t) - 1)}
  <1> DEFINE s == tSS(n, t)
             NextOf(k) == Thread(k, nextIdx(n, p, k), k,
                IF dualPartner(n, t, p, nextIdx(n, p, k))
                  THEN dualRole(p, nextIdx(n, p, k)) ELSE "send")
  <1>1. \A i \in 0..(s - 1) : i < s
    BY RingBound, SMT
  <1>2. \A i \in 0..(s - 1) : dualPartner(n, t, p, nextIdx(n, p, i)) <=> i + 1 + s >= nSS(n)
    BY DualNext
  <1>3. \A i \in 0..(s - 1) : ThreadAt(n, t, p, r, i) = NextOf(i)
    BY <1>1, <1>2, Zenon DEF ThreadAt
  <1>4. NextThreads(n, t, p) = {NextOf(k) : k \in 0..(s - 1)}
    BY Zenon DEF NextThreads
  <1> HIDE DEF NextOf
  <1> QED BY <1>3, <1>4, Zenon

LEMMA ClientThreadsAt ==
  ASSUME NEW n, NEW t, Usable(n, t), NEW p \in Clients(n), NEW r
  PROVE  ClientThreads(n, t, p, r)
           = {ThreadAt(n, t, p, r, i) : i \in 0..Last(n, t, p)}
  <1> DEFINE s == tSS(n, t)
             L == Last(n, t, p)
             At(i) == ThreadAt(n, t, p, r, i)
  <1>1. s \in Nat /\ L \in Nat /\ s <= L
    BY RingBound, LastSlot
  <1>2. LeaderThread(n, t, p, r) = At(L)
    <2>1. ~(L < s) /\ ~(L < L)
      BY <1>1, SMT
    <2> QED BY <2>1, Zenon DEF ThreadAt, LeaderThread, Last
  <1>3. ClientThreads(n, t, p, r)
          = {At(i) : i \in s..(L - 1)} \cup {At(i) : i \in 0..(s - 1)} \cup {At(L)}
    <2>1. PrevThreads(n, t, p) = {At(i) : i \in s..(L - 1)}
      BY PrevAt
    <2>2. NextThreads(n, t, p) = {At(i) : i \in 0..(s - 1)}
      BY NextAt
    <2> QED BY <1>2, <2>1, <2>2 DEF ClientThreads
  <1>4. \A i : i \in 0..L <=> i \in s..(L - 1) \/ i \in 0..(s - 1) \/ i = L
    BY <1>1, SMT
  <1> HIDE DEF At, s, L
  <1>5. ClientThreads(n, t, p, r) = {At(i) : i \in 0..L}
    BY <1>3, <1>4, Zenon
  <1> QED BY <1>5 DEF At, L

LEMMA SlotAt ==
  ASSUME NEW n, NEW t, NEW p, NEW r, NEW i
  PROVE  ThreadAt(n, t, p, r, i).slot = i
  BY DEF ThreadAt, Thread

LEMMA NextFields ==
  ASSUME NEW n, NEW t, NEW p, NEW r, NEW i, i < tSS(n, t)
  PROVE  /\ ThreadAt(n, t, p, r, i).peer = nextIdx(n, p, i)
         /\ ThreadAt(n, t, p, r, i).pay = i
         /\ ThreadAt(n, t, p, r, i).role =
              IF i + 1 + tSS(n, t) >= nSS(n) THEN dualRole(p, nextIdx(n, p, i)) ELSE "send"
  BY DEF ThreadAt, Thread

LEMMA PrevFields ==
  ASSUME NEW n, NEW t, NEW p, NEW r, NEW i, ~(i < tSS(n, t)), i < Last(n, t, p)
  PROVE  /\ ThreadAt(n, t, p, r, i).peer = prevIdx(n, p, i - tSS(n, t))
         /\ ThreadAt(n, t, p, r, i).pay = i - tSS(n, t)
         /\ ThreadAt(n, t, p, r, i).role = "recv"
  BY DEF ThreadAt, Thread

LEMMA LeaderFields ==
  ASSUME NEW n, NEW t, NEW p, NEW r, NEW i, ~(i < tSS(n, t)), ~(i < Last(n, t, p))
  PROVE  /\ ThreadAt(n, t, p, r, i).peer = Leader(n)
         /\ ThreadAt(n, t, p, r, i).pay = tSS(n, t)
         /\ ThreadAt(n, t, p, r, i).role = r
  BY DEF ThreadAt, Thread

(***************************************************************************)
(* Every slot of pThrds gets exactly one thread, at every client and at    *)
(* the leader, for every n and t.                                          *)
(***************************************************************************)
THEOREM SlotsFilled ==
  ASSUME NEW n, NEW t, Usable(n, t)
  PROVE  /\ \A p \in Clients(n) : \A r :
              FillSlots(ClientThreads(n, t, p, r), num_threads(n, t, p))
         /\ FillSlots(LeaderThreads(n), n - 1)
  <1>1. ASSUME NEW p \in Clients(n), NEW r
        PROVE  FillSlots(ClientThreads(n, t, p, r), num_threads(n, t, p))
    <2> DEFINE At(i) == ThreadAt(n, t, p, r, i)
               L == Last(n, t, p)
    <2>1. ClientThreads(n, t, p, r) = {At(i) : i \in 0..L}
      BY ClientThreadsAt
    <2>2. \A i : At(i).slot = i
      BY SlotAt
    <2>3. 0..(num_threads(n, t, p) - 1) = 0..L
      BY DEF Last
    <2> HIDE DEF At, L
    <2>4. {th.slot : th \in {At(i) : i \in 0..L}} = 0..L
      BY <2>2
    <2>5. \A th1, th2 \in {At(i) : i \in 0..L} : th1.slot = th2.slot => th1 = th2
      BY <2>2
    <2> QED BY <2>1, <2>3, <2>4, <2>5 DEF FillSlots
  <1>2. FillSlots(LeaderThreads(n), n - 1)
    <2> DEFINE At(i) == Thread(i, i, i, "recv")
    <2>1. LeaderThreads(n) = {At(i) : i \in 0..((n - 1) - 1)}
      <3>1. 0..((n - 1) - 1) = 0..(n - 2)
        BY RingBound, SMT
      <3> QED BY <3>1, Zenon DEF LeaderThreads
    <2>2. \A i : At(i).slot = i
      BY DEF Thread
    <2> HIDE DEF At
    <2>4. {th.slot : th \in {At(i) : i \in 0..((n - 1) - 1)}} = 0..((n - 1) - 1)
      BY <2>2
    <2>5. \A th1, th2 \in {At(i) : i \in 0..((n - 1) - 1)} : th1.slot = th2.slot => th1 = th2
      BY <2>2
    <2> QED BY <2>1, <2>4, <2>5, Zenon DEF FillSlots
  <1> QED BY <1>1, <1>2

(***************************************************************************)
(* Peers.                                                                  *)
(***************************************************************************)
LEMMA PeerAt ==
  ASSUME NEW n, NEW t, Usable(n, t), NEW p \in Clients(n), NEW r,
         NEW i \in 0..Last(n, t, p)
  PROVE  ThreadAt(n, t, p, r, i).peer =
           IF i < tSS(n, t)
             THEN IF p + i + 1 < nSS(n) THEN p + i + 1 ELSE p + i + 1 - nSS(n)
           ELSE IF i < Last(n, t, p)
             THEN IF i - tSS(n, t) < p THEN p - (i - tSS(n, t)) - 1
                                       ELSE p - (i - tSS(n, t)) - 1 + nSS(n)
           ELSE nSS(n)
  <1> DEFINE s == tSS(n, t)
             L == Last(n, t, p)
  <1>1. /\ s \in Nat /\ L \in Nat /\ s <= L /\ i \in Nat /\ i <= L
        /\ L <= 2 * s /\ Leader(n) = nSS(n)
    BY RingBound, LastSlot, SMT DEF Leader
  <1>2. CASE i < s
    <2>1. i \in 0..(s - 1)
      BY <1>1, <1>2, SMT
    <2>2. nextIdx(n, p, i) = IF p + i + 1 < nSS(n) THEN p + i + 1 ELSE p + i + 1 - nSS(n)
      BY <2>1, NextRing
    <2>3. ThreadAt(n, t, p, r, i).peer = nextIdx(n, p, i)
      BY <1>2, NextFields
    <2> QED BY <1>2, <2>2, <2>3, Zenon
  <1>3. CASE ~(i < s) /\ i < L
    <2>1. i - s \in 0..(s - 1)
      BY <1>1, <1>3, SMT
    <2>2. prevIdx(n, p, i - s) = IF i - s < p THEN p - (i - s) - 1
                                              ELSE p - (i - s) - 1 + nSS(n)
      BY <2>1, PrevRing
    <2>3. ThreadAt(n, t, p, r, i).peer = prevIdx(n, p, i - s)
      BY <1>3, PrevFields
    <2> QED BY <1>3, <2>2, <2>3, Zenon
  <1>4. CASE ~(i < s) /\ ~(i < L)
    <2>1. ThreadAt(n, t, p, r, i).peer = Leader(n)
      BY <1>4, LeaderFields
    <2> QED BY <1>1, <1>4, <2>1, Zenon
  <1> QED BY <1>2, <1>3, <1>4

(***************************************************************************)
(* A client has one thread for each party it talks to, so that no channel  *)
(* has two users, and never talks to itself.                               *)
(***************************************************************************)
THEOREM OnePerPeer ==
  ASSUME NEW n, NEW t, Usable(n, t), NEW p \in Clients(n), NEW r
  PROVE  /\ \A th \in ClientThreads(n, t, p, r) : th.peer \in Parties(n) \ {p}
         /\ \A th1, th2 \in ClientThreads(n, t, p, r) : th1.peer = th2.peer => th1 = th2
  <1> DEFINE s == tSS(n, t)
             L == Last(n, t, p)
             m == nSS(n)
             At(i) == ThreadAt(n, t, p, r, i)
             Peer(i) == IF i < s THEN IF p + i + 1 < m THEN p + i + 1 ELSE p + i + 1 - m
                        ELSE IF i < L THEN IF i - s < p THEN p - (i - s) - 1
                                                        ELSE p - (i - s) - 1 + m
                        ELSE m
  <1>1. /\ s \in Nat /\ L \in Nat /\ s <= L /\ m \in Nat /\ m = n - 1 /\ n \in Nat
        /\ L = IF 2 * s >= m THEN m - 1 ELSE 2 * s
        /\ s < m /\ p \in Nat /\ p < m
    BY RingBound, LastSlot, SMT DEF Clients
  <1>2. ClientThreads(n, t, p, r) = {At(i) : i \in 0..L}
    BY ClientThreadsAt
  <1>3. \A i \in 0..L : At(i).peer = Peer(i)
    BY PeerAt
  <1> HIDE DEF s, L, m, At
  <1>4. \A i \in 0..L : Peer(i) \in 0..m /\ Peer(i) # p
    BY <1>1, SMTT(30)
  <1>5. \A i, j \in 0..L : Peer(i) = Peer(j) => i = j
    BY <1>1, SMTT(60)
  <1>6. Parties(n) = 0..m
    BY <1>1, SMT DEF Parties
  <1> HIDE DEF Peer
  <1> QED BY <1>2, <1>3, <1>4, <1>5, <1>6

(***************************************************************************)
(* Whatever a client does with another one, the other does the opposite:   *)
(* every dealer has a receiver and every dual partner has one of the other *)
(* kind.                                                                   *)
(***************************************************************************)
Opposite(role) == CASE role = "send"     -> "recv"
                    [] role = "recv"     -> "send"
                    [] role = "dualSend" -> "dualRecv"
                    [] role = "dualRecv" -> "dualSend"
                    [] OTHER             -> "none"

THEOREM RolesMatch ==
  ASSUME NEW n, NEW t, Usable(n, t), NEW p \in Clients(n), NEW r,
         NEW th \in ClientThreads(n, t, p, r), th.peer # Leader(n)
  PROVE  /\ th.peer \in Clients(n)
         /\ \E th2 \in ClientThreads(n, t, th.peer, r) :
              th2.peer = p /\ th2.role = Opposite(th.role)
  <1> DEFINE s == tSS(n, t)
             m == nSS(n)
  <1>1. PICK i \in 0..Last(n, t, p) : th = ThreadAt(n, t, p, r, i)
    BY ClientThreadsAt
  <1> DEFINE L == Last(n, t, p)
             q == th.peer
  <1>2. /\ s \in Nat /\ L \in Nat /\ s <= L /\ m \in Nat /\ m = n - 1 /\ n \in Nat
        /\ L = IF 2 * s >= m THEN m - 1 ELSE 2 * s
        /\ s < m /\ p \in Nat /\ p < m /\ i \in Nat /\ i <= L /\ Clients(n) = 0..(m - 1)
    BY RingBound, LastSlot, SMT DEF Clients
  <1>3. q \in Parties(n) \ {p}
    BY OnePerPeer
  <1>4. q \in Clients(n) /\ q \in Nat /\ q < m /\ q # p
    BY <1>2, <1>3, SMT DEF Parties, Clients, Leader
  <1>5. /\ Last(n, t, q) = L
        /\ \A j \in 0..L : ThreadAt(n, t, q, r, j) \in ClientThreads(n, t, q, r)
    BY <1>2, <1>4, LastSlot, ClientThreadsAt
  <1>6. i < L
    <2>1. CASE ~(i < L)
      <3>1. ~(i < s)
        BY <1>2, <2>1, SMT
      <3> QED BY <1>1, <2>1, <3>1, LeaderFields
    <2> QED BY <2>1
  <1>7. CASE i < s /\ i + 1 + s >= m
    <2> DEFINE j == m - i - 2
    <2>1. j \in 0..L /\ j < s /\ j + 1 + s >= m
      BY <1>2, <1>7, <1>4, SMT
    <2>2. q = IF p + i + 1 < m THEN p + i + 1 ELSE p + i + 1 - m
      BY <1>1, <1>7, PeerAt, Zenon
    <2>3. ThreadAt(n, t, q, r, j).peer = IF q + j + 1 < m THEN q + j + 1 ELSE q + j + 1 - m
      BY <1>4, <1>5, <2>1, PeerAt, Zenon
    <2>4. ThreadAt(n, t, q, r, j).peer = p
      BY <1>2, <1>4, <2>2, <2>3, SMT
    <2>5. th.role = dualRole(p, q)
      BY <1>1, <1>7, NextFields
    <2>6. ThreadAt(n, t, q, r, j).role = dualRole(q, p)
      BY <2>1, <2>4, NextFields
    <2>7. dualRole(q, p) = Opposite(dualRole(p, q))
      BY <1>2, <1>4, SMT DEF dualRole, Opposite
    <2> QED BY <1>4, <1>5, <2>1, <2>4, <2>5, <2>6, <2>7
  <1>8. CASE i < s /\ ~(i + 1 + s >= m)
    <2> DEFINE j == i + s
    <2>1. j \in 0..L /\ ~(j < s) /\ j < L /\ j - s = i
      BY <1>2, <1>8, SMT
    <2>2. q = IF p + i + 1 < m THEN p + i + 1 ELSE p + i + 1 - m
      BY <1>1, <1>8, PeerAt, Zenon
    <2>3. ThreadAt(n, t, q, r, j).peer = IF j - s < q THEN q - (j - s) - 1 ELSE q - (j - s) - 1 + m
      BY <1>4, <1>5, <2>1, PeerAt, Zenon
    <2>4. ThreadAt(n, t, q, r, j).peer = p
      <3>1. (IF i < q THEN q - i - 1 ELSE q - i - 1 + m) = p
        <4> HIDE DEF q, m, s, L
        <4>1. i + 1 < m
          BY <1>2, <1>8, SMT
        <4> QED BY <1>2, <1>4, <2>2, <4>1, SMT
      <3>2. ThreadAt(n, t, q, r, j).peer = IF i < q THEN q - i - 1 ELSE q - i - 1 + m
        BY <2>1, <2>3, Zenon
      <3> QED BY <3>1, <3>2, Zenon
    <2>5. th.role = "send"
      BY <1>1, <1>8, NextFields
    <2>6. ThreadAt(n, t, q, r, j).role = "recv"
      BY <1>5, <2>1, PrevFields
    <2>7. "recv" = Opposite("send")
      BY DEF Opposite
    <2> QED BY <1>4, <1>5, <2>1, <2>4, <2>5, <2>6, <2>7
  <1>9. CASE ~(i < s)
    <2> DEFINE j == i - s
    <2>1. j \in 0..L /\ j < s /\ ~(j + 1 + s >= m)
      BY <1>2, <1>6, <1>9, SMT
    <2>2. q = IF i - s < p THEN p - (i - s) - 1 ELSE p - (i - s) - 1 + m
      BY <1>1, <1>6, <1>9, PeerAt, Zenon
    <2>3. ThreadAt(n, t, q, r, j).peer = IF q + j + 1 < m THEN q + j + 1 ELSE q + j + 1 - m
      BY <1>4, <1>5, <2>1, PeerAt, Zenon
    <2>4. ThreadAt(n, t, q, r, j).peer = p
      <3>1. j \in Nat /\ j + 1 < m
        BY <1>2, <2>1, SMT
      <3>2. q = IF j < p THEN p - j - 1 ELSE p - j - 1 + m
        BY <2>2, Zenon
      <3>3. (IF q + j + 1 < m THEN q + j + 1 ELSE q + j + 1 - m) = p
        <4> HIDE DEF q, m, s, L, j
        <4> QED BY <1>2, <1>4, <3>1, <3>2, SMT
      <3> QED BY <2>3, <3>3, Zenon
    <2>5. th.role = "recv"
      BY <1>1, <1>6, <1>9, PrevFields
    <2>6. ThreadAt(n, t, q, r, j).role = "send"
      BY <2>1, NextFields
    <2>7. "send" = Opposite("recv")
      BY DEF Opposite
    <2> QED BY <1>4, <1>5, <2>1, <2>4, <2>5, <2>6, <2>7
  <1> QED BY <1>7, <1>8, <1>9

(***************************************************************************)
(* Payload slots.                                                          *)
(***************************************************************************)
Receiving == {"recv", "dualSend", "dualRecv"}

(* The threads that receive, and the payload they receive into.            *)
LEMMA ReceivingAt ==
  ASSUME NEW n, NEW t, Usable(n, t), NEW p \in Clients(n), NEW r, r \notin Receiving,
         NEW i \in 0..Last(n, t, p)
  PROVE  /\ ThreadAt(n, t, p, r, i).role \in Receiving
              <=> i < Last(n, t, p) /\ (i < tSS(n, t) => i + 1 + tSS(n, t) >= nSS(n))
         /\ ThreadAt(n, t, p, r, i).role \in Receiving =>
              ThreadAt(n, t, p, r, i).pay = IF i < tSS(n, t) THEN i ELSE i - tSS(n, t)
  <1> DEFINE s == tSS(n, t)
             m == nSS(n)
             L == Last(n, t, p)
             th == ThreadAt(n, t, p, r, i)
  <1>1. /\ s \in Nat /\ L \in Nat /\ s <= L /\ m \in Nat
        /\ L = IF 2 * s >= m THEN m - 1 ELSE 2 * s
        /\ s < m /\ i \in Nat /\ i <= L
    BY RingBound, LastSlot, SMT
  <1>2. CASE i < s
    <2>1. th.pay = i /\ th.peer = nextIdx(n, p, i)
      BY <1>2, NextFields
    <2>2. th.role = IF i + 1 + s >= m THEN dualRole(p, nextIdx(n, p, i)) ELSE "send"
      BY <1>2, NextFields
    <2>3. nextIdx(n, p, i) # p /\ nextIdx(n, p, i) \in Int /\ p \in Int
      <3>1. th \in ClientThreads(n, t, p, r)
        BY ClientThreadsAt
      <3>2. th.peer \in Parties(n) \ {p}
        BY <3>1, OnePerPeer
      <3> QED BY <2>1, <3>2, SMT DEF Parties, Clients
    <2>4. dualRole(p, nextIdx(n, p, i)) \in Receiving
      BY <2>3, SMT DEF dualRole, Receiving
    <2>5. "send" \notin Receiving
      BY DEF Receiving
    <2>6. i + 1 + s >= m => i < L
      BY <1>1, <1>2, SMT
    <2> QED BY <1>2, <2>1, <2>2, <2>4, <2>5, <2>6
  <1>3. CASE ~(i < s) /\ i < L
    <2>1. th.pay = i - s /\ th.role = "recv"
      BY <1>3, PrevFields
    <2> QED BY <1>3, <2>1 DEF Receiving
  <1>4. CASE ~(i < s) /\ ~(i < L)
    <2>1. th.role = r
      BY <1>4, LeaderFields
    <2> QED BY <1>4, <2>1
  <1> QED BY <1>2, <1>3, <1>4

(***************************************************************************)
(* No two threads of a client receive into the same payload.               *)
(***************************************************************************)
THEOREM PayloadsApart ==
  ASSUME NEW n, NEW t, Usable(n, t), NEW p \in Clients(n), NEW r, r \notin Receiving,
         NEW th1 \in ClientThreads(n, t, p, r), NEW th2 \in ClientThreads(n, t, p, r),
         th1.role \in Receiving, th2.role \in Receiving, th1.pay = th2.pay
  PROVE  th1 = th2
  <1> DEFINE s == tSS(n, t)
             m == nSS(n)
             L == Last(n, t, p)
             At(i) == ThreadAt(n, t, p, r, i)
  <1>1. /\ s \in Nat /\ L \in Nat /\ s <= L /\ m \in Nat
        /\ L = IF 2 * s >= m THEN m - 1 ELSE 2 * s
        /\ s < m
    BY RingBound, LastSlot, SMT
  <1>2. PICK i \in 0..L : th1 = At(i)
    BY ClientThreadsAt
  <1>3. PICK j \in 0..L : th2 = At(j)
    BY ClientThreadsAt
  <1>4. i < L /\ (i < s => i + 1 + s >= m) /\ th1.pay = IF i < s THEN i ELSE i - s
    BY <1>2, ReceivingAt
  <1>5. j < L /\ (j < s => j + 1 + s >= m) /\ th2.pay = IF j < s THEN j ELSE j - s
    BY <1>3, ReceivingAt
  <1> HIDE DEF s, m, L, At
  <1>6. (IF i < s THEN i ELSE i - s) = (IF j < s THEN j ELSE j - s)
    BY <1>4, <1>5, Zenon
  <1>7. i = j
    BY <1>1, <1>4, <1>5, <1>6, SMT
  <1> QED BY <1>2, <1>3, <1>7

(***************************************************************************)
(* Every payload slot of a client has a thread that receives into it.      *)
(***************************************************************************)
THEOREM PayloadsFilled ==
  ASSUME NEW n, NEW t, Usable(n, t), NEW p \in Clients(n), NEW r, r \notin Receiving,
         NEW k \in 0..(tSS(n, t) - 1)
  PROVE  \E th \in ClientThreads(n, t, p, r) : th.pay = k /\ th.role \in Receiving
  <1> DEFINE s == tSS(n, t)
             m == nSS(n)
             L == Last(n, t, p)
             i == IF k + 1 + s >= m THEN k ELSE k + s
  <1>1. /\ s \in Nat /\ L \in Nat /\ s <= L /\ m \in Nat
        /\ L = IF 2 * s >= m THEN m - 1 ELSE 2 * s
        /\ s < m /\ k \in Nat /\ k < s
    BY RingBound, LastSlot, SMT
  <1>2. /\ i \in 0..L /\ i < L /\ (i < s => i + 1 + s >= m)
        /\ (IF i < s THEN i ELSE i - s) = k
    BY <1>1, SMT
  <1> HIDE DEF i
  <1>3. ThreadAt(n, t, p, r, i).role \in Receiving /\ ThreadAt(n, t, p, r, i).pay = k
    BY <1>2, ReceivingAt
  <1> QED BY <1>2, <1>3, ClientThreadsAt
=============================================================================
