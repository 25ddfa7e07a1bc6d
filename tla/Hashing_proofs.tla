-------------------------- MODULE Hashing_proofs ---------------------------

(***************************************************************************)
(* Proofs about module Hashing.                                            *)
(***************************************************************************)
EXTENDS Hashing, FiniteSetTheorems, WellFoundedInduction, TLAPS

(***************************************************************************)
(* Arithmetic: the parts of the threads, and the bins of an item.          *)
(***************************************************************************)

(* What From divides, and when its result is below a bound.                *)
LEMMA DivBounds ==
  ASSUME NEW a \in Nat, NEW n \in Nat \ {0}
  PROVE  /\ a \div n \in Nat /\ n * (a \div n) <= a /\ a < n * (a \div n) + n
  BY Z3

LEMMA DivLess ==
  ASSUME NEW a \in Nat, NEW n \in Nat \ {0}, NEW q \in Int
  PROVE  /\ (a \div n) <= q <=> a < n * (q + 1)
         /\ q <= (a \div n) <=> n * q <= a
  <1> DEFINE d == a \div n
  <1>1. d \in Nat /\ n * d <= a /\ a < n * d + n
    BY DivBounds
  <1> HIDE DEF d
  <1>2. ASSUME d <= q PROVE a < n * (q + 1)
    <2>1. n * d <= n * q
      BY <1>1, <1>2, Z3
    <2>2. n * (q + 1) = n * q + n
      BY Z3
    <2> QED BY <1>1, <2>1, <2>2, Z3
  <1>3. ASSUME d > q PROVE n * (q + 1) <= a
    <2>1. n * (q + 1) <= n * d
      BY <1>1, <1>3, Z3
    <2> QED BY <1>1, <2>1, Z3
  <1>4. ASSUME q <= d PROVE n * q <= a
    <2>1. n * q <= n * d
      BY <1>1, <1>4, Z3
    <2> QED BY <1>1, <2>1, Z3
  <1>5. ASSUME q > d PROVE a < n * q
    <2>1. n * (d + 1) <= n * q
      BY <1>1, <1>5, Z3
    <2>2. n * (d + 1) = n * d + n
      BY <1>1, Z3
    <2> QED BY <1>1, <2>1, <2>2, Z3
  <1> QED BY <1>1, <1>2, <1>3, <1>4, <1>5, Z3 DEF d

(* What is known of a call.                                                *)
LEMMA CaseFacts ==
  ASSUME case \in Cases
  PROVE  /\ case.inputs \in Nat /\ case.threads \in Nat \ {0} /\ case.opt \in Nat
         /\ case.cuckoo \in (Nat \ {0}) \X (Nat \ {0})
         /\ case.simple \in (Nat \ {0}) \X (Nat \ {0})
         /\ case.hash \in [Items -> [Hashes -> Nat]]
         /\ 0 \in Threads
  BY CasesAssumption DEF Threads

LEMMA TotalNat ==
  ASSUME NEW count \in (Nat \ {0}) \X (Nat \ {0})
  PROVE  /\ count[1] \in Nat \ {0} /\ count[2] \in Nat \ {0}
         /\ Total(count) = count[1] + count[2] /\ Total(count) \in Nat \ {0}
  BY DEF Total

(* A part of the items, or of the bins, ends where the next one begins.    *)
LEMMA FromFacts ==
  ASSUME case \in Cases, NEW t \in Nat, NEW m \in Nat
  PROVE  /\ From(t, m) \in Nat
         /\ From(t, m) <= From(t + 1, m)
         /\ From(0, m) = 0 /\ From(case.threads, m) = m
         /\ t \in Threads => From(t + 1, m) <= m
         /\ \A x \in Int : /\ From(t, m) <= x <=> t * m < case.threads * (x + 1)
                           /\ x < From(t, m) <=> case.threads * (x + 1) <= t * m
  <1> DEFINE n == case.threads
  <1>1. n \in Nat \ {0}
    BY CaseFacts
  <1> HIDE DEF n
  <1>2. t * m \in Nat /\ (t + 1) * m \in Nat /\ n * m \in Nat /\ 0 * m = 0
        /\ (t + 1) * m = t * m + m
    BY <1>1, Z3
  <1>3. \A s \in Nat : From(s, m) = (s * m) \div n /\ s * m \in Nat
    BY Z3 DEF From, n
  <1>4. \A s \in Nat : From(s, m) \in Nat
    BY <1>1, <1>3, DivBounds
  <1>5. \A s \in Nat : \A x \in Int : /\ From(s, m) <= x <=> s * m < n * (x + 1)
                                      /\ x <= From(s, m) <=> n * x <= s * m
    BY <1>1, <1>3, DivLess
  <1>6. From(t, m) <= From(t + 1, m)
    <2>1. n * From(t, m) <= t * m
      BY <1>4, <1>5
    <2>2. n * From(t, m) <= (t + 1) * m
      BY <1>1, <1>2, <1>4, <2>1, Z3
    <2> QED BY <1>4, <1>5, <2>2
  <1>7. From(0, m) = 0
    <2>1. 0 * m < n * (0 + 1)
      BY <1>1, <1>2
    <2> QED BY <1>4, <1>5, <2>1
  <1>8. From(n, m) = m
    <2>1. n * m < n * (m + 1) /\ n * m <= n * m
      BY <1>1, Z3
    <2> QED BY <1>1, <1>4, <1>5, <2>1
  <1>9. ASSUME t \in Threads PROVE From(t + 1, m) <= m
    <2>1. t + 1 <= n
      BY <1>1, <1>9 DEF Threads, n
    <2>2. (t + 1) * m < n * (m + 1)
      BY <1>1, <2>1, Z3
    <2> QED BY <1>5, <2>2
  <1>10. \A x \in Int : /\ From(t, m) <= x <=> t * m < n * (x + 1)
                        /\ x < From(t, m) <=> n * (x + 1) <= t * m
    <2> TAKE x \in Int
    <2>1. x < From(t, m) <=> x + 1 <= From(t, m)
      BY <1>4
    <2> QED BY <1>5, <2>1
  <1> QED BY <1>4, <1>6, <1>7, <1>8, <1>9, <1>10 DEF n

(* Each number below m is in the part of some thread.                      *)
LEMMA FromCovers ==
  ASSUME case \in Cases, NEW m \in Nat, NEW x \in 0..(m - 1)
  PROVE  \E t \in Threads : From(t, m) <= x /\ x < From(t + 1, m)
  <1> DEFINE n == case.threads
             t == ((x + 1) * n - 1) \div m
  <1>1. n \in Nat \ {0} /\ m \in Nat \ {0} /\ x \in Nat /\ x + 1 <= m
    BY CaseFacts
  <1> HIDE DEF n
  <1>2. (x + 1) * n - 1 \in Nat /\ (x + 1) * n = n * (x + 1)
    BY <1>1, Z3
  <1>3. t \in Nat /\ m * t <= (x + 1) * n - 1 /\ (x + 1) * n - 1 < m * t + m
    BY <1>1, <1>2, DivBounds
  <1> HIDE DEF t
  <1>4. m * t = t * m /\ (t + 1) * m = t * m + m
    BY <1>1, <1>3, Z3
  <1>5. t * m < n * (x + 1) /\ n * (x + 1) <= (t + 1) * m
    BY <1>1, <1>2, <1>3, <1>4, Z3
  <1>6. t <= n - 1
    <2>1. n * (x + 1) <= n * m
      BY <1>1, Z3
    <2>2. ASSUME t >= n PROVE FALSE
      <3>1. n * m <= t * m
        BY <1>1, <1>3, <2>2, Z3
      <3> QED BY <1>1, <1>3, <1>5, <2>1, <3>1, Z3
    <2> QED BY <1>1, <1>3, <2>2
  <1>7. t \in Threads /\ t + 1 \in Nat
    BY <1>1, <1>3, <1>6 DEF Threads, n
  <1>8. \A s \in Nat : /\ From(s, m) <= x <=> s * m < n * (x + 1)
                       /\ x < From(s, m) <=> n * (x + 1) <= s * m
    BY <1>1, FromFacts DEF n
  <1>9. From(t, m) <= x /\ x < From(t + 1, m)
    BY <1>3, <1>5, <1>7, <1>8
  <1> QED BY <1>7, <1>9

(* Only in that of one.                                                    *)
LEMMA FromApart ==
  ASSUME case \in Cases, NEW m \in Nat, NEW x \in Int, NEW t \in Threads, NEW u \in Threads,
         From(t, m) <= x, x < From(t + 1, m), From(u, m) <= x, x < From(u + 1, m)
  PROVE  t = u
  <1>1. case.threads \in Nat \ {0} /\ t \in Nat /\ u \in Nat
    BY CaseFacts DEF Threads
  <1>2. \A s \in Nat : /\ From(s, m) <= x <=> s * m < case.threads * (x + 1)
                       /\ x < From(s, m) <=> case.threads * (x + 1) <= s * m
    BY FromFacts
  <1>3. /\ t * m < (u + 1) * m
        /\ u * m < (t + 1) * m
    <2>1. t * m < case.threads * (x + 1) /\ case.threads * (x + 1) <= (u + 1) * m
      BY <1>1, <1>2
    <2>2. u * m < case.threads * (x + 1) /\ case.threads * (x + 1) <= (t + 1) * m
      BY <1>1, <1>2
    <2> QED BY <1>1, <2>1, <2>2, Z3
  <1>4. t < u + 1 /\ u < t + 1
    <2>1. ASSUME u + 1 <= t PROVE FALSE
      <3>1. (u + 1) * m <= t * m
        BY <1>1, <2>1, Z3
      <3> QED BY <1>1, <1>3, <3>1, Z3
    <2>2. ASSUME t + 1 <= u PROVE FALSE
      <3>1. (t + 1) * m <= u * m
        BY <1>1, <2>2, Z3
      <3> QED BY <1>1, <1>3, <3>1, Z3
    <2> QED BY <1>1, <2>1, <2>2
  <1> QED BY <1>1, <1>4

LEMMA SizeFacts ==
  /\ mN \in Nat /\ batchSize \in Nat \ {0} /\ TryLimit \in Nat \ {0}
  /\ numHashes[1] \in Nat \ {0} /\ numHashes[2] \in Nat \ {0}
  /\ Items \subseteq Nat /\ Hashes \subseteq Nat
  /\ \A kind \in 1..2 : \A k \in 0..(numHashes[kind] - 1) : k \in Hashes
  BY SizesAssumption DEF Items, Hashes

(* A hash gives a bin of its own table: main bins first, then the stash.   *)
LEMMA AddrFacts ==
  ASSUME case \in Cases, NEW count \in (Nat \ {0}) \X (Nat \ {0}),
         NEW kind \in 1..2, NEW x \in Items, NEW k \in Nat, k < numHashes[kind]
  PROVE  /\ Addr(count, kind, x, k) \in NumberOf(count)
         /\ Addr(count, kind, x, k) < count[1] <=> kind = 1
  <1>1. case.hash[x][k] \in Nat
    <2>1. k \in Hashes
      BY SizeFacts
    <2> QED BY <2>1, CaseFacts
  <1>2. count[kind] \in Nat \ {0} /\ count[1] \in Nat \ {0} /\ count[2] \in Nat \ {0}
    OBVIOUS
  <1>3. case.hash[x][k] % count[kind] \in 0..(count[kind] - 1)
    BY <1>1, <1>2
  <1>4. CASE kind = 1
    BY <1>2, <1>3, <1>4 DEF Addr, NumberOf, Total
  <1>5. CASE kind = 2
    BY <1>2, <1>3, <1>5 DEF Addr, NumberOf, Total
  <1> QED BY <1>4, <1>5

(***************************************************************************)
(* The least number principle, which takes the place of induction.         *)
(***************************************************************************)
LEMMA LeastNat ==
  ASSUME NEW T \in SUBSET Nat, T # {}
  PROVE  \E x \in T : \A y \in T : x <= y
  <1> DEFINE F == {0..x : x \in T}
             R == StrictSubsetOrdering(Nat)
  <1>1. IsWellFoundedOn(R, FiniteSubsetsOf(Nat))
    BY FS_StrictSubsetOrderingWellFounded
  <1>2. F \subseteq FiniteSubsetsOf(Nat) /\ F # {}
    <2>1. \A x \in T : 0..x \in SUBSET Nat /\ IsFiniteSet(0..x)
      BY FS_Interval
    <2> QED BY <2>1 DEF FiniteSubsetsOf
  <1>3. PICK U \in F : \A V \in F : ~ (<<V, U>> \in R)
    <2> HIDE DEF F, R
    <2> QED BY <1>1, <1>2, WFMin
  <1>4. PICK x \in T : U = 0..x
    OBVIOUS
  <1>5. ASSUME NEW y \in T, ~ (x <= y) PROVE FALSE
    <2>1. y < x /\ y \in Nat /\ x \in Nat
      BY <1>5
    <2>2. x \in 0..x /\ x \notin 0..y
      BY <2>1
    <2>3. 0..y \in SUBSET Nat /\ 0..x \in SUBSET Nat /\ 0..y \subseteq 0..x /\ 0..y # 0..x
      BY <2>1, <2>2
    <2>4. <<0..y, U>> \in R
      BY <1>4, <2>3 DEF StrictSubsetOrdering
    <2> QED BY <1>3, <2>4
  <1> QED BY <1>5

(* A set of numbers up to m that has 0, and the successor of each of its   *)
(* members below m, has them all.                                          *)
LEMMA UpTo ==
  ASSUME NEW m \in Nat, NEW G, 0 \in G, \A i \in 0..(m - 1) : i \in G => i + 1 \in G
  PROVE  0..m \subseteq G
  <1> DEFINE B == {i \in 0..m : i \notin G}
  <1> SUFFICES ASSUME B # {} PROVE FALSE
    OBVIOUS
  <1>1. PICK x \in B : \A y \in B : x <= y
    <2>1. B \in SUBSET Nat
      OBVIOUS
    <2> HIDE DEF B
    <2> QED BY <2>1, LeastNat
  <1>2. x - 1 \in 0..(m - 1) /\ x - 1 \notin B
    BY <1>1
  <1> QED BY <1>1, <1>2

(***************************************************************************)
(* What Evicted returns: the places that were not empty, in some one-to-   *)
(* one correspondence with those of the result.                            *)
(***************************************************************************)
KeptStep(old, f, i) ==
  IF i = 0 THEN << >> ELSE IF old[i] = Empty THEN f[i - 1] ELSE Append(f[i - 1], old[i])

Matches(old, n, kept, place) ==
  /\ place \in [1..Len(kept) -> 1..n]
  /\ \A i \in 1..Len(kept) : kept[i] = old[place[i]] /\ old[place[i]] # Empty
  /\ \A i, j \in 1..Len(kept) : place[i] = place[j] => i = j
  /\ \A l \in 1..n : old[l] # Empty => \E i \in 1..Len(kept) : place[i] = l

Listing(old, n, kept) ==
  /\ kept \in Seq(Items \X Nat) /\ Len(kept) <= n
  /\ \E place : Matches(old, n, kept, place)

(* The recursive function that Evicted uses is defined.                    *)
LEMMA KeptExists ==
  ASSUME NEW old, NEW n \in Nat
  PROVE  \E f : f = [i \in 0..n |-> KeptStep(old, f, i)]
  <1> DEFINE Good(m) == \E f : f = [i \in 0..m |-> KeptStep(old, f, i)]
             G == {m \in 0..n : Good(m)}
  <1>1. Good(0)
    <2>1. [i \in 0..0 |-> << >>] = [i \in 0..0 |-> KeptStep(old, [j \in 0..0 |-> << >>], i)]
      BY DEF KeptStep
    <2> QED BY <2>1
  <1>2. ASSUME NEW m \in 0..(n - 1), Good(m) PROVE Good(m + 1)
    <2>1. PICK f : f = [i \in 0..m |-> KeptStep(old, f, i)]
      BY <1>2
    <2> DEFINE g == [i \in 0..(m + 1) |-> IF i = m + 1 THEN KeptStep(old, f, i) ELSE f[i]]
    <2>2. ASSUME NEW i \in 0..(m + 1) PROVE g[i] = KeptStep(old, g, i)
      <3>1. i # 0 => g[i - 1] = f[i - 1]
        BY <1>2
      <3>2. KeptStep(old, g, i) = KeptStep(old, f, i)
        <4> HIDE DEF g
        <4> QED BY <3>1 DEF KeptStep
      <3>3. i # m + 1 => f[i] = KeptStep(old, f, i)
        <4>1. i # m + 1 => i \in 0..m
          BY <1>2
        <4> QED BY <2>1, <4>1
      <3> QED BY <3>2, <3>3
    <2>3. g = [i \in 0..(m + 1) |-> KeptStep(old, g, i)]
      BY <2>2
    <2> QED BY <2>3
  <1> HIDE DEF Good
  <1>3. 0 \in G /\ \A m \in 0..(n - 1) : m \in G => m + 1 \in G
    BY <1>1, <1>2
  <1>4. n \in G
    <2> HIDE DEF G
    <2>1. 0..n \subseteq G
      BY <1>3, UpTo
    <2> QED BY <2>1
  <1> QED BY <1>4 DEF Good

(* One more place of old is gone through.                                  *)
LEMMA ListingNext ==
  ASSUME NEW old \in Seq(Slot), NEW n \in Nat, n < Len(old), NEW kept, Listing(old, n, kept)
  PROVE  Listing(old, n + 1, IF old[n + 1] = Empty THEN kept ELSE Append(kept, old[n + 1]))
  <1>1. /\ kept \in Seq(Items \X Nat) /\ Len(kept) <= n /\ Len(kept) \in Nat
        /\ n + 1 \in 1..Len(old) /\ old[n + 1] \in Slot
    BY DEF Listing
  <1>2. PICK place : Matches(old, n, kept, place)
    BY DEF Listing
  <1>3. CASE old[n + 1] = Empty
    <2>1. place \in [1..Len(kept) -> 1..(n + 1)] /\ Len(kept) <= n + 1
      BY <1>1, <1>2 DEF Matches
    <2>2. \A l \in 1..(n + 1) : old[l] # Empty => \E i \in 1..Len(kept) : place[i] = l
      BY <1>2, <1>3 DEF Matches
    <2>3. Matches(old, n + 1, kept, place)
      BY <1>2, <2>1, <2>2 DEF Matches
    <2> QED BY <1>1, <1>3, <2>1, <2>3 DEF Listing
  <1>4. CASE old[n + 1] # Empty
    <2> DEFINE k == Append(kept, old[n + 1])
               m == Len(kept) + 1
               p == [i \in 1..m |-> IF i = m THEN n + 1 ELSE place[i]]
    <2>1. old[n + 1] \in Items \X Nat
      BY <1>1, <1>4 DEF Slot
    <2>2. /\ k \in Seq(Items \X Nat) /\ Len(k) = m /\ m <= n + 1 /\ m \in Nat
          /\ k[m] = old[n + 1] /\ \A i \in 1..Len(kept) : k[i] = kept[i]
      BY <1>1, <2>1
    <2> HIDE DEF k
    <2>3. \A i \in 1..m : i = m \/ i \in 1..Len(kept)
      BY <1>1
    <2>4. \A i \in 1..Len(kept) : place[i] \in 1..n /\ i \in 1..m /\ i # m
      BY <1>1, <1>2 DEF Matches
    <2>5. p[m] = n + 1 /\ \A i \in 1..Len(kept) : p[i] = place[i]
      BY <1>1, <2>4
    <2>6. p \in [1..m -> 1..(n + 1)]
      BY <1>1, <2>3, <2>4
    <2> HIDE DEF p, m
    <2>7. \A i \in 1..m : k[i] = old[p[i]] /\ old[p[i]] # Empty
      BY <1>2, <1>4, <2>2, <2>3, <2>5 DEF Matches
    <2>8. \A i, j \in 1..m : p[i] = p[j] => i = j
      <3>1. \A i \in 1..Len(kept) : p[i] # p[m]
        BY <1>1, <2>4, <2>5
      <3>2. \A i, j \in 1..Len(kept) : p[i] = p[j] => i = j
        BY <1>2, <2>5 DEF Matches
      <3> QED BY <2>3, <3>1, <3>2
    <2>9. \A l \in 1..(n + 1) : old[l] # Empty => \E i \in 1..m : p[i] = l
      <3>1. TAKE l \in 1..(n + 1)
      <3>2. CASE l = n + 1
        BY <2>2, <2>5, <3>2 DEF m
      <3>3. CASE l # n + 1
        <4>1. l \in 1..n
          BY <3>3
        <4>2. \A i \in 1..Len(kept) : i \in 1..m
          BY <1>1 DEF m
        <4> QED BY <1>2, <2>5, <4>1, <4>2 DEF Matches
      <3> QED BY <3>2, <3>3
    <2>10. Matches(old, n + 1, k, p)
      BY <2>2, <2>6, <2>7, <2>8, <2>9 DEF Matches
    <2> QED BY <1>4, <2>2, <2>10 DEF Listing, k
  <1> QED BY <1>3, <1>4

(* Evicted keeps the entries that were not empty, each once.               *)
LEMMA EvictedListed ==
  ASSUME NEW old \in Seq(Slot)
  PROVE  Listing(old, Len(old), Evicted(old))
  <1> DEFINE n == Len(old)
             kept == CHOOSE f : f = [i \in 0..n |-> KeptStep(old, f, i)]
  <1>1. n \in Nat
    OBVIOUS
  <1>2. kept = [i \in 0..n |-> KeptStep(old, kept, i)]
    BY <1>1, KeptExists
  <1>3. Evicted(old) = kept[n]
    BY DEF Evicted, KeptStep
  <1> HIDE DEF kept
  <1> DEFINE G == {i \in 0..n : Listing(old, i, kept[i])}
  <1>4. Listing(old, 0, kept[0])
    <2>1. kept[0] = << >>
      BY <1>1, <1>2 DEF KeptStep
    <2>2. << >> \in Seq(Items \X Nat) /\ Len(<< >>) = 0
      OBVIOUS
    <2>3. Matches(old, 0, << >>, [i \in 1..0 |-> 0])
      BY <2>2 DEF Matches
    <2> QED BY <2>1, <2>2, <2>3 DEF Listing
  <1>5. ASSUME NEW i \in 0..(n - 1), Listing(old, i, kept[i]) PROVE Listing(old, i + 1, kept[i + 1])
    <2>1. kept[i + 1] = IF old[i + 1] = Empty THEN kept[i] ELSE Append(kept[i], old[i + 1])
      <3>1. i + 1 \in 0..n /\ i + 1 # 0 /\ (i + 1) - 1 = i
        BY <1>1
      <3>2. kept[i + 1] = KeptStep(old, kept, i + 1)
        BY <1>2, <3>1
      <3> QED BY <3>1, <3>2 DEF KeptStep
    <2> QED BY <1>1, <1>5, <2>1, ListingNext
  <1>6. 0 \in G /\ \A i \in 0..(n - 1) : i \in G => i + 1 \in G
    BY <1>1, <1>4, <1>5
  <1>7. n \in G
    <2> HIDE DEF G
    <2>1. 0..n \subseteq G
      BY <1>1, <1>6, UpTo
    <2> QED BY <1>1, <2>1
  <1> QED BY <1>3, <1>7

(***************************************************************************)
(* What a thread works on.                                                 *)
(***************************************************************************)
LEMMA FreshOK ==
  ASSUME NEW kind \in 1..2, NEW idxs \in Seq(Items), NEW place \in AllStops \ {"write", "sort"},
         place = "read" => idxs # << >>
  PROVE  /\ HandOK(Fresh(kind, idxs), place)
         /\ Fresh(kind, idxs).kind = kind /\ Fresh(kind, idxs).idxs = idxs
         /\ Fresh(kind, idxs).old = << >>
  <1> DEFINE h == Fresh(kind, idxs)
  <1>1. /\ h.kind = kind /\ h.idxs = idxs /\ h.hashes = [i \in DOMAIN idxs |-> 0]
        /\ h.old = << >> /\ h.tries = 1
    BY DEF Fresh
  <1>2. /\ h.hashes \in Seq(Nat) /\ Len(h.hashes) = Len(idxs) /\ Len(idxs) \in Nat
        /\ \A i \in DOMAIN h.hashes : h.hashes[i] = 0
    BY <1>1
  <1>3. h \in Workspace
    <2>1. h.tries \in 0..TryLimit /\ h.old \in Seq(Slot)
      BY <1>1, SizeFacts
    <2> QED BY <1>1, <1>2, <2>1 DEF Fresh, Workspace, Slot
  <1>4. numHashes[kind] > 0
    BY SizeFacts
  <1>5. place = "read" => Len(idxs) > 0
    OBVIOUS
  <1> HIDE DEF h
  <1>6. HandOK(h, place)
    BY <1>1, <1>2, <1>3, <1>4, <1>5 DEF HandOK
  <1> QED BY <1>1, <1>6 DEF h

(* The items of a batch lie in the part of its thread.                     *)
LEMMA BatchFacts ==
  ASSUME TypeInv, NEW t \in Threads, next[t] < From(t + 1, mN)
  PROVE  /\ Batch(t) \subseteq Items
         /\ Cardinality(Batch(t)) \in Nat \ {0}
         /\ Batch(t) = next[t]..(next[t] + Cardinality(Batch(t)) - 1)
         /\ next[t] + Cardinality(Batch(t)) \in From(t, mN)..From(t + 1, mN)
         /\ [i \in 1..Cardinality(Batch(t)) |-> next[t] + i - 1] \in Seq(Items)
  <1> DEFINE a == next[t]
             e == From(t + 1, mN)
             c == Cardinality(Batch(t))
  <1>1. /\ mN \in Nat /\ batchSize \in Nat \ {0} /\ t \in Nat
        /\ e \in Nat /\ e <= mN /\ From(t, mN) \in Nat
    <2>1. t \in Nat /\ t + 1 \in Nat
      BY CaseFacts DEF TypeInv, Threads
    <2> QED BY <2>1, SizeFacts, FromFacts DEF TypeInv
  <1>2. a \in Nat /\ From(t, mN) <= a /\ a < e
    BY <1>1 DEF TypeInv
  <1> DEFINE z == IF a + batchSize < e THEN a + batchSize - 1 ELSE e - 1
  <1>3. Batch(t) = a..z
    BY DEF Batch
  <1>4. z \in Nat /\ a <= z /\ z < e
    BY <1>1, <1>2
  <1> HIDE DEF z, e
  <1>5. c = z - a + 1
    BY <1>2, <1>3, <1>4, FS_Interval
  <1>6. c \in Nat \ {0} /\ a + c - 1 = z /\ a + c <= e
    BY <1>1, <1>2, <1>4, <1>5
  <1>7. a..z \subseteq Items
    BY <1>1, <1>2, <1>4 DEF Items
  <1> HIDE DEF c
  <1>8. [i \in 1..c |-> a + i - 1] \in Seq(Items)
    <2>1. \A i \in 1..c : a + i - 1 \in a..z
      BY <1>2, <1>4, <1>6
    <2> QED BY <1>6, <1>7, <2>1
  <1> QED BY <1>1, <1>2, <1>3, <1>6, <1>7, <1>8 DEF c, e

(* The bin whose turn it is.                                               *)
LEMMA BinFacts ==
  ASSUME TypeInv, NEW t \in Threads, pc[t] \in {"read", "write"}
  PROVE  /\ Turn(t) \in 1..Len(w[t].idxs)
         /\ pc[t] = "write" => Turn(t) = Len(w[t].old)
         /\ pc[t] = "read"  => Turn(t) = Len(w[t].old) + 1
         /\ w[t].idxs[Turn(t)] \in Items /\ w[t].hashes[Turn(t)] \in Nat
         /\ w[t].hashes[Turn(t)] < numHashes[w[t].kind]
         /\ Bin(t) \in DOMAIN cuckoo /\ KindOf(Bin(t)) = w[t].kind
         /\ Bin(t) = Addr(case.cuckoo, w[t].kind, w[t].idxs[Turn(t)], w[t].hashes[Turn(t)])
  <1>1. HandOK(w[t], pc[t]) /\ case \in Cases /\ DOMAIN cuckoo = NumberOf(case.cuckoo)
    BY DEF TypeInv
  <1>2. /\ w[t].kind \in 1..2 /\ w[t].idxs \in Seq(Items) /\ w[t].hashes \in Seq(Nat)
        /\ w[t].old \in Seq(Slot) /\ Len(w[t].hashes) = Len(w[t].idxs)
        /\ Len(w[t].old) <= Len(w[t].idxs)
    BY <1>1 DEF HandOK, Workspace, Slot
  <1>3. /\ pc[t] = "write" => Turn(t) = Len(w[t].old)
        /\ pc[t] = "read"  => Turn(t) = Len(w[t].old) + 1
    BY DEF Turn
  <1>4. /\ pc[t] = "read"  => Len(w[t].old) < Len(w[t].idxs)
        /\ pc[t] = "write" => Len(w[t].old) > 0
    BY <1>1 DEF HandOK
  <1>5. Turn(t) \in 1..Len(w[t].idxs)
    BY <1>2, <1>3, <1>4
  <1>6. w[t].idxs[Turn(t)] \in Items /\ w[t].hashes[Turn(t)] \in Nat
    BY <1>2, <1>5
  <1>7. w[t].hashes[Turn(t)] < numHashes[w[t].kind]
    BY <1>1, <1>2, <1>5 DEF HandOK
  <1>8. Bin(t) = Addr(case.cuckoo, w[t].kind, w[t].idxs[Turn(t)], w[t].hashes[Turn(t)])
    BY DEF Bin
  <1> HIDE DEF TypeInv
  <1>9. /\ Bin(t) \in NumberOf(case.cuckoo)
        /\ Bin(t) < case.cuckoo[1] <=> w[t].kind = 1
    <2> DEFINE kind == w[t].kind
               x == w[t].idxs[Turn(t)]
               k == w[t].hashes[Turn(t)]
    <2>1. case.cuckoo \in (Nat \ {0}) \X (Nat \ {0})
      BY <1>1, CaseFacts
    <2>2. kind \in 1..2 /\ x \in Items /\ k \in Nat /\ k < numHashes[kind]
      BY <1>2, <1>6, <1>7
    <2> HIDE DEF kind, x, k
    <2>3. /\ Addr(case.cuckoo, kind, x, k) \in NumberOf(case.cuckoo)
          /\ Addr(case.cuckoo, kind, x, k) < case.cuckoo[1] <=> kind = 1
      BY <1>1, <2>1, <2>2, AddrFacts
    <2> QED BY <1>8, <2>3 DEF kind, x, k
  <1> QED BY <1>1, <1>2, <1>3, <1>5, <1>6, <1>7, <1>8, <1>9 DEF KindOf

(* The items a thread goes on with.                                        *)
LEMMA RestFacts ==
  ASSUME TypeInv, NEW t \in Threads
  PROVE  /\ Rest(t) \in Seq(Items \X Nat) /\ Len(Rest(t)) <= Len(w[t].old)
         /\ \E place : Matches(w[t].old, Len(w[t].old), Rest(t), place)
         /\ \A i \in 1..Len(Rest(t)) : /\ Rest(t)[i] \in Items \X Nat
                                       /\ Rest(t)[i][2] < numHashes[w[t].kind]
         /\ [i \in DOMAIN Rest(t) |-> Rest(t)[i][1]] \in Seq(Items)
         /\ Len([i \in DOMAIN Rest(t) |-> Rest(t)[i][1]]) = Len(Rest(t))
  <1> DEFINE old == w[t].old
             r == Rest(t)
  <1>1. HandOK(w[t], pc[t]) /\ old \in Seq(Slot)
    BY DEF TypeInv, HandOK, Workspace, Slot
  <1>2. Listing(old, Len(old), r)
    BY <1>1, EvictedListed DEF Rest
  <1> HIDE DEF r
  <1>3. r \in Seq(Items \X Nat) /\ Len(r) <= Len(old)
    BY <1>2 DEF Listing
  <1>4. PICK place : Matches(old, Len(old), r, place)
    BY <1>2 DEF Listing
  <1>5. \A i \in 1..Len(r) : r[i] \in Items \X Nat /\ r[i][2] < numHashes[w[t].kind]
    <2>1. TAKE i \in 1..Len(r)
    <2>2. r[i] = old[place[i]] /\ old[place[i]] # Empty /\ place[i] \in DOMAIN old
      BY <1>1, <1>4, <2>1 DEF Matches
    <2> QED BY <1>1, <1>3, <2>2 DEF HandOK
  <1>6. [i \in DOMAIN r |-> r[i][1]] \in Seq(Items) /\ Len([i \in DOMAIN r |-> r[i][1]]) = Len(r)
    BY <1>3, <1>5
  <1> QED BY <1>3, <1>4, <1>5, <1>6 DEF r

(***************************************************************************)
(* The type invariant.                                                     *)
(***************************************************************************)
LEMMA SameCase ==
  ASSUME case' = case
  PROVE  /\ Threads' = Threads /\ \A t, m : From(t, m)' = From(t, m)
         /\ \A b : KindOf(b)' = KindOf(b)
         /\ \A x, b : Listed(x, b)' = Listed(x, b)
  BY DEF Threads, From, KindOf, Listed, Entries, Addr

(* A step of thread t to a workspace that fits its place.                  *)
LEMMA HandStep ==
  ASSUME TypeInv, case' = case, NEW t \in Threads, NEW h, NEW place \in AllStops,
         HandOK(h, place), w' = [w EXCEPT ![t] = h], pc' = [pc EXCEPT ![t] = place]
  PROVE  /\ w' \in [Threads -> Workspace] /\ pc' \in [Threads -> AllStops]
         /\ \A u \in Threads : HandOK(w'[u], pc'[u])
  <1>1. h \in Workspace
    BY DEF HandOK
  <1>2. /\ w \in [Threads -> Workspace] /\ pc \in [Threads -> AllStops]
        /\ \A u \in Threads : HandOK(w[u], pc[u])
    BY DEF TypeInv
  <1>3. w'[t] = h /\ pc'[t] = place /\ \A u \in Threads \ {t} : w'[u] = w[u] /\ pc'[u] = pc[u]
    BY <1>2
  <1>4. \A u \in Threads : HandOK(w'[u], pc'[u])
    BY <1>2, <1>3
  <1> QED BY <1>1, <1>2, <1>4

(* A step of thread t that leaves its workspace.                           *)
LEMMA PlaceStep ==
  ASSUME TypeInv, case' = case, NEW t \in Threads, NEW place \in AllStops \ Hand,
         w' = w, pc' = [pc EXCEPT ![t] = place]
  PROVE  /\ w' \in [Threads -> Workspace] /\ pc' \in [Threads -> AllStops]
         /\ \A u \in Threads : HandOK(w'[u], pc'[u])
  <1>1. w \in [Threads -> Workspace] /\ HandOK(w[t], pc[t])
    BY DEF TypeInv
  <1>2. HandOK(w[t], place)
    BY <1>1 DEF HandOK, Hand
  <1>3. w' = [w EXCEPT ![t] = w[t]]
    BY <1>1
  <1> QED BY <1>2, <1>3, HandStep

LEMMA TypeInit == Init => TypeInv
  <1> SUFFICES ASSUME Init PROVE TypeInv
    OBVIOUS
  <1>1. case \in Cases /\ case.threads \in Nat \ {0} /\ mN \in Nat
    BY CaseFacts, SizeFacts DEF Init
  <1>2. \A t \in Threads : t \in Nat
    BY <1>1 DEF Threads
  <1>3. \A t \in Threads : From(t, mN) \in Nat /\ From(t, mN) <= From(t + 1, mN) /\ From(t + 1, mN) \in Nat
    <2>1. TAKE t \in Threads
    <2>2. t \in Nat /\ t + 1 \in Nat
      BY <1>2
    <2> QED BY <1>1, <2>2, FromFacts
  <1>4. next \in [Threads -> Nat] /\ \A t \in Threads : next[t] \in From(t, mN)..From(t + 1, mN)
    BY <1>3 DEF Init
  <1>5. pc \in [Threads -> AllStops] /\ \A t \in Threads : pc[t] = "batch"
    BY DEF Init, AllStops
  <1>6. \A t \in Threads : w[t] \in Workspace /\ HandOK(w[t], "batch")
    <2>1. TAKE t \in Threads
    <2>2. w[t] = [kind |-> 1, idxs |-> << >>, hashes |-> << >>, old |-> << >>, tries |-> 0]
      BY DEF Init
    <2>3. << >> \in Seq(Items) /\ << >> \in Seq(Nat) /\ << >> \in Seq({Empty} \cup (Items \X Nat))
      OBVIOUS
    <2>4. w[t] \in Workspace
      BY <2>2, <2>3, SizeFacts DEF Workspace
    <2> QED BY <2>2, <2>4 DEF HandOK
  <1>7. w \in [Threads -> Workspace] /\ \A t \in Threads : HandOK(w[t], pc[t])
    <2>1. w = [t \in Threads |-> w[t]]
      BY DEF Init
    <2> QED BY <1>5, <1>6, <2>1
  <1>8. simple \in [NumberOf(case.simple) -> SUBSET (Items \X Hashes)]
    BY DEF Init, NumberOf
  <1>9. /\ cuckoo \in [NumberOf(case.cuckoo) -> Slot]
        /\ \A b \in DOMAIN cuckoo : cuckoo[b] # Empty => cuckoo[b][2] < numHashes[KindOf(b)]
    BY DEF Init, NumberOf, Slot
  <1>10. /\ mStashIdxs \in Seq(Items) /\ roomy \in [cuckoo : SUBSET Nat, simple : SUBSET Nat]
         /\ raced \in BOOLEAN /\ stage = "called"
    <2>1. << >> \in Seq(Items) /\ {} \in SUBSET Nat
      OBVIOUS
    <2> QED BY <2>1 DEF Init
  <1> QED BY <1>1, <1>4, <1>5, <1>7, <1>8, <1>9, <1>10 DEF TypeInv

(* Each action keeps the type invariant.                                   *)
LEMMA TypeNext ==
  ASSUME TypeInv, [Next]_vars
  PROVE  TypeInv'
  <1> USE DEF At, Goes
  <1>1. CASE UNCHANGED vars
    BY <1>1, SameCase DEF TypeInv, vars, bins, counts
  <1>2. ASSUME Start \/ Join PROVE TypeInv'
    BY <1>2, SameCase DEF TypeInv, Start, Join, bins, counts
  <1>3. ASSUME NEW t \in Threads, InsertSimple(t) PROVE TypeInv'
    <2> DEFINE c == Cardinality(Batch(t))
               idxs == [i \in 1..c |-> next[t] + i - 1]
               h == Fresh(1, idxs)
    <2>1. /\ Batch(t) \subseteq Items /\ c \in Nat \ {0} /\ idxs \in Seq(Items)
          /\ next[t] + c \in From(t, mN)..From(t + 1, mN)
      BY <1>3, BatchFacts DEF InsertSimple
    <2>2. idxs # << >>
      BY <2>1
    <2> HIDE DEF c, idxs
    <2>3. HandOK(h, "read")
      BY <2>1, <2>2, FreshOK DEF AllStops, Hand
    <2>4. w' = [w EXCEPT ![t] = h] /\ pc' = [pc EXCEPT ![t] = "read"] /\ case' = case
      BY <1>3 DEF InsertSimple, c, idxs
    <2> HIDE DEF h
    <2>5. /\ w' \in [Threads -> Workspace] /\ pc' \in [Threads -> AllStops]
          /\ \A u \in Threads : HandOK(w'[u], pc'[u])
      BY <2>3, <2>4, HandStep DEF AllStops, Hand
    <2>6. simple' \in [NumberOf(case.simple) -> SUBSET (Items \X Hashes)]
      <3>1. \A x \in Items : \A b : Listed(x, b) \subseteq Items \X Hashes
        <4>1. \A x, b : Entries(x, b) \subseteq Hashes
          BY SizeFacts DEF Entries, Hashes
        <4> QED BY <4>1 DEF Listed
      <3>2. simple' = [b \in DOMAIN simple |-> simple[b] \cup UNION {Listed(x, b) : x \in Batch(t)}]
        BY <1>3 DEF InsertSimple
      <3>3. simple \in [NumberOf(case.simple) -> SUBSET (Items \X Hashes)]
        BY DEF TypeInv
      <3>4. \A b \in NumberOf(case.simple) :
              simple[b] \cup UNION {Listed(x, b) : x \in Batch(t)} \in SUBSET (Items \X Hashes)
        BY <2>1, <3>1, <3>3
      <3> QED BY <3>2, <3>3, <3>4
    <2>7. next' \in [Threads -> Nat] /\ \A u \in Threads : next'[u] \in From(u, mN)..From(u + 1, mN)
      <3>1. next' = [next EXCEPT ![t] = next[t] + c]
        BY <1>3 DEF InsertSimple, c
      <3>2. /\ next \in [Threads -> Nat]
            /\ \A u \in Threads : next[u] \in From(u, mN)..From(u + 1, mN)
        BY DEF TypeInv
      <3> QED BY <2>1, <3>1, <3>2
    <2>8. UNCHANGED <<stage, cuckoo, mStashIdxs, roomy, raced>>
      BY <1>3 DEF InsertSimple
    <2> QED BY <2>4, <2>5, <2>6, <2>7, <2>8, SameCase DEF TypeInv
  <1>4. ASSUME NEW t \in Threads, Read(t) PROVE TypeInv'
    <2> DEFINE h == [w[t] EXCEPT !.old = Append(@, cuckoo[Bin(t)])]
    <2>1. /\ Turn(t) \in 1..Len(w[t].idxs) /\ Turn(t) = Len(w[t].old) + 1
          /\ Bin(t) \in DOMAIN cuckoo /\ KindOf(Bin(t)) = w[t].kind
      BY <1>4, BinFacts DEF Read
    <2>2. HandOK(w[t], "read")
      BY <1>4 DEF TypeInv, Read
    <2>3. HandOK(h, "write")
      <3>1. w[t] \in Workspace /\ w[t].old \in Seq(Slot)
        BY <2>2 DEF HandOK, Workspace, Slot
      <3>2. cuckoo[Bin(t)] \in Slot
        BY <2>1 DEF TypeInv
      <3>3. cuckoo[Bin(t)] # Empty => cuckoo[Bin(t)][2] < numHashes[w[t].kind]
        BY <2>1 DEF TypeInv
      <3>4. /\ h.kind = w[t].kind /\ h.idxs = w[t].idxs /\ h.hashes = w[t].hashes
            /\ h.old = Append(w[t].old, cuckoo[Bin(t)])
        BY <3>1 DEF Workspace
      <3>5. /\ h.old \in Seq(Slot) /\ Len(h.old) = Len(w[t].old) + 1 /\ Len(w[t].old) \in Nat
            /\ h.old[Len(w[t].old) + 1] = cuckoo[Bin(t)]
            /\ \A i \in 1..Len(w[t].old) : h.old[i] = w[t].old[i]
        BY <3>1, <3>2, <3>4
      <3>6. h \in Workspace
        BY <3>1, <3>4, <3>5 DEF Workspace, Slot
      <3> HIDE DEF h
      <3>7. \A i \in DOMAIN h.old : h.old[i] # Empty => h.old[i][2] < numHashes[h.kind]
        <4>1. TAKE i \in DOMAIN h.old
        <4>2. i = Len(w[t].old) + 1 \/ i \in DOMAIN w[t].old
          BY <3>1, <3>5
        <4> QED BY <2>2, <3>1, <3>3, <3>4, <3>5, <4>2 DEF HandOK
      <3> QED BY <2>1, <2>2, <3>4, <3>5, <3>6, <3>7 DEF HandOK
    <2>4. w' = [w EXCEPT ![t] = h] /\ pc' = [pc EXCEPT ![t] = "write"] /\ case' = case
      BY <1>4 DEF Read
    <2> HIDE DEF h
    <2>5. /\ w' \in [Threads -> Workspace] /\ pc' \in [Threads -> AllStops]
          /\ \A u \in Threads : HandOK(w'[u], pc'[u])
      BY <2>3, <2>4, HandStep DEF AllStops, Hand
    <2>6. UNCHANGED <<stage, simple, cuckoo, mStashIdxs, next, roomy>> /\ raced' \in BOOLEAN
      BY <1>4 DEF Read, bins, TypeInv
    <2> QED BY <2>4, <2>5, <2>6, SameCase DEF TypeInv
  <1>5. ASSUME NEW t \in Threads, Write(t) PROVE TypeInv'
    <2> DEFINE place == IF Turn(t) = Len(w[t].idxs) THEN "sort" ELSE "read"
               v == <<w[t].idxs[Turn(t)], w[t].hashes[Turn(t)]>>
    <2>1. /\ Turn(t) \in 1..Len(w[t].idxs) /\ Turn(t) = Len(w[t].old)
          /\ w[t].idxs[Turn(t)] \in Items /\ w[t].hashes[Turn(t)] \in Nat
          /\ w[t].hashes[Turn(t)] < numHashes[w[t].kind]
          /\ Bin(t) \in DOMAIN cuckoo /\ KindOf(Bin(t)) = w[t].kind
      BY <1>5, BinFacts DEF Write
    <2>2. HandOK(w[t], pc[t]) /\ w \in [Threads -> Workspace]
      BY DEF TypeInv
    <2>3. HandOK(w[t], place) /\ place \in AllStops
      BY <2>1, <2>2 DEF HandOK, AllStops, Hand
    <2>4. w' = [w EXCEPT ![t] = w[t]] /\ pc' = [pc EXCEPT ![t] = place] /\ case' = case
      BY <1>5, <2>2 DEF Write
    <2>5. /\ w' \in [Threads -> Workspace] /\ pc' \in [Threads -> AllStops]
          /\ \A u \in Threads : HandOK(w'[u], pc'[u])
      <3> HIDE DEF place
      <3> QED BY <2>3, <2>4, HandStep
    <2>6. /\ cuckoo' \in [NumberOf(case.cuckoo) -> Slot]
          /\ \A b \in DOMAIN cuckoo' : cuckoo'[b] # Empty => cuckoo'[b][2] < numHashes[KindOf(b)]
      <3>1. v \in Slot /\ v[2] < numHashes[KindOf(Bin(t))]
        BY <2>1 DEF Slot
      <3>2. cuckoo' = [cuckoo EXCEPT ![Bin(t)] = v]
        BY <1>5 DEF Write
      <3>3. /\ cuckoo \in [NumberOf(case.cuckoo) -> Slot]
            /\ \A b \in DOMAIN cuckoo : cuckoo[b] # Empty => cuckoo[b][2] < numHashes[KindOf(b)]
        BY DEF TypeInv
      <3> HIDE DEF v
      <3> QED BY <2>1, <3>1, <3>2, <3>3
    <2>7. UNCHANGED <<stage, simple, mStashIdxs, next, roomy, raced>>
      BY <1>5 DEF Write
    <2> QED BY <2>4, <2>5, <2>6, <2>7, SameCase DEF TypeInv
  <1>6. ASSUME NEW t \in Threads, Again(t) PROVE TypeInv'
    <2> DEFINE r == Rest(t)
               idxs == [i \in DOMAIN r |-> r[i][1]]
               hashes == [i \in DOMAIN r |-> NextHash(w[t].kind, r[i][2])]
               h == [kind |-> w[t].kind, idxs |-> idxs, hashes |-> hashes, old |-> << >>,
                     tries |-> w[t].tries + 1]
    <2>1. /\ r \in Seq(Items \X Nat)
          /\ \A i \in 1..Len(r) : r[i] \in Items \X Nat
          /\ idxs \in Seq(Items) /\ Len(idxs) = Len(r)
      BY RestFacts
    <2>2. r # << >> /\ w[t].tries < TryLimit
      BY <1>6 DEF Again
    <2> HIDE DEF r
    <2>3. Len(r) > 0 /\ Len(r) \in Nat
      BY <2>1, <2>2
    <2>4. w[t] \in Workspace
      BY DEF TypeInv
    <2>5. HandOK(h, "read")
      <3>1. numHashes[w[t].kind] \in Nat \ {0}
        BY <2>4, SizeFacts DEF Workspace
      <3>2. \A i \in 1..Len(r) : NextHash(w[t].kind, r[i][2]) \in 0..(numHashes[w[t].kind] - 1)
        <4>1. TAKE i \in 1..Len(r)
        <4>2. r[i][2] \in Nat
          BY <2>1
        <4> QED BY <3>1, <4>2 DEF NextHash
      <3>3. hashes \in [1..Len(r) -> Nat]
        BY <2>1, <3>1, <3>2
      <3>4. /\ hashes \in Seq(Nat) /\ Len(hashes) = Len(r)
            /\ \A i \in DOMAIN hashes : hashes[i] < numHashes[w[t].kind]
        BY <2>1, <2>3, <3>1, <3>2, <3>3
      <3> HIDE DEF idxs, hashes
      <3>5. w[t].tries + 1 \in 0..TryLimit /\ << >> \in Seq({Empty} \cup (Items \X Nat))
        BY <2>2, <2>4, SizeFacts DEF Workspace
      <3>6. h \in Workspace
        BY <2>1, <2>4, <3>4, <3>5 DEF Workspace
      <3>7. h.kind = w[t].kind /\ h.idxs = idxs /\ h.hashes = hashes /\ h.old = << >>
        OBVIOUS
      <3> HIDE DEF h
      <3> QED BY <2>1, <2>3, <3>4, <3>6, <3>7 DEF HandOK
    <2>6. w' = [w EXCEPT ![t] = h] /\ pc' = [pc EXCEPT ![t] = "read"] /\ case' = case
      BY <1>6 DEF Again, r
    <2> HIDE DEF h
    <2>7. /\ w' \in [Threads -> Workspace] /\ pc' \in [Threads -> AllStops]
          /\ \A u \in Threads : HandOK(w'[u], pc'[u])
      BY <2>5, <2>6, HandStep DEF AllStops, Hand
    <2>8. mStashIdxs' \in Seq(Items)
      <3>1. mStashIdxs' = IF w[t].kind = 1 THEN mStashIdxs
                          ELSE [i \in DOMAIN mStashIdxs |->
                                  IF i <= Len(r) THEN r[i][1] ELSE mStashIdxs[i]]
        BY <1>6 DEF Again, r
      <3>2. mStashIdxs \in Seq(Items)
        BY DEF TypeInv
      <3>3. \A i \in DOMAIN mStashIdxs : (IF i <= Len(r) THEN r[i][1] ELSE mStashIdxs[i]) \in Items
        BY <2>1, <3>2
      <3> QED BY <3>1, <3>2, <3>3
    <2>9. UNCHANGED <<stage, simple, cuckoo, next, roomy, raced>>
      BY <1>6 DEF Again
    <2> QED BY <2>6, <2>7, <2>8, <2>9, SameCase DEF TypeInv
  <1>7. ASSUME NEW t \in Threads, EndBatch(t) PROVE TypeInv'
    <2>1. /\ w' \in [Threads -> Workspace] /\ pc' \in [Threads -> AllStops]
          /\ \A u \in Threads : HandOK(w'[u], pc'[u])
      BY <1>7, PlaceStep DEF EndBatch, AllStops, Hand
    <2>2. mStashIdxs' \in Seq(Items)
      <3> DEFINE r == [i \in DOMAIN Rest(t) |-> Rest(t)[i][1]]
      <3>1. mStashIdxs' = mStashIdxs \o r /\ mStashIdxs \in Seq(Items)
        BY <1>7 DEF EndBatch, TypeInv
      <3>2. r \in Seq(Items)
        BY RestFacts
      <3> HIDE DEF r
      <3> QED BY <3>1, <3>2
    <2>3. UNCHANGED <<case, stage, simple, cuckoo, next, roomy, raced>>
      BY <1>7 DEF EndBatch
    <2> QED BY <2>1, <2>2, <2>3, SameCase DEF TypeInv
  <1>8. ASSUME NEW t \in Threads, NEW place \in AllStops \ Hand, pc' = [pc EXCEPT ![t] = place],
               UNCHANGED <<case, simple, cuckoo, mStashIdxs, next, w>>,
               roomy' \in [cuckoo : SUBSET Nat, simple : SUBSET Nat], raced' \in BOOLEAN,
               stage' \in {"called", "thrown", "running", "terminated", "returned"}
        PROVE  TypeInv'
    <2>1. /\ w' \in [Threads -> Workspace] /\ pc' \in [Threads -> AllStops]
          /\ \A u \in Threads : HandOK(w'[u], pc'[u])
      BY <1>8, PlaceStep
    <2> QED BY <1>8, <2>1, SameCase DEF TypeInv
  <1>9. ASSUME NEW t \in Threads,
               \/ EndStash(t) \/ Arrive(t) \/ Pass(t) \/ ArriveStash(t) \/ PassStash(t)
               \/ BeginOprfs(t) \/ EndOprfs(t)
        PROVE  TypeInv'
    <2>1. \E place \in AllStops \ Hand : pc' = [pc EXCEPT ![t] = place]
      <3>1. {"arrive", "await", "stash", "awaitStash", "oprfs", "resizing", "bins"}
               \subseteq AllStops \ Hand
        BY DEF AllStops, Hand, Late, Last
      <3> QED BY <1>9, <3>1 DEF EndStash, Arrive, Pass, ArriveStash, PassStash,
                                BeginOprfs, EndOprfs
    <2>2. UNCHANGED <<case, simple, cuckoo, mStashIdxs, next, w, roomy>>
      BY <1>9 DEF EndStash, Arrive, Pass, ArriveStash, PassStash, BeginOprfs, EndOprfs, bins
    <2>3. /\ raced' \in BOOLEAN
          /\ stage' \in {"called", "thrown", "running", "terminated", "returned"}
      BY <1>9 DEF EndStash, Arrive, Pass, ArriveStash, PassStash, BeginOprfs, EndOprfs, TypeInv
    <2>4. roomy' \in [cuckoo : SUBSET Nat, simple : SUBSET Nat]
      BY <2>2 DEF TypeInv
    <2> QED BY <1>8, <2>1, <2>2, <2>3, <2>4
  <1>10. ASSUME NEW t \in Threads, ResizeBins(t) PROVE TypeInv'
    <2>1. From(t, Total(case.cuckoo)) \in Nat
      <3>1. t \in Nat /\ Total(case.cuckoo) \in Nat
        BY CaseFacts, TotalNat DEF TypeInv, Threads
      <3> QED BY <3>1, FromFacts DEF TypeInv
    <2>2. roomy' \in [cuckoo : SUBSET Nat, simple : SUBSET Nat]
      <3>1. \A b \in From(t, Total(case.cuckoo))..(From(t + 1, Total(case.cuckoo)) - 1) : b \in Nat
        BY <2>1
      <3> QED BY <1>10, <3>1 DEF ResizeBins, TypeInv
    <2>3. "end" \in AllStops \ Hand
      BY DEF AllStops, Hand, Late, Last
    <2>4. /\ pc' = [pc EXCEPT ![t] = "end"]
          /\ UNCHANGED <<case, simple, cuckoo, mStashIdxs, next, w, stage, raced>>
          /\ raced \in BOOLEAN
          /\ stage \in {"called", "thrown", "running", "terminated", "returned"}
      BY <1>10 DEF ResizeBins, bins, TypeInv
    <2> QED BY <1>8, <2>2, <2>3, <2>4
  <1>11. ASSUME InsertStash PROVE TypeInv'
    <2> DEFINE place == IF mStashIdxs = << >> THEN "arrive" ELSE "read"
               h == Fresh(2, mStashIdxs)
    <2>1. HandOK(h, place) /\ place \in AllStops
      <3>1. mStashIdxs \in Seq(Items) /\ place \in AllStops \ {"write", "sort"}
        BY DEF TypeInv, AllStops, Hand
      <3> QED BY <3>1, FreshOK
    <2>2. w' = [w EXCEPT ![0] = h] /\ pc' = [pc EXCEPT ![0] = place] /\ case' = case /\ 0 \in Threads
      BY <1>11, CaseFacts DEF InsertStash, TypeInv
    <2> HIDE DEF h, place
    <2>3. /\ w' \in [Threads -> Workspace] /\ pc' \in [Threads -> AllStops]
          /\ \A u \in Threads : HandOK(w'[u], pc'[u])
      BY <2>1, <2>2, HandStep
    <2>4. UNCHANGED <<stage, simple, cuckoo, mStashIdxs, next, roomy, raced>>
      BY <1>11 DEF InsertStash, bins
    <2> QED BY <2>2, <2>3, <2>4, SameCase DEF TypeInv
  <1> QED BY <1>1, <1>2, <1>3, <1>4, <1>5, <1>6, <1>7, <1>9, <1>10, <1>11 DEF Next

(***************************************************************************)
(* The barriers.                                                           *)
(***************************************************************************)
LEMMA ThreadsFinite ==
  ASSUME case \in Cases
  PROVE  /\ IsFiniteSet(Threads) /\ Cardinality(Threads) = case.threads
         /\ IsFiniteSet(Early) /\ IsFiniteSet(Waited)
         /\ Cardinality(Early) \in Nat /\ Cardinality(Waited) \in Nat
         /\ Cardinality(Early) <= case.threads /\ Cardinality(Waited) <= case.threads
         /\ Cardinality(Early) = 0 <=> Early = {}
         /\ Cardinality(Waited) = 0 <=> Waited = {}
  <1>1. IsFiniteSet(Threads) /\ Cardinality(Threads) = case.threads
    <2> DEFINE n == case.threads
    <2>1. n \in Nat \ {0}
      BY CaseFacts
    <2> HIDE DEF n
    <2>2. IsFiniteSet(0..(n - 1)) /\ Cardinality(0..(n - 1)) = n
      BY <2>1, FS_Interval
    <2> QED BY <2>2 DEF Threads, n
  <1>2. Early \in SUBSET Threads /\ Waited \in SUBSET Threads
    BY DEF Early, Waited
  <1>3. /\ IsFiniteSet(Early) /\ Cardinality(Early) <= case.threads
        /\ IsFiniteSet(Waited) /\ Cardinality(Waited) <= case.threads
    BY <1>1, <1>2, FS_Subset
  <1> QED BY <1>1, <1>3, FS_CardinalityType, FS_EmptySet

LEMMA BarrierInit == Init => TypeInv /\ BarrierInv
  <1> SUFFICES ASSUME Init PROVE BarrierInv
    BY TypeInit
  <1>1. /\ case \in Cases /\ \A t \in Threads : pc[t] = "batch" /\ w[t].kind = 1
        /\ stage = "called" /\ insertRemaining = case.threads /\ insertStashRemaining = case.threads
    BY DEF Init
  <1>2. Early = Threads /\ Waited = Threads
    BY <1>1 DEF Early, Waited, Late, Last
  <1>3. CountInv
    BY <1>1, <1>2, ThreadsFinite DEF CountInv
  <1>4. TakenUp
    BY <1>1, CaseFacts DEF TakenUp, Late, Last
  <1>5. \A t \in Threads : Behind(t)
    BY <1>1, <1>2 DEF Behind, Late, Last
  <1> QED BY <1>3, <1>4, <1>5 DEF BarrierInv

(* A step of thread t that leaves the places of the others.                *)
LEMMA StepOf ==
  ASSUME TypeInv, case' = case, NEW t \in Threads, NEW place, pc' = [pc EXCEPT ![t] = place],
         \A u \in Threads \ {t} : w'[u] = w[u]
  PROVE  /\ Threads' = Threads /\ pc'[t] = place
         /\ \A u \in Threads \ {t} : pc'[u] = pc[u] /\ (u \in Early' <=> u \in Early)
         /\ Early' = IF place = "batch" \/ (place \in Hand /\ w'[t].kind = 1)
                     THEN Early \cup {t} ELSE Early \ {t}
         /\ Waited' = IF place \in Late THEN Waited \ {t} ELSE Waited \cup {t}
  <1>1. Threads' = Threads /\ pc \in [Threads -> AllStops]
    BY SameCase DEF TypeInv
  <1>2. pc'[t] = place /\ \A u \in Threads \ {t} : pc'[u] = pc[u]
    BY <1>1
  <1>3. Early' = {u \in Threads : pc'[u] = "batch" \/ (pc'[u] \in Hand /\ w'[u].kind = 1)}
    BY <1>1 DEF Early
  <1>4. Waited' = {u \in Threads : pc'[u] \notin Late}
    BY <1>1 DEF Waited
  <1>5. Early' = IF place = "batch" \/ (place \in Hand /\ w'[t].kind = 1)
                 THEN Early \cup {t} ELSE Early \ {t}
    BY <1>2, <1>3 DEF Early
  <1>6. Waited' = IF place \in Late THEN Waited \ {t} ELSE Waited \cup {t}
    BY <1>2, <1>4 DEF Waited
  <1> QED BY <1>1, <1>2, <1>5, <1>6

(* The threads that do not move stay behind their barriers.                *)
LEMMA OthersBehind ==
  ASSUME TypeInv, BarrierInv, case' = case, NEW t \in Threads, NEW place,
         pc' = [pc EXCEPT ![t] = place],
         \A u \in Threads \ {t} : w'[u] = w[u] /\ next'[u] = next[u],
         stage = "running", stage' \in {"running", "terminated"},
         place = "batch" \/ (place \in Hand /\ w'[t].kind = 1) => t \in Early,
         place \in Late \/ t \in Waited,
         Behind(t)'
  PROVE  \A u \in Threads' : Behind(u)'
  <1>1. /\ Threads' = Threads /\ pc'[t] = place
        /\ \A u \in Threads \ {t} : pc'[u] = pc[u] /\ (u \in Early' <=> u \in Early)
        /\ Early' \subseteq Early /\ Waited' \subseteq Waited
    <2>1. \A u \in Threads \ {t} : w'[u] = w[u]
      OBVIOUS
    <2>2. /\ Threads' = Threads /\ pc'[t] = place
          /\ \A u \in Threads \ {t} : pc'[u] = pc[u] /\ (u \in Early' <=> u \in Early)
          /\ Early' = IF place = "batch" \/ (place \in Hand /\ w'[t].kind = 1)
                      THEN Early \cup {t} ELSE Early \ {t}
          /\ Waited' = IF place \in Late THEN Waited \ {t} ELSE Waited \cup {t}
      BY <2>1, StepOf
    <2>3. Early' \subseteq Early
      BY <2>2
    <2>4. Waited' \subseteq Waited
      BY <2>2
    <2> QED BY <2>2, <2>3, <2>4
  <1>2. ASSUME NEW u \in Threads \ {t} PROVE Behind(u)'
    <2>1. Behind(u)
      BY DEF BarrierInv
    <2>2. /\ pc'[u] = pc[u] /\ w'[u] = w[u] /\ next'[u] = next[u] /\ (u \in Early' <=> u \in Early)
      BY <1>1
    <2>3. u \notin Early' => next'[u] = From(u + 1, mN)'
      BY <2>1, <2>2, SameCase DEF Behind
    <2>4. /\ pc'[u] = "stash" \/ w'[u].kind = 2 => u = 0
          /\ pc'[u] \in {"stash", "arrive"} \cup Late \/ w'[u].kind = 2 => Early' = {}
      BY <1>1, <2>1, <2>2 DEF Behind
    <2>5. pc'[u] \in Last => /\ Waited' = {}
                             /\ Total(case'.cuckoo) = Total(case'.simple)
      BY <1>1, <2>1, <2>2 DEF Behind
    <2>6. stage' # "returned" /\ stage' # "called"
      OBVIOUS
    <2> QED BY <2>3, <2>4, <2>5, <2>6 DEF Behind
  <1> QED BY <1>1, <1>2
(* Each action keeps what is true behind the barriers.                     *)
LEMMA BarrierNext ==
  ASSUME TypeInv, BarrierInv, [Next]_vars
  PROVE  BarrierInv'
  <1> USE DEF At, Goes
  <1>0. /\ CountInv /\ TakenUp /\ \A t \in Threads : Behind(t)
        /\ case \in Cases /\ 0 \in Threads /\ Threads \subseteq Nat
        /\ pc \in [Threads -> AllStops] /\ w \in [Threads -> Workspace] /\ next \in [Threads -> Nat]
    BY CaseFacts DEF BarrierInv, TypeInv, Threads
  <1>1. CASE UNCHANGED vars
    BY <1>1, SameCase DEF BarrierInv, CountInv, TakenUp, Behind, Early, Waited, vars, bins, counts
  <1>2. ASSUME Start \/ Join PROVE BarrierInv'
    <2>1. UNCHANGED <<case, pc, w, next, insertRemaining, insertStashRemaining>>
      BY <1>2 DEF Start, Join, bins, counts
    <2>2. Threads' = Threads /\ Early' = Early /\ Waited' = Waited
      BY <2>1, SameCase DEF Early, Waited
    <2>3. CountInv' /\ TakenUp'
      BY <1>0, <2>1, <2>2 DEF CountInv, TakenUp
    <2>4. /\ stage' = "returned" => stage = "running" /\ \A t \in Threads : pc[t] = "end"
          /\ stage' # "called" /\ stage \in {"called", "running"}
      BY <1>2 DEF Start, Join
    <2>5. ASSUME NEW t \in Threads PROVE Behind(t)'
      <3>1. Behind(t)
        BY <1>0
      <3>2. pc[t] \in Last => stage = "running"
        <4>1. "batch" \notin Last
          BY DEF Last
        <4> QED BY <2>4, <3>1, <4>1 DEF Behind
      <3>3. pc'[t] \in Last => Waited' = {} /\ Total(case'.cuckoo) = Total(case'.simple)
        BY <2>1, <2>2, <3>1, <3>2 DEF Behind
      <3>4. /\ t \notin Early' => next'[t] = From(t + 1, mN)'
            /\ pc'[t] = "stash" \/ w'[t].kind = 2 => t = 0
            /\ pc'[t] \in {"stash", "arrive"} \cup Late \/ w'[t].kind = 2 => Early' = {}
        BY <2>1, <2>2, <3>1, SameCase DEF Behind
      <3> QED BY <2>1, <2>4, <3>3, <3>4 DEF Behind
    <2> QED BY <2>2, <2>3, <2>5 DEF BarrierInv
  (* A thread with a batch in its hands, or thread 0 with the stash.       *)
  <1>3. ASSUME NEW t \in Threads,
               InsertSimple(t) \/ Read(t) \/ Write(t) \/ Again(t) \/ EndBatch(t)
        PROVE  BarrierInv'
    <2>1. /\ case' = case /\ stage' = stage /\ stage = "running"
          /\ UNCHANGED <<insertRemaining, insertStashRemaining>>
      BY <1>3 DEF InsertSimple, Read, Write, Again, EndBatch, bins, counts
    <2>2. PICK place \in {"batch"} \cup Hand :
            /\ pc' = [pc EXCEPT ![t] = place]
            /\ place = "batch" => w'[t].kind = 1
      BY <1>3 DEF InsertSimple, Read, Write, Again, EndBatch, Hand
    <2>3. pc[t] \in {"batch"} \cup Hand /\ (pc[t] = "batch" => w'[t].kind = 1)
      BY <1>0, <1>3 DEF InsertSimple, Fresh, Read, Write, Again, EndBatch, Hand
    <2>4. \A u \in Threads \ {t} : w'[u] = w[u] /\ next'[u] = next[u]
      BY <1>0, <1>3 DEF InsertSimple, Read, Write, Again, EndBatch
    <2>5. /\ pc[t] # "batch" => w'[t].kind = w[t].kind /\ next'[t] = next[t]
          /\ w'[t].kind \in 1..2 /\ w[t].kind \in 1..2
      <3>1. w'[t] \in Workspace /\ w[t] \in Workspace
        BY <1>0, <2>1, TypeNext, SameCase DEF TypeInv, Next
      <3>2. w[t].kind \in 1..2 /\ w'[t].kind \in 1..2
        BY <3>1 DEF Workspace
      <3>3. pc[t] # "batch" => w'[t].kind = w[t].kind /\ next'[t] = next[t]
        <4>1. CASE InsertSimple(t)
          BY <4>1 DEF InsertSimple
        <4>2. CASE Read(t)
          BY <1>0, <3>1, <4>2 DEF Read, Workspace
        <4>3. CASE Write(t) \/ EndBatch(t)
          BY <4>3 DEF Write, EndBatch
        <4>4. CASE Again(t)
          BY <1>0, <4>4 DEF Again
        <4> QED BY <1>3, <4>1, <4>2, <4>3, <4>4
      <3> QED BY <3>2, <3>3
    <2>6. t \in Early <=> w'[t].kind = 1
      BY <2>3, <2>5 DEF Early, Hand
    <2>7. t \in Waited
      BY <2>3 DEF Waited, Late, Last, Hand
    <2>8. /\ Threads' = Threads /\ pc'[t] = place
          /\ \A u \in Threads \ {t} : pc'[u] = pc[u]
          /\ Early' = Early /\ Waited' = Waited
      <3>1. \A u \in Threads \ {t} : w'[u] = w[u]
        BY <2>4
      <3>2. /\ Threads' = Threads /\ pc'[t] = place
            /\ \A u \in Threads \ {t} : pc'[u] = pc[u] /\ (u \in Early' <=> u \in Early)
            /\ Early' = IF place = "batch" \/ (place \in Hand /\ w'[t].kind = 1)
                        THEN Early \cup {t} ELSE Early \ {t}
            /\ Waited' = IF place \in Late THEN Waited \ {t} ELSE Waited \cup {t}
        BY <2>1, <2>2, <3>1, StepOf
      <3>3. place \notin Late
        BY <2>2 DEF Late, Last, Hand
      <3>4. Early' = Early
        BY <2>2, <2>6, <3>2
      <3>5. Waited' = Waited
        BY <2>7, <3>2, <3>3
      <3> QED BY <3>2, <3>4, <3>5
    <2>9. CountInv'
      BY <1>0, <2>1, <2>8 DEF CountInv
    <2>10. TakenUp'
      <3>1. CASE t = 0
        BY <2>2, <2>8, <3>1 DEF TakenUp, Hand, Late, Last
      <3>2. CASE t # 0
        BY <1>0, <2>4, <2>8, <3>2 DEF TakenUp
      <3> QED BY <3>1, <3>2
    <2>11. Behind(t)'
      <3>1. Behind(t)
        BY <1>0
      <3>2. place \notin {"stash", "arrive"} \cup Late /\ place \notin Last
        BY <2>2 DEF Late, Last, Hand
      <3>3. w'[t].kind = 2 => w[t].kind = 2 /\ t \notin Early
        BY <2>3, <2>5, <2>6
      <3>4. t \notin Early' => next'[t] = next[t] /\ t \notin Early
        BY <2>3, <2>5, <2>6, <2>8
      <3> QED BY <2>1, <2>8, <3>1, <3>2, <3>3, <3>4, SameCase DEF Behind
    <2>12. \A u \in Threads' : Behind(u)'
      BY <2>1, <2>2, <2>4, <2>6, <2>7, <2>11, OthersBehind
    <2> QED BY <2>9, <2>10, <2>12 DEF BarrierInv
  <1>4. ASSUME NEW t \in Threads, EndStash(t) PROVE BarrierInv'
    <2>1. /\ case' = case /\ stage = "running" /\ stage' \in {"running", "terminated"}
          /\ UNCHANGED <<insertRemaining, insertStashRemaining, w, next>>
          /\ pc[t] = "sort" /\ w[t].kind = 2 /\ pc' = [pc EXCEPT ![t] = "arrive"]
      BY <1>4 DEF EndStash, bins, counts
    <2>2. t = 0 /\ Early = {} /\ t \notin Early /\ t \in Waited /\ next[t] = From(t + 1, mN)
      BY <1>0, <2>1 DEF Behind, Early, Waited, Late, Last
    <2>3. "arrive" \notin Late /\ "arrive" \notin Last /\ "arrive" \notin Hand
      BY DEF Late, Last, Hand
    <2>4. /\ Threads' = Threads /\ pc'[t] = "arrive" /\ Early' = Early /\ Waited' = Waited
          /\ \A u \in Threads \ {t} : pc'[u] = pc[u]
      <3>1. /\ Threads' = Threads /\ pc'[t] = "arrive"
            /\ \A u \in Threads \ {t} : pc'[u] = pc[u] /\ (u \in Early' <=> u \in Early)
            /\ Early' = IF "arrive" = "batch" \/ ("arrive" \in Hand /\ w'[t].kind = 1)
                        THEN Early \cup {t} ELSE Early \ {t}
            /\ Waited' = IF "arrive" \in Late THEN Waited \ {t} ELSE Waited \cup {t}
        BY <2>1, StepOf
      <3> QED BY <2>2, <2>3, <3>1
    <2>5. CountInv'
      BY <1>0, <2>1, <2>4 DEF CountInv
    <2>6. TakenUp'
      BY <2>1, <2>2, <2>4 DEF TakenUp
    <2>7. Behind(t)'
      BY <2>1, <2>2, <2>3, <2>4, SameCase DEF Behind
    <2>8. \A u \in Threads' : Behind(u)'
      BY <2>1, <2>2, <2>3, <2>7, OthersBehind
    <2> QED BY <2>5, <2>6, <2>8 DEF BarrierInv
  <1>5. ASSUME NEW t \in Threads, Arrive(t) PROVE BarrierInv'
    <2>1. /\ case' = case /\ stage = "running" /\ stage' = stage
          /\ UNCHANGED <<insertStashRemaining, w, next>>
          /\ insertRemaining' = insertRemaining - 1
          /\ pc[t] = "batch" /\ next[t] = From(t + 1, mN) /\ pc' = [pc EXCEPT ![t] = "await"]
      BY <1>5 DEF Arrive, bins, counts
    <2>2. t \in Early /\ t \in Waited /\ w[t].kind # 2
      BY <1>0, <2>1 DEF Behind, Early, Waited, Late, Last
    <2>3. "await" \notin Late /\ "await" \notin Last /\ "await" \notin Hand
      BY DEF Late, Last, Hand
    <2>4. /\ Threads' = Threads /\ pc'[t] = "await" /\ Early' = Early \ {t} /\ Waited' = Waited
          /\ \A u \in Threads \ {t} : pc'[u] = pc[u]
      <3>1. /\ Threads' = Threads /\ pc'[t] = "await"
            /\ \A u \in Threads \ {t} : pc'[u] = pc[u] /\ (u \in Early' <=> u \in Early)
            /\ Early' = IF "await" = "batch" \/ ("await" \in Hand /\ w'[t].kind = 1)
                        THEN Early \cup {t} ELSE Early \ {t}
            /\ Waited' = IF "await" \in Late THEN Waited \ {t} ELSE Waited \cup {t}
        BY <2>1, StepOf
      <3> QED BY <2>2, <2>3, <3>1
    <2>5. CountInv'
      <3>1. IsFiniteSet(Early)
        BY <1>0, ThreadsFinite
      <3>2. Cardinality(Early \ {t}) = Cardinality(Early) - 1
        BY <2>2, <3>1, FS_RemoveElement
      <3> QED BY <1>0, <2>1, <2>4, <3>2 DEF CountInv
    <2>6. TakenUp'
      <3>1. CASE t = 0
        BY <1>0, <2>1, <2>3, <2>4, <3>1 DEF TakenUp
      <3>2. CASE t # 0
        BY <1>0, <2>1, <2>4, <3>2 DEF TakenUp
      <3> QED BY <3>1, <3>2
    <2>7. Behind(t)'
      BY <2>1, <2>2, <2>3, <2>4, SameCase DEF Behind
    <2>8. \A u \in Threads' : Behind(u)'
      BY <2>1, <2>2, <2>3, <2>7, OthersBehind
    <2> QED BY <2>5, <2>6, <2>8 DEF BarrierInv
  <1>6. ASSUME NEW t \in Threads, Pass(t) PROVE BarrierInv'
    <2> DEFINE place == IF t = 0 THEN "stash" ELSE "arrive"
    <2>1. /\ case' = case /\ stage = "running" /\ stage' = stage
          /\ UNCHANGED <<insertRemaining, insertStashRemaining, w, next>>
          /\ insertRemaining = 0 /\ pc[t] = "await" /\ pc' = [pc EXCEPT ![t] = place]
      BY <1>6 DEF Pass, bins, counts
    <2>2. /\ Early = {} /\ t \notin Early /\ t \in Waited
          /\ (w[t].kind = 2 => t = 0) /\ next[t] = From(t + 1, mN)
      <3>1. Early = {}
        BY <1>0, <2>1, ThreadsFinite DEF CountInv
      <3> QED BY <1>0, <2>1, <3>1 DEF Behind, Waited, Late, Last
    <2>3. /\ place \in {"stash", "arrive"} /\ (place = "stash" <=> t = 0)
          /\ place \notin Late /\ place \notin Last /\ place \notin Hand /\ place # "batch"
      BY DEF Late, Last, Hand
    <2> HIDE DEF place
    <2>4. /\ Threads' = Threads /\ pc'[t] = place /\ Early' = Early /\ Waited' = Waited
          /\ \A u \in Threads \ {t} : pc'[u] = pc[u]
      <3>1. /\ Threads' = Threads /\ pc'[t] = place
            /\ \A u \in Threads \ {t} : pc'[u] = pc[u] /\ (u \in Early' <=> u \in Early)
            /\ Early' = IF place = "batch" \/ (place \in Hand /\ w'[t].kind = 1)
                        THEN Early \cup {t} ELSE Early \ {t}
            /\ Waited' = IF place \in Late THEN Waited \ {t} ELSE Waited \cup {t}
        BY <2>1, StepOf
      <3> QED BY <2>2, <2>3, <3>1
    <2>5. CountInv'
      BY <1>0, <2>1, <2>4 DEF CountInv
    <2>6. TakenUp'
      <3>1. CASE t = 0
        BY <1>0, <2>1, <2>3, <2>4, <3>1 DEF TakenUp
      <3>2. CASE t # 0
        BY <1>0, <2>1, <2>4, <3>2 DEF TakenUp
      <3> QED BY <3>1, <3>2
    <2>7. Behind(t)'
      BY <2>1, <2>2, <2>3, <2>4, SameCase DEF Behind
    <2>8. \A u \in Threads' : Behind(u)'
      BY <2>1, <2>2, <2>3, <2>7, OthersBehind
    <2> QED BY <2>5, <2>6, <2>8 DEF BarrierInv
  <1>7. ASSUME InsertStash PROVE BarrierInv'
    <2> DEFINE place == IF mStashIdxs = << >> THEN "arrive" ELSE "read"
    <2>1. /\ case' = case /\ stage = "running" /\ stage' = stage
          /\ UNCHANGED <<insertRemaining, insertStashRemaining, next>>
          /\ pc[0] = "stash" /\ pc' = [pc EXCEPT ![0] = place]
          /\ w'[0].kind = 2 /\ \A u \in Threads \ {0} : w'[u] = w[u]
      BY <1>0, <1>7 DEF InsertStash, Fresh, bins, counts
    <2>2. Early = {} /\ 0 \notin Early /\ 0 \in Waited /\ next[0] = From(0 + 1, mN)
      <3>1. Early = {} /\ next[0] = From(0 + 1, mN)
        BY <1>0, <2>1 DEF Behind
      <3> QED BY <1>0, <2>1, <3>1 DEF Waited, Late, Last
    <2>3. /\ place \in {"arrive", "read"} /\ place \notin Late /\ place \notin Last
          /\ place # "batch" /\ place # "stash" /\ place # "await"
      BY DEF Late, Last
    <2> HIDE DEF place
    <2>4. /\ Threads' = Threads /\ pc'[0] = place /\ Early' = Early /\ Waited' = Waited
          /\ \A u \in Threads \ {0} : pc'[u] = pc[u]
      <3>1. /\ Threads' = Threads /\ pc'[0] = place
            /\ \A u \in Threads \ {0} : pc'[u] = pc[u] /\ (u \in Early' <=> u \in Early)
            /\ Early' = IF place = "batch" \/ (place \in Hand /\ w'[0].kind = 1)
                        THEN Early \cup {0} ELSE Early \ {0}
            /\ Waited' = IF place \in Late THEN Waited \ {0} ELSE Waited \cup {0}
        BY <1>0, <2>1, StepOf
      <3> QED BY <2>1, <2>2, <2>3, <3>1
    <2>5. CountInv'
      BY <1>0, <2>1, <2>4 DEF CountInv
    <2>6. TakenUp'
      BY <2>1, <2>3, <2>4 DEF TakenUp
    <2>7. Behind(0)'
      BY <2>1, <2>2, <2>3, <2>4, SameCase DEF Behind
    <2>8. \A u \in Threads' : Behind(u)'
      <3>1. /\ \A u \in Threads \ {0} : w'[u] = w[u] /\ next'[u] = next[u]
            /\ stage' \in {"running", "terminated"}
            /\ place = "batch" \/ (place \in Hand /\ w'[0].kind = 1) => 0 \in Early
            /\ place \in Late \/ 0 \in Waited
        BY <2>1, <2>2, <2>3
      <3> QED BY <1>0, <2>1, <2>7, <3>1, OthersBehind
    <2> QED BY <2>5, <2>6, <2>8 DEF BarrierInv
  <1>8. ASSUME NEW t \in Threads, ArriveStash(t) PROVE BarrierInv'
    <2>1. /\ case' = case /\ stage = "running" /\ stage' = stage
          /\ UNCHANGED <<insertRemaining, w, next>>
          /\ insertStashRemaining' = insertStashRemaining - 1
          /\ pc[t] = "arrive" /\ pc' = [pc EXCEPT ![t] = "awaitStash"]
      BY <1>8 DEF ArriveStash, bins, counts
    <2>2. /\ Early = {} /\ t \notin Early /\ t \in Waited
          /\ (w[t].kind = 2 => t = 0) /\ next[t] = From(t + 1, mN)
      <3>1. Early = {}
        BY <1>0, <2>1 DEF Behind
      <3> QED BY <1>0, <2>1, <3>1 DEF Behind, Waited, Late, Last
    <2>3. /\ "awaitStash" \in Late /\ "awaitStash" \notin Last /\ "awaitStash" \notin Hand
      BY DEF Late, Last, Hand
    <2>4. /\ Threads' = Threads /\ pc'[t] = "awaitStash" /\ Early' = Early /\ Waited' = Waited \ {t}
          /\ \A u \in Threads \ {t} : pc'[u] = pc[u]
      <3>1. /\ Threads' = Threads /\ pc'[t] = "awaitStash"
            /\ \A u \in Threads \ {t} : pc'[u] = pc[u] /\ (u \in Early' <=> u \in Early)
            /\ Early' = IF "awaitStash" = "batch" \/ ("awaitStash" \in Hand /\ w'[t].kind = 1)
                        THEN Early \cup {t} ELSE Early \ {t}
            /\ Waited' = IF "awaitStash" \in Late THEN Waited \ {t} ELSE Waited \cup {t}
        BY <2>1, StepOf
      <3> QED BY <2>2, <2>3, <3>1
    <2>5. CountInv'
      <3>1. IsFiniteSet(Waited)
        BY <1>0, ThreadsFinite
      <3>2. Cardinality(Waited \ {t}) = Cardinality(Waited) - 1
        BY <2>2, <3>1, FS_RemoveElement
      <3> QED BY <1>0, <2>1, <2>4, <3>2 DEF CountInv
    <2>6. TakenUp'
      <3>1. CASE t = 0
        BY <1>0, <2>1, <2>3, <2>4, <3>1 DEF TakenUp
      <3>2. CASE t # 0
        BY <1>0, <2>1, <2>4, <3>2 DEF TakenUp
      <3> QED BY <3>1, <3>2
    <2>7. Behind(t)'
      BY <2>1, <2>2, <2>3, <2>4, SameCase DEF Behind
    <2>8. \A u \in Threads' : Behind(u)'
      BY <2>1, <2>2, <2>3, <2>7, OthersBehind
    <2> QED BY <2>5, <2>6, <2>8 DEF BarrierInv
  <1>9. ASSUME NEW t \in Threads,
               PassStash(t) \/ BeginOprfs(t) \/ EndOprfs(t) \/ ResizeBins(t)
        PROVE  BarrierInv'
    <2>1. /\ case' = case /\ stage = "running" /\ stage' \in {"running", "terminated"}
          /\ UNCHANGED <<insertRemaining, insertStashRemaining, w, next>>
          /\ pc[t] \in Late
      BY <1>9 DEF PassStash, BeginOprfs, EndOprfs, ResizeBins, bins, counts, Late, Last
    <2>2. PICK place \in Last : pc' = [pc EXCEPT ![t] = place]
      BY <1>9 DEF PassStash, BeginOprfs, EndOprfs, ResizeBins, Last
    <2>3. /\ Early = {} /\ Waited = {} /\ t \notin Early
          /\ (w[t].kind = 2 => t = 0) /\ next[t] = From(t + 1, mN)
          /\ stage' = "running" => Total(case.cuckoo) = Total(case.simple)
      <3>1. Early = {}
        BY <1>0, <2>1 DEF Behind
      <3>2. CASE PassStash(t)
        <4>1. Waited = {}
          BY <1>0, <3>2, ThreadsFinite DEF PassStash, CountInv
        <4>2. stage' = "running" => Total(case.cuckoo) = Total(case.simple)
          BY <2>1, <3>2 DEF PassStash
        <4> QED BY <1>0, <3>1, <4>1, <4>2 DEF Behind
      <3>3. CASE BeginOprfs(t) \/ EndOprfs(t) \/ ResizeBins(t)
        <4>1. pc[t] \in Last
          BY <3>3 DEF BeginOprfs, EndOprfs, ResizeBins, Last
        <4> QED BY <1>0, <2>1, <3>1, <4>1 DEF Behind
      <3> QED BY <1>9, <3>2, <3>3
    <2>4. /\ place \in Late /\ place \notin Hand /\ place # "batch" /\ place # "stash"
          /\ place # "await"
      BY <2>2 DEF Late, Last, Hand
    <2>5. /\ Threads' = Threads /\ pc'[t] = place /\ Early' = Early /\ Waited' = Waited
          /\ \A u \in Threads \ {t} : pc'[u] = pc[u]
      <3>1. /\ Threads' = Threads /\ pc'[t] = place
            /\ \A u \in Threads \ {t} : pc'[u] = pc[u] /\ (u \in Early' <=> u \in Early)
            /\ Early' = IF place = "batch" \/ (place \in Hand /\ w'[t].kind = 1)
                        THEN Early \cup {t} ELSE Early \ {t}
            /\ Waited' = IF place \in Late THEN Waited \ {t} ELSE Waited \cup {t}
        BY <2>1, <2>2, StepOf
      <3> QED BY <2>3, <2>4, <3>1
    <2>6. CountInv'
      BY <1>0, <2>1, <2>5 DEF CountInv
    <2>7. TakenUp'
      <3>1. CASE t = 0
        BY <1>0, <2>1, <2>4, <2>5, <3>1 DEF TakenUp
      <3>2. CASE t # 0
        BY <1>0, <2>1, <2>5, <3>2 DEF TakenUp
      <3> QED BY <3>1, <3>2
    <2>8. Behind(t)'
      BY <2>1, <2>3, <2>4, <2>5, SameCase DEF Behind
    <2>9. \A u \in Threads' : Behind(u)'
      BY <2>1, <2>2, <2>3, <2>4, <2>8, OthersBehind
    <2> QED BY <2>6, <2>7, <2>9 DEF BarrierInv
  <1> QED BY <1>1, <1>2, <1>3, <1>4, <1>5, <1>6, <1>7, <1>8, <1>9 DEF Next

(***************************************************************************)
(* Room for the results.                                                   *)
(***************************************************************************)
LEMMA MineFacts ==
  ASSUME TypeInv, NEW t \in Threads
  PROVE  /\ Mine(t) \subseteq NumberOf(case.cuckoo)
         /\ \A b \in NumberOf(case.cuckoo) : \E u \in Threads : b \in Mine(u)
  <1> DEFINE m == Total(case.cuckoo)
  <1>1. case \in Cases /\ m \in Nat /\ t \in Nat /\ case.cuckoo \in (Nat \ {0}) \X (Nat \ {0})
    BY CaseFacts, TotalNat DEF TypeInv, Threads
  <1> HIDE DEF m
  <1>2. \A u \in Threads : From(u, m) \in Nat /\ From(u + 1, m) \in Nat /\ From(u + 1, m) <= m
    <2>1. TAKE u \in Threads
    <2>2. u \in Nat /\ u + 1 \in Nat
      BY <1>1, CaseFacts DEF Threads
    <2> QED BY <1>1, <2>2, FromFacts
  <1>3. Mine(t) \subseteq 0..(m - 1)
    BY <1>1, <1>2 DEF Mine, m
  <1>4. \A b \in 0..(m - 1) : \E u \in Threads : b \in Mine(u)
    <2>1. TAKE b \in 0..(m - 1)
    <2>2. PICK u \in Threads : From(u, m) <= b /\ b < From(u + 1, m)
      BY <1>1, FromCovers
    <2>3. b \in From(u, m)..(From(u + 1, m) - 1)
      BY <1>1, <1>2, <2>2
    <2> QED BY <2>3 DEF Mine, m
  <1> QED BY <1>3, <1>4 DEF NumberOf, m

LEMMA RoomInit == Init => RoomInv
  <1> SUFFICES ASSUME Init PROVE RoomInv
    OBVIOUS
  <1>1. roomy = [cuckoo |-> {}, simple |-> {}] /\ \A t \in Threads : pc[t] = "batch"
    BY DEF Init
  <1> QED BY <1>1 DEF RoomInv

(* Each action keeps the room of the bins that have been looked at.        *)
LEMMA RoomNext ==
  ASSUME TypeInv, BarrierInv, RoomInv, [Next]_vars
  PROVE  RoomInv'
  <1> USE DEF At, Goes
  <1>0. /\ \A t \in Threads : Behind(t)
        /\ pc \in [Threads -> AllStops] /\ Threads \subseteq Nat
        /\ case' = case /\ Threads' = Threads /\ \A t : Mine(t)' = Mine(t)
    <2>1. case' = case
      BY DEF Next, Start, InsertStash, Join, InsertSimple, Read, Write, Again, EndBatch, EndStash,
             Arrive, Pass, ArriveStash, PassStash, BeginOprfs, EndOprfs, ResizeBins, vars, bins
    <2>2. \A t \in Threads : t \in Nat
      BY CaseFacts DEF TypeInv, Threads
    <2>3. \A t : Mine(t)' = Mine(t)
      BY <2>1, SameCase DEF Mine, Total
    <2> QED BY <2>1, <2>2, <2>3, SameCase DEF BarrierInv, TypeInv
  <1>1. DOMAIN simple' = DOMAIN simple
    <2>1. TypeInv'
      BY TypeNext
    <2>2. NumberOf(case'.simple) = NumberOf(case.simple)
      BY <1>0
    <2> QED BY <2>1, <2>2 DEF TypeInv
  (* When a bin is filled, no thread has looked at its bins.               *)
  <1>2. ASSUME NEW t \in Threads, InsertSimple(t) \/ Write(t) PROVE RoomInv'
    <2>1. pc[t] \in {"batch", "write"} /\ roomy' = roomy
      BY <1>2 DEF InsertSimple, Write
    <2>2. t \in Waited
      BY <2>1 DEF Waited, Late, Last
    <2>3. \A u \in Threads : pc[u] # "end"
      BY <1>0, <2>2 DEF Behind, Last
    <2>4. \A u \in Threads : pc'[u] # "end"
      BY <1>0, <1>2, <2>3 DEF InsertSimple, Write
    <2> QED BY <1>0, <1>1, <2>1, <2>4 DEF RoomInv
  <1>3. ASSUME UNCHANGED <<simple, cuckoo, roomy>>,
               \A u \in Threads : pc'[u] = "end" => pc[u] = "end",
               stage = "called" => pc' = pc,
               stage' \in {"running", "returned"} => stage \in {"called", "running", "returned"}
        PROVE  RoomInv'
    <2>1. \A u \in Threads : pc'[u] = "end" => stage # "called"
      BY <1>0, <1>3 DEF Behind
    <2> QED BY <1>0, <1>1, <1>3, <2>1 DEF RoomInv
  <1>4. ASSUME NEW t \in Threads, ResizeBins(t) PROVE RoomInv'
    <2>1. /\ stage = "running" /\ pc[t] = "bins" /\ stage' = stage
          /\ pc' = [pc EXCEPT ![t] = "end"] /\ UNCHANGED <<simple, cuckoo>>
          /\ roomy' = [cuckoo |-> roomy.cuckoo \cup {b \in Mine(t) : cuckoo[b] # Empty},
                       simple |-> roomy.simple \cup {b \in Mine(t) : simple[b] # {}}]
      BY <1>4 DEF ResizeBins, bins, Mine
    <2>2. Total(case.cuckoo) = Total(case.simple)
      BY <1>0, <2>1 DEF Behind, Last
    <2>3. Mine(t) \subseteq DOMAIN simple
      BY <2>2, MineFacts DEF TypeInv, NumberOf
    <2>4. roomy'.cuckoo \cup roomy'.simple \subseteq DOMAIN simple
      BY <2>1, <2>3 DEF RoomInv
    <2>5. ASSUME NEW u \in Threads, pc'[u] = "end", NEW b \in Mine(u)
          PROVE  /\ cuckoo[b] # Empty => b \in roomy'.cuckoo
                 /\ simple[b] # {} => b \in roomy'.simple
      <3>1. CASE u = t
        BY <2>1, <2>5, <3>1
      <3>2. CASE u # t
        <4>1. pc[u] = "end"
          BY <1>0, <2>1, <2>5, <3>2
        <4> QED BY <2>1, <2>5, <4>1 DEF RoomInv
      <3> QED BY <3>1, <3>2
    <2> QED BY <1>0, <1>1, <2>1, <2>4, <2>5 DEF RoomInv
  <1>5. CASE UNCHANGED vars
    BY <1>3, <1>5 DEF vars, bins
  <1>6. CASE Start \/ Join
    BY <1>3, <1>6 DEF Start, Join, bins
  <1>7. CASE InsertStash
    <2>1. UNCHANGED <<simple, cuckoo, roomy, stage>> /\ stage = "running"
      BY <1>7 DEF InsertStash, bins
    <2>2. \A u \in Threads : pc'[u] = "end" => pc[u] = "end"
      BY <1>0, <1>7 DEF InsertStash
    <2> QED BY <1>3, <2>1, <2>2
  <1>8. ASSUME NEW t \in Threads,
               \/ Read(t) \/ Again(t) \/ EndBatch(t) \/ EndStash(t) \/ Arrive(t) \/ Pass(t)
               \/ ArriveStash(t) \/ PassStash(t) \/ BeginOprfs(t) \/ EndOprfs(t)
        PROVE  RoomInv'
    <2>1. UNCHANGED <<simple, cuckoo, roomy>> /\ stage = "running"
      BY <1>8 DEF Read, Again, EndBatch, EndStash, Arrive, Pass, ArriveStash, PassStash,
                  BeginOprfs, EndOprfs, bins
    <2>2. \E place : pc' = [pc EXCEPT ![t] = place] /\ place # "end"
      BY <1>8 DEF Read, Again, EndBatch, EndStash, Arrive, Pass, ArriveStash, PassStash,
                  BeginOprfs, EndOprfs
    <2>3. \A u \in Threads : pc'[u] = "end" => pc[u] = "end"
      BY <1>0, <2>2
    <2> QED BY <1>3, <2>1, <2>3
  <1> QED BY <1>2, <1>4, <1>5, <1>6, <1>7, <1>8 DEF Next

(* When the call returns, all threads have looked at their bins.           *)
LEMMA RoomReturned ==
  ASSUME TypeInv, BarrierInv, RoomInv
  PROVE  RoomForResults
  <1> SUFFICES ASSUME stage = "returned" PROVE RoomForResults
    BY DEF RoomForResults
  <1>1. 0 \in Threads
    BY CaseFacts DEF TypeInv
  <1>2. \A t \in Threads : pc[t] = "end" /\ Behind(t)
    BY DEF BarrierInv, Behind
  <1>3. Total(case.cuckoo) = Total(case.simple)
    BY <1>1, <1>2 DEF Behind, Last
  <1>4. NumberOf(case.cuckoo) = NumberOf(case.simple)
    BY <1>3 DEF NumberOf
  <1>5. DOMAIN cuckoo = NumberOf(case.cuckoo) /\ DOMAIN simple = NumberOf(case.cuckoo)
    BY <1>4 DEF TypeInv
  <1>6. ASSUME NEW b \in NumberOf(case.cuckoo)
        PROVE  /\ cuckoo[b] # Empty => b \in roomy.cuckoo
               /\ simple[b] # {} => b \in roomy.simple
    <2>1. PICK t \in Threads : b \in Mine(t)
      BY <1>1, MineFacts
    <2> QED BY <1>2, <2>1 DEF RoomInv
  <1> QED BY <1>5, <1>6 DEF RoomForResults

(***************************************************************************)
(* The bins of the two tables.                                             *)
(***************************************************************************)
LEMMA CaseStep ==
  ASSUME [Next]_vars
  PROVE  case' = case
  BY DEF Next, Start, InsertStash, Join, InsertSimple, Read, Write, Again, EndBatch, EndStash,
         Arrive, Pass, ArriveStash, PassStash, BeginOprfs, EndOprfs, ResizeBins, vars, bins

LEMMA SeenInit == Init => SeenInv
  <1> SUFFICES ASSUME Init PROVE SeenInv
    OBVIOUS
  <1>1. /\ \A b \in DOMAIN simple : simple[b] = {}
        /\ \A b \in DOMAIN cuckoo : cuckoo[b] = Empty
        /\ mStashIdxs = << >> /\ \A t \in Threads : w[t].idxs = << >> /\ w[t].old = << >>
    BY DEF Init
  <1> QED BY <1>1 DEF SeenInv

(* What a thread goes on with has been listed.                             *)
LEMMA RestSeen ==
  ASSUME TypeInv, SeenInv, NEW t \in Threads
  PROVE  /\ DOMAIN Rest(t) = 1..Len(Rest(t))
         /\ \A i \in DOMAIN Rest(t) : Rest(t)[i][1] \in Seen
  <1>1. /\ Rest(t) \in Seq(Items \X Nat)
        /\ \E place : Matches(w[t].old, Len(w[t].old), Rest(t), place)
    BY RestFacts
  <1>2. PICK place : Matches(w[t].old, Len(w[t].old), Rest(t), place)
    BY <1>1
  <1>3. w[t].old \in Seq(Slot)
    BY DEF TypeInv, HandOK, Workspace, Slot
  <1>4. DOMAIN Rest(t) = 1..Len(Rest(t)) /\ DOMAIN w[t].old = 1..Len(w[t].old)
    BY <1>1, <1>3
  <1>5. ASSUME NEW i \in 1..Len(Rest(t)) PROVE Rest(t)[i][1] \in Seen
    <2>1. Rest(t)[i] = w[t].old[place[i]] /\ w[t].old[place[i]] # Empty /\ place[i] \in DOMAIN w[t].old
      BY <1>2, <1>4 DEF Matches
    <2> QED BY <2>1 DEF SeenInv
  <1> QED BY <1>4, <1>5

(* What has been listed stays listed.                                      *)
LEMMA SeenGrows ==
  ASSUME TypeInv, [Next]_vars
  PROVE  /\ DOMAIN simple' = DOMAIN simple /\ \A b \in DOMAIN simple : simple[b] \subseteq simple'[b]
         /\ Seen \subseteq Seen'
  <1>1. case' = case
    BY CaseStep
  <1>2. simple' = simple \/ \E t \in Threads : InsertSimple(t)
    BY DEF Next, Start, InsertStash, Join, Read, Write, Again, EndBatch, EndStash,
           Arrive, Pass, ArriveStash, PassStash, BeginOprfs, EndOprfs, ResizeBins, vars, bins
  <1>3. DOMAIN simple' = DOMAIN simple /\ \A b \in DOMAIN simple : simple[b] \subseteq simple'[b]
    BY <1>2 DEF InsertSimple
  <1>4. \A x, b : Listed(x, b)' = Listed(x, b)
    BY <1>1, SameCase
  <1>5. Seen \subseteq Seen'
    BY <1>3, <1>4 DEF Seen
  <1> QED BY <1>3, <1>5

(* Each action keeps the two tables in step.                               *)
LEMMA SeenNext ==
  ASSUME TypeInv, BarrierInv, SeenInv, [Next]_vars
  PROVE  SeenInv'
  <1> USE DEF At, Goes
  <1>0. /\ case' = case /\ Threads' = Threads /\ \A b : KindOf(b)' = KindOf(b)
        /\ \A x, b : Listed(x, b)' = Listed(x, b)
        /\ DOMAIN simple' = DOMAIN simple /\ Seen \subseteq Seen' /\ TypeInv'
        /\ DOMAIN cuckoo' = DOMAIN cuckoo /\ w \in [Threads -> Workspace]
    <2>1. case' = case /\ TypeInv'
      BY CaseStep, TypeNext
    <2>2. DOMAIN cuckoo' = DOMAIN cuckoo
      BY <2>1 DEF TypeInv, NumberOf, Total
    <2> QED BY <2>1, <2>2, SameCase, SeenGrows DEF TypeInv
  <1> DEFINE S1 == \A b \in DOMAIN simple : \A e \in simple[b] : e \in Listed(e[1], b)
             S2 == \A b \in DOMAIN cuckoo : cuckoo[b] # Empty =>
                     /\ cuckoo[b][1] \in Seen
                     /\ b = Addr(case.cuckoo, KindOf(b), cuckoo[b][1], cuckoo[b][2])
             S3 == \A i \in DOMAIN mStashIdxs : mStashIdxs[i] \in Seen
             S4(h) == /\ \A i \in DOMAIN h.idxs : h.idxs[i] \in Seen
                      /\ \A i \in DOMAIN h.old : h.old[i] # Empty => h.old[i][1] \in Seen
  <1>a. S1 /\ S2 /\ S3 /\ \A t \in Threads : S4(w[t])
    BY DEF SeenInv
  <1>b. ASSUME S1', S2', S3', \A t \in Threads : S4(w[t])' PROVE SeenInv'
    BY <1>0, <1>b DEF SeenInv
  <1>c. simple' = simple => S1'
    BY <1>0, <1>a
  <1>d. cuckoo' = cuckoo => S2'
    <2>1. \A kind, x, k : Addr(case.cuckoo, kind, x, k)' = Addr(case.cuckoo, kind, x, k)
      BY <1>0 DEF Addr
    <2> QED BY <1>0, <1>a, <2>1
  <1>e. mStashIdxs' = mStashIdxs => S3'
    BY <1>0, <1>a
  <1>f. \A t \in Threads : w'[t] = w[t] => S4(w[t])'
    BY <1>0, <1>a
  <1> HIDE DEF S1, S2, S3
  <1>1. CASE UNCHANGED <<simple, cuckoo, mStashIdxs, w>>
    BY <1>1, <1>b, <1>c, <1>d, <1>e, <1>f
  <1>2. ASSUME NEW t \in Threads, InsertSimple(t) PROVE SeenInv'
    <2> DEFINE c == Cardinality(Batch(t))
               idxs == [i \in 1..c |-> next[t] + i - 1]
    <2>1. /\ Batch(t) \subseteq Items /\ c \in Nat /\ next[t] \in Nat
          /\ Batch(t) = next[t]..(next[t] + c - 1)
      BY <1>2, BatchFacts DEF InsertSimple, TypeInv
    <2>2. simple' = [b \in DOMAIN simple |-> simple[b] \cup UNION {Listed(x, b) : x \in Batch(t)}]
      BY <1>2 DEF InsertSimple
    <2>3. ASSUME NEW x \in Batch(t) PROVE x \in Seen'
      <3>1. \A b \in DOMAIN simple' : Listed(x, b) \subseteq simple'[b]
        BY <1>0, <2>2
      <3> QED BY <1>0, <2>1, <3>1 DEF Seen
    <2>4. S1'
      <3>1. \A x, b : \A e \in Listed(x, b) : e[1] = x
        BY DEF Listed
      <3>2. ASSUME NEW b \in DOMAIN simple, NEW e \in simple'[b] PROVE e \in Listed(e[1], b)
        <4>1. CASE e \in simple[b]
          BY <1>a, <4>1 DEF S1
        <4>2. CASE e \notin simple[b]
          <5>1. PICK x \in Batch(t) : e \in Listed(x, b)
            BY <2>2, <4>2
          <5> QED BY <3>1, <5>1
        <4> QED BY <4>1, <4>2
      <3> QED BY <1>0, <3>2 DEF S1
    <2>5. /\ w'[t].idxs = idxs /\ w'[t].old = << >>
          /\ \A u \in Threads \ {t} : w'[u] = w[u]
      BY <1>0, <1>2 DEF InsertSimple, Fresh
    <2>6. \A i \in 1..c : idxs[i] \in Batch(t)
      BY <2>1
    <2> HIDE DEF c, idxs
    <2>7. DOMAIN w'[t].idxs = 1..c
      BY <2>5 DEF idxs
    <2>8. S4(w[t])'
      BY <2>3, <2>5, <2>6, <2>7
    <2>9. \A u \in Threads : S4(w[u])'
      BY <1>f, <2>5, <2>8
    <2>10. UNCHANGED <<cuckoo, mStashIdxs>>
      BY <1>2 DEF InsertSimple
    <2> QED BY <1>b, <1>d, <1>e, <2>4, <2>9, <2>10
  <1>3. ASSUME NEW t \in Threads, Read(t) PROVE SeenInv'
    <2>1. UNCHANGED <<simple, cuckoo, mStashIdxs>>
      BY <1>3 DEF Read, bins
    <2>2. \A u \in Threads \ {t} : w'[u] = w[u]
      BY <1>0, <1>3 DEF Read
    <2>3. w'[t].idxs = w[t].idxs /\ w'[t].old = Append(w[t].old, cuckoo[Bin(t)])
      BY <1>0, <1>3 DEF Read, Workspace
    <2>4. Bin(t) \in DOMAIN cuckoo /\ w[t].old \in Seq(Slot) /\ cuckoo[Bin(t)] \in Slot
      <3>1. Bin(t) \in DOMAIN cuckoo
        BY <1>3, BinFacts DEF Read
      <3> QED BY <3>1 DEF TypeInv, HandOK, Workspace, Slot
    <2>5. cuckoo[Bin(t)] # Empty => cuckoo[Bin(t)][1] \in Seen
      BY <1>a, <2>4 DEF S2
    <2>6. ASSUME NEW i \in DOMAIN w'[t].old, w'[t].old[i] # Empty PROVE w'[t].old[i][1] \in Seen
      <3>1. \/ i \in DOMAIN w[t].old /\ w'[t].old[i] = w[t].old[i]
            \/ w'[t].old[i] = cuckoo[Bin(t)]
        BY <2>3, <2>4
      <3> QED BY <1>a, <2>5, <2>6, <3>1
    <2>7. S4(w[t])'
      BY <1>0, <1>a, <2>3, <2>6
    <2>8. \A u \in Threads : S4(w[u])'
      BY <1>f, <2>2, <2>7
    <2> QED BY <1>b, <1>c, <1>d, <1>e, <2>1, <2>8
  <1>4. ASSUME NEW t \in Threads, Write(t) PROVE SeenInv'
    <2> DEFINE x == w[t].idxs[Turn(t)]
               k == w[t].hashes[Turn(t)]
    <2>1. UNCHANGED <<simple, mStashIdxs, w>> /\ cuckoo' = [cuckoo EXCEPT ![Bin(t)] = <<x, k>>]
      BY <1>4 DEF Write
    <2>2. /\ Turn(t) \in 1..Len(w[t].idxs) /\ KindOf(Bin(t)) = w[t].kind
          /\ Bin(t) = Addr(case.cuckoo, w[t].kind, x, k) /\ Bin(t) \in DOMAIN cuckoo
      BY <1>4, BinFacts DEF Write
    <2>3. w[t].idxs \in Seq(Items)
      BY <1>0 DEF Workspace
    <2>4. x \in Seen
      BY <1>a, <2>2, <2>3
    <2> HIDE DEF x, k
    <2>5. \A kind, y, j : Addr(case.cuckoo, kind, y, j)' = Addr(case.cuckoo, kind, y, j)
      BY <1>0 DEF Addr
    <2>6. ASSUME NEW b \in DOMAIN cuckoo, cuckoo'[b] # Empty
          PROVE  /\ cuckoo'[b][1] \in Seen
                 /\ b = Addr(case.cuckoo, KindOf(b), cuckoo'[b][1], cuckoo'[b][2])
      <3>1. CASE b = Bin(t)
        BY <2>1, <2>2, <2>4, <3>1
      <3>2. CASE b # Bin(t)
        <4>1. cuckoo'[b] = cuckoo[b]
          BY <2>1, <3>2
        <4> QED BY <1>a, <2>6, <4>1 DEF S2
      <3> QED BY <3>1, <3>2
    <2>7. S2'
      BY <1>0, <2>5, <2>6 DEF S2
    <2> QED BY <1>b, <1>c, <1>e, <1>f, <2>1, <2>7
  <1>5. ASSUME NEW t \in Threads, Again(t) PROVE SeenInv'
    <2>1. UNCHANGED <<simple, cuckoo>> /\ \A u \in Threads \ {t} : w'[u] = w[u]
      BY <1>0, <1>5 DEF Again
    <2>2. w'[t].idxs = [i \in DOMAIN Rest(t) |-> Rest(t)[i][1]] /\ w'[t].old = << >>
      BY <1>0, <1>5 DEF Again
    <2>3. Rest(t) \in Seq(Items \X Nat)
      BY RestFacts
    <2>4. \A i \in DOMAIN Rest(t) : Rest(t)[i][1] \in Seen
      BY RestSeen
    <2>5. S4(w[t])'
      BY <1>0, <2>2, <2>4
    <2>6. \A u \in Threads : S4(w[u])'
      BY <1>f, <2>1, <2>5
    <2>7. S3'
      <3>1. CASE w[t].kind = 1
        BY <1>5, <1>e, <3>1 DEF Again
      <3>2. CASE w[t].kind # 1
        <4>1. mStashIdxs' = [i \in DOMAIN mStashIdxs |-> IF i <= Len(Rest(t)) THEN Rest(t)[i][1]
                                                                          ELSE mStashIdxs[i]]
          BY <1>5, <3>2 DEF Again
        <4>2. \A i \in DOMAIN mStashIdxs : i <= Len(Rest(t)) => i \in DOMAIN Rest(t)
          BY <2>3 DEF TypeInv
        <4> QED BY <1>0, <1>a, <2>4, <4>1, <4>2 DEF S3
      <3> QED BY <3>1, <3>2
    <2> QED BY <1>b, <1>c, <1>d, <2>1, <2>6, <2>7
  <1>6. ASSUME NEW t \in Threads, EndBatch(t) PROVE SeenInv'
    <2> DEFINE r == [i \in DOMAIN Rest(t) |-> Rest(t)[i][1]]
    <2>1. UNCHANGED <<simple, cuckoo, w>> /\ mStashIdxs' = mStashIdxs \o r
      BY <1>6 DEF EndBatch
    <2>2. r \in Seq(Items) /\ mStashIdxs \in Seq(Items)
      BY RestFacts DEF TypeInv
    <2>3. \A i \in DOMAIN r : r[i] \in Seen
      BY RestSeen
    <2> HIDE DEF r
    <2>4. ASSUME NEW i \in DOMAIN mStashIdxs' PROVE mStashIdxs'[i] \in Seen
      <3>1. \/ i \in DOMAIN mStashIdxs /\ mStashIdxs'[i] = mStashIdxs[i]
            \/ i - Len(mStashIdxs) \in DOMAIN r /\ mStashIdxs'[i] = r[i - Len(mStashIdxs)]
        BY <2>1, <2>2
      <3> QED BY <1>a, <2>3, <3>1 DEF S3
    <2>5. S3'
      BY <1>0, <2>4 DEF S3
    <2> QED BY <1>b, <1>c, <1>d, <1>f, <2>1, <2>5
  <1>7. ASSUME InsertStash PROVE SeenInv'
    <2>1. UNCHANGED <<simple, cuckoo, mStashIdxs>> /\ 0 \in Threads
      BY <1>7, CaseFacts DEF InsertStash, bins, TypeInv
    <2>2. /\ w'[0].idxs = mStashIdxs /\ w'[0].old = << >>
          /\ \A u \in Threads \ {0} : w'[u] = w[u]
      BY <1>0, <1>7, <2>1 DEF InsertStash, Fresh
    <2>3. S4(w[0])'
      BY <1>0, <1>a, <2>2 DEF S3
    <2>4. \A u \in Threads : S4(w[u])'
      BY <1>f, <2>2, <2>3
    <2> QED BY <1>b, <1>c, <1>d, <1>e, <2>1, <2>4
  <1>8. CASE \/ UNCHANGED vars \/ Start \/ Join
             \/ \E t \in Threads : \/ EndStash(t) \/ Arrive(t) \/ Pass(t) \/ ArriveStash(t)
                                   \/ PassStash(t) \/ BeginOprfs(t) \/ EndOprfs(t) \/ ResizeBins(t)
    BY <1>1, <1>8 DEF vars, bins, Start, Join, EndStash, Arrive, Pass, ArriveStash, PassStash,
                      BeginOprfs, EndOprfs, ResizeBins
  <1> QED BY <1>2, <1>3, <1>4, <1>5, <1>6, <1>7, <1>8 DEF Next

(* The one entry of a listed item is that of its least hash index.         *)
LEMMA CounterpartHolds ==
  ASSUME TypeInv, SeenInv
  PROVE  Counterpart
  <1> SUFFICES ASSUME NEW b \in DOMAIN cuckoo, cuckoo[b] # Empty, case.cuckoo = case.simple
               PROVE  Cardinality({e \in simple[b] : e[1] = cuckoo[b][1]}) = 1
    BY DEF Counterpart
  <1> DEFINE x == cuckoo[b][1]
             k == cuckoo[b][2]
             kind == KindOf(b)
  <1>1. /\ x \in Seen /\ b = Addr(case.cuckoo, kind, x, k)
        /\ k \in Nat /\ k < numHashes[kind] /\ kind \in 1..2
        /\ b \in DOMAIN simple
    <2>1. cuckoo[b] \in Items \X Nat /\ k < numHashes[kind]
      BY DEF TypeInv, Slot
    <2>2. b \in DOMAIN simple
      BY DEF TypeInv
    <2>3. x \in Seen /\ b = Addr(case.cuckoo, kind, x, k)
      BY DEF SeenInv
    <2> QED BY <2>1, <2>2, <2>3 DEF KindOf
  <1> HIDE DEF x, k, kind
  <1>2. Entries(x, b) \in SUBSET Nat /\ Entries(x, b) # {}
    <2>1. numHashes[1] \in Nat /\ numHashes[2] \in Nat
      BY SizeFacts
    <2>2. Entries(x, b) \in SUBSET Nat
      BY <2>1 DEF Entries
    <2>3. CASE kind = 1
      <3>1. k \in Entries(x, b)
        BY <1>1, <2>1, <2>3 DEF Entries
      <3> QED BY <2>2, <3>1
    <2>4. CASE kind = 2
      <3>1. numHashes[1] + k \in Entries(x, b)
        BY <1>1, <2>1, <2>4 DEF Entries
      <3> QED BY <2>2, <3>1
    <2> QED BY <1>1, <2>3, <2>4
  <1>3. PICK h \in Entries(x, b) : \A j \in Entries(x, b) : h <= j
    BY <1>2, LeastNat
  <1>4. \A g \in Entries(x, b) : (\A j \in Entries(x, b) : g <= j) => g = h
    BY <1>2, <1>3
  <1>5. Listed(x, b) = {<<x, h>>}
    BY <1>3, <1>4 DEF Listed
  <1>6. {e \in simple[b] : e[1] = x} = {<<x, h>>}
    <2>1. <<x, h>> \in simple[b]
      BY <1>1, <1>5 DEF Seen
    <2>2. \A e \in simple[b] : e[1] = x => e = <<x, h>>
      BY <1>1, <1>5 DEF SeenInv
    <2> QED BY <2>1, <2>2
  <1>7. Cardinality({<<x, h>>}) = 1
    BY FS_Singleton
  <1> QED BY <1>6, <1>7 DEF x

(***************************************************************************)
(* The exchanges.                                                          *)

(***************************************************************************)
(* A race is never forgotten.                                              *)
LEMMA RacedKept ==
  ASSUME [Next]_vars, ~ raced'
  PROVE  ~ raced
  BY DEF Next, Start, InsertStash, Join, InsertSimple, Read, Write, Again, EndBatch, EndStash,
         Arrive, Pass, ArriveStash, PassStash, BeginOprfs, EndOprfs, ResizeBins, vars, bins

(* The bin of a thread that does not move.                                 *)
LEMMA BinSame ==
  ASSUME case' = case, NEW u, pc'[u] = pc[u], w'[u] = w[u]
  PROVE  Bin(u)' = Bin(u)
  BY DEF Bin, Turn, Addr

LEMMA ExchangeInit == Init => ExchangeInv
  BY DEF Init, ExchangeInv

(* A bin is not changed between the read and the write of a thread.        *)
LEMMA ExchangeNext ==
  ASSUME TypeInv, ExchangeInv, [Next]_vars
  PROVE  ExchangeInv'
  <1> USE DEF At, Goes
  <1> SUFFICES ASSUME ~ raced' PROVE ExchangeInv'
    BY DEF ExchangeInv
  <1>0. /\ case' = case /\ Threads' = Threads /\ ~ raced
        /\ pc \in [Threads -> AllStops] /\ w \in [Threads -> Workspace]
    BY CaseStep, SameCase, RacedKept DEF TypeInv
  <1>1. \A t \in Threads : pc[t] = "write" =>
          /\ cuckoo[Bin(t)] = w[t].old[Len(w[t].old)]
          /\ \A u \in Threads \ {t} : pc[u] = "write" => Bin(u) # Bin(t)
    BY <1>0 DEF ExchangeInv
  (* No thread goes on to an exchange.                                     *)
  <1>2. ASSUME cuckoo' = cuckoo,
               \A u \in Threads : pc'[u] = "write" => pc[u] = "write" /\ w'[u] = w[u]
        PROVE  ExchangeInv'
    <2>1. ASSUME NEW u \in Threads, pc'[u] = "write"
          PROVE  pc[u] = "write" /\ w'[u] = w[u] /\ Bin(u)' = Bin(u)
      BY <1>0, <1>2, <2>1, BinSame
    <2> QED BY <1>0, <1>1, <1>2, <2>1 DEF ExchangeInv
  <1>3. ASSUME NEW t \in Threads, Read(t) PROVE ExchangeInv'
    <2>1. /\ cuckoo' = cuckoo /\ pc' = [pc EXCEPT ![t] = "write"]
          /\ \A u \in Threads \ {t} : ~ (pc[u] = "write" /\ Bin(u) = Bin(t))
          /\ \A u \in Threads \ {t} : w'[u] = w[u]
      BY <1>0, <1>3 DEF Read, bins
    <2>2. w'[t].old = Append(w[t].old, cuckoo[Bin(t)]) /\ w'[t].idxs = w[t].idxs
          /\ w'[t].hashes = w[t].hashes /\ w'[t].kind = w[t].kind
      BY <1>0, <1>3 DEF Read, Workspace
    <2>3. w[t].old \in Seq(Slot) /\ cuckoo[Bin(t)] \in Slot
      BY <1>3, BinFacts DEF Read, TypeInv, HandOK, Workspace, Slot
    <2>4. Len(w'[t].old) = Len(w[t].old) + 1 /\ w'[t].old[Len(w'[t].old)] = cuckoo[Bin(t)]
      BY <2>2, <2>3
    <2>5. Bin(t)' = Bin(t)
      <3>1. pc'[t] = "write" /\ pc[t] = "read"
        BY <1>0, <1>3, <2>1 DEF Read
      <3>2. Turn(t)' = Turn(t)
        BY <2>4, <3>1 DEF Turn
      <3> QED BY <1>0, <2>2, <3>2 DEF Bin, Addr
    <2>6. ASSUME NEW u \in Threads \ {t} PROVE pc'[u] = pc[u] /\ w'[u] = w[u] /\ Bin(u)' = Bin(u)
      BY <1>0, <2>1, <2>6, BinSame
    <2> QED BY <1>0, <1>1, <2>1, <2>4, <2>5, <2>6 DEF ExchangeInv
  <1>4. ASSUME NEW t \in Threads, Write(t) PROVE ExchangeInv'
    <2> DEFINE v == <<w[t].idxs[Turn(t)], w[t].hashes[Turn(t)]>>
    <2>1. pc[t] = "write" /\ w' = w /\ cuckoo' = [cuckoo EXCEPT ![Bin(t)] = v]
      BY <1>4 DEF Write
    <2>2. pc'[t] # "write" /\ \A u \in Threads \ {t} : pc'[u] = pc[u]
      BY <1>0, <1>4 DEF Write
    <2> HIDE DEF v
    <2>3. ASSUME NEW u \in Threads \ {t} PROVE Bin(u)' = Bin(u)
      BY <1>0, <2>1, <2>2, <2>3, BinSame
    <2>4. \A u \in Threads \ {t} : pc[u] = "write" => Bin(u) \in DOMAIN cuckoo
      BY BinFacts
    <2>5. \A u \in Threads \ {t} : pc[u] = "write" => cuckoo'[Bin(u)] = cuckoo[Bin(u)]
      BY <1>1, <2>1, <2>4
    <2> QED BY <1>0, <1>1, <2>1, <2>2, <2>3, <2>5 DEF ExchangeInv
  <1>5. CASE UNCHANGED vars \/ Start \/ Join
    <2>1. cuckoo' = cuckoo /\ pc' = pc /\ w' = w
      BY <1>5 DEF vars, bins, Start, Join
    <2> QED BY <1>2, <2>1
  <1>6. CASE InsertStash
    <2>1. 0 \in Threads /\ cuckoo' = cuckoo
      BY <1>6, CaseFacts DEF InsertStash, bins, TypeInv
    <2> QED BY <1>0, <1>2, <1>6, <2>1 DEF InsertStash
  <1>7. ASSUME NEW t \in Threads,
               \/ InsertSimple(t) \/ Again(t) \/ EndBatch(t) \/ EndStash(t) \/ Arrive(t) \/ Pass(t)
               \/ ArriveStash(t) \/ PassStash(t) \/ BeginOprfs(t) \/ EndOprfs(t) \/ ResizeBins(t)
        PROVE  ExchangeInv'
    <2>1. cuckoo' = cuckoo
      BY <1>7 DEF InsertSimple, Again, EndBatch, EndStash, Arrive, Pass, ArriveStash, PassStash,
                  BeginOprfs, EndOprfs, ResizeBins, bins
    <2>2. pc'[t] # "write" /\ \A u \in Threads \ {t} : pc'[u] = pc[u]
      BY <1>0, <1>7 DEF InsertSimple, Again, EndBatch, EndStash, Arrive, Pass, ArriveStash,
                        PassStash, BeginOprfs, EndOprfs, ResizeBins
    <2>3. \A u \in Threads \ {t} : w'[u] = w[u]
      BY <1>0, <1>7 DEF InsertSimple, Again, EndBatch, EndStash, Arrive, Pass, ArriveStash,
                        PassStash, BeginOprfs, EndOprfs, ResizeBins
    <2> QED BY <1>2, <2>1, <2>2, <2>3
  <1> QED BY <1>3, <1>4, <1>5, <1>6, <1>7 DEF Next

(***************************************************************************)
(* The places of an item.                                                  *)

(***************************************************************************)
(* The places of x in workspace h of thread t of which n entries are done. *)
HandAt(h, t, n, x) ==
  {<<"hand", t, i>> : i \in {j \in (n + 1)..Len(h.idxs) : h.idxs[j] = x}}
    \cup {<<"old", t, i>> : i \in {j \in 1..n : h.old[j] # Empty /\ h.old[j][1] = x}}

(* The workspace of t counts while t is between two batches.               *)
LEMMA HandPlaces ==
  ASSUME NEW t, NEW x
  PROVE  /\ pc[t] \notin Hand => InHand(t, x) = {}
         /\ pc[t] \in {"read", "sort"} => InHand(t, x) = HandAt(w[t], t, Len(w[t].old), x)
         /\ pc[t] = "write" => InHand(t, x) = HandAt(w[t], t, Len(w[t].old) - 1, x)
         /\ pc'[t] \notin Hand => InHand(t, x)' = {}
         /\ pc'[t] \in {"read", "sort"} => InHand(t, x)' = HandAt(w'[t], t, Len(w'[t].old), x)
         /\ pc'[t] = "write" => InHand(t, x)' = HandAt(w'[t], t, Len(w'[t].old) - 1, x)
  BY DEF InHand, HandAt, Hand

(* What an action of thread t can move, and what it cannot.                *)
Here(t, x) == Coming(x) \cup InStash(x) \cup InBins(x) \cup InHand(t, x)

Kept(t, x) == \/ Here(t, x)' = Here(t, x)
              \/ Here(t, x) # {} /\ \E q : Here(t, x)' = {q}

Others(t, x) == UNION {InHand(u, x) : u \in Threads \ {t}}

(* The places of x are here, or in the hands of other threads.             *)
LEMMA PlacesSplit ==
  ASSUME NEW t \in Threads, NEW x
  PROVE  Places(x) = Here(t, x) \cup Others(t, x) /\ Here(t, x) \cap Others(t, x) = {}
  <1>1. /\ \A p \in Coming(x) : p[1] = "input"
        /\ \A p \in InStash(x) : p[1] = "stash"
        /\ \A p \in InBins(x) : p[1] = "bin"
    BY DEF Coming, InStash, InBins
  <1>2. \A u : \A p \in InHand(u, x) : p[1] \in {"hand", "old"} /\ p[2] = u
    <2>1. \A u, h, n : \A p \in HandAt(h, u, n, x) : p[1] \in {"hand", "old"} /\ p[2] = u
      BY DEF HandAt
    <2>2. \A u : InHand(u, x) = {} \/ \E h, n : InHand(u, x) = HandAt(h, u, n, x)
      <3>1. TAKE u
      <3> QED BY HandPlaces DEF Hand
    <2> QED BY <2>1, <2>2
  <1>3. Places(x) = Here(t, x) \cup Others(t, x)
    BY DEF Places, Here, Others
  <1>4. Here(t, x) \cap Others(t, x) = {}
    BY <1>1, <1>2 DEF Here, Others
  <1> QED BY <1>3, <1>4

(* An item has one place still when an action of thread t has moved it     *)
(* from one place to another, or has not moved it.                         *)
LEMMA Moved ==
  ASSUME case' = case, NEW t \in Threads, NEW x, NEW p, Places(x) = {p},
         \A u \in Threads \ {t} : pc'[u] = pc[u] /\ w'[u] = w[u],
         Kept(t, x)
  PROVE  \E q : Places(x)' = {q}
  <1>1. Threads' = Threads
    BY SameCase
  <1>2. \A u \in Threads \ {t} : InHand(u, x)' = InHand(u, x)
    <2>1. TAKE u \in Threads \ {t}
    <2>2. pc'[u] = pc[u] /\ w'[u] = w[u]
      OBVIOUS
    <2> QED BY <2>2 DEF InHand
  <1>3. Others(t, x)' = Others(t, x)
    BY <1>1, <1>2 DEF Others
  <1>4. Places(x)' = Here(t, x)' \cup Others(t, x)'
    BY <1>1 DEF Places, Here, Others
  <1>5. Places(x) = Here(t, x) \cup Others(t, x) /\ Here(t, x) \cap Others(t, x) = {}
    BY PlacesSplit
  <1>6. CASE Here(t, x)' = Here(t, x)
    BY <1>3, <1>4, <1>5, <1>6
  <1>7. CASE Here(t, x) # {} /\ \E q : Here(t, x)' = {q}
    <2>1. Others(t, x) = {}
      BY <1>5, <1>7
    <2>2. PICK q : Here(t, x)' = {q}
      BY <1>7
    <2>3. Places(x)' = {q}
      BY <1>3, <1>4, <2>1, <2>2
    <2> QED BY <2>3
  <1> QED BY <1>6, <1>7 DEF Kept

(* An item that is here is nowhere else.                                   *)
LEMMA OnePlace ==
  ASSUME NEW t \in Threads, NEW x, NEW p, Places(x) = {p}, NEW a \in Here(t, x)
  PROVE  Here(t, x) = {a}
  BY PlacesSplit

(* The parts of Here that an action leaves.                                *)
LEMMA SamePlaces ==
  ASSUME case' = case, NEW x
  PROVE  /\ next' = next => Coming(x)' = Coming(x)
         /\ mStashIdxs' = mStashIdxs /\ (w'[0].kind = 2 <=> w[0].kind = 2) => InStash(x)' = InStash(x)
         /\ cuckoo' = cuckoo => InBins(x)' = InBins(x)
  BY SameCase DEF Coming, InStash, InBins

LEMMA PlaceInit == Init => PlaceInv
  <1> SUFFICES ASSUME Init, NEW x \in Items PROVE \E p : Places(x) = {p}
    BY DEF PlaceInv
  <1>1. /\ case \in Cases /\ mN \in Nat /\ Threads \subseteq Nat
        /\ \A t \in Threads : pc[t] = "batch" /\ next[t] = From(t, mN)
        /\ mStashIdxs = << >> /\ \A b \in DOMAIN cuckoo : cuckoo[b] = Empty
    BY CaseFacts, SizeFacts DEF Init, Threads
  <1>2. InBins(x) = {} /\ InStash(x) = {}
    BY <1>1 DEF InBins, InStash
  <1>3. \A t \in Threads : InHand(t, x) = {}
    BY <1>1, HandPlaces DEF Hand
  <1>4. x \in 0..(mN - 1) /\ x \in Int
    BY <1>1 DEF Items
  <1>5. PICK t \in Threads : From(t, mN) <= x /\ x < From(t + 1, mN)
    BY <1>1, <1>4, FromCovers
  <1>6. \A u \in Threads : From(u, mN) <= x /\ x < From(u + 1, mN) => u = t
    BY <1>1, <1>4, <1>5, FromApart
  <1>7. Coming(x) = {<<"input", t, x>>}
    BY <1>1, <1>5, <1>6 DEF Coming
  <1> QED BY <1>2, <1>3, <1>7 DEF Places
(* A sequence that follows another one.                                    *)
LEMMA Joined ==
  ASSUME NEW U, NEW a \in Seq(U), NEW b \in Seq(U)
  PROVE  /\ Len(a) \in Nat /\ Len(b) \in Nat /\ DOMAIN (a \o b) = 1..(Len(a) + Len(b))
         /\ \A j \in 1..Len(a) : (a \o b)[j] = a[j]
         /\ \A i \in 1..Len(b) : (a \o b)[Len(a) + i] = b[i]
  <1>1. Len(a) \in Nat /\ Len(b) \in Nat
    OBVIOUS
  <1>2. a \o b \in Seq(U)
    OBVIOUS
  <1>3. Len(a \o b) = Len(a) + Len(b)
    OBVIOUS
  <1>4. DOMAIN (a \o b) = 1..(Len(a) + Len(b))
    BY <1>2, <1>3
  <1>5. \A j \in 1..Len(a) : (a \o b)[j] = a[j]
    OBVIOUS
  <1>6. ASSUME NEW i \in 1..Len(b) PROVE (a \o b)[Len(a) + i] = b[i]
    <2>1. Len(a) + i \in 1..(Len(a) + Len(b)) /\ ~ (Len(a) + i <= Len(a)) /\ (Len(a) + i) - Len(a) = i
      BY <1>1
    <2>2. (a \o b)[Len(a) + i] = b[(Len(a) + i) - Len(a)]
      BY <2>1
    <2> QED BY <2>1, <2>2
  <1> QED BY <1>1, <1>4, <1>5, <1>6

(* What a thread that has gone through its batch took out of the bins, and *)
(* what it goes on with.                                                   *)
OldOf(t, x) == {j \in 1..Len(w[t].old) : w[t].old[j] # Empty /\ w[t].old[j][1] = x}

RestOf(t, x) == {i \in 1..Len(Rest(t)) : Rest(t)[i][1] = x}

(* The entries that were not empty become the next round, one to one.      *)
LEMMA SortPlaces ==
  ASSUME TypeInv, NEW t \in Threads, NEW x, pc[t] = "sort"
  PROVE  /\ InHand(t, x) = {<<"old", t, j>> : j \in OldOf(t, x)}
         /\ OldOf(t, x) = {} => RestOf(t, x) = {}
         /\ \A j : OldOf(t, x) = {j} => \E i : RestOf(t, x) = {i}
  <1>1. /\ HandOK(w[t], "sort") /\ w[t].old \in Seq(Slot) /\ w[t].idxs \in Seq(Items)
        /\ Len(w[t].old) = Len(w[t].idxs)
    BY DEF TypeInv, HandOK, Workspace, Slot
  <1>2. InHand(t, x) = HandAt(w[t], t, Len(w[t].old), x)
    BY HandPlaces
  <1>3. (Len(w[t].old) + 1)..Len(w[t].idxs) = {}
    BY <1>1
  <1>4. InHand(t, x) = {<<"old", t, j>> : j \in OldOf(t, x)}
    BY <1>2, <1>3 DEF HandAt, OldOf
  <1>5. PICK place : Matches(w[t].old, Len(w[t].old), Rest(t), place)
    BY RestFacts
  <1>6. \A i \in RestOf(t, x) : place[i] \in OldOf(t, x)
    BY <1>5 DEF Matches, RestOf, OldOf
  <1>7. ASSUME NEW j, OldOf(t, x) = {j} PROVE \E i : RestOf(t, x) = {i}
    <2>1. j \in 1..Len(w[t].old) /\ w[t].old[j] # Empty /\ w[t].old[j][1] = x
      BY <1>7 DEF OldOf
    <2>2. PICK i \in 1..Len(Rest(t)) : place[i] = j
      BY <1>5, <2>1 DEF Matches
    <2>3. i \in RestOf(t, x)
      BY <1>5, <2>1, <2>2 DEF Matches, RestOf
    <2>4. \A k \in RestOf(t, x) : k = i
      BY <1>5, <1>6, <1>7, <2>2 DEF Matches, RestOf
    <2>5. RestOf(t, x) = {i}
      BY <2>3, <2>4
    <2> QED BY <2>5
  <1> QED BY <1>4, <1>6, <1>7

(* Each action keeps the one place of an item.                             *)
LEMMA PlaceNext ==
  ASSUME TypeInv, BarrierInv, ExchangeInv, PlaceInv, [Next]_vars
  PROVE  PlaceInv'
  <1> USE DEF At, Goes
  <1> SUFFICES ASSUME ~ raced', stage' # "terminated", NEW x \in Items
               PROVE  \E q : Places(x)' = {q}
    BY DEF PlaceInv
  <1>0. /\ case' = case /\ Threads' = Threads /\ ~ raced /\ case \in Cases
        /\ TakenUp /\ 0 \in Threads /\ x \in Int /\ \A u \in Threads : Behind(u)
        /\ pc \in [Threads -> AllStops] /\ w \in [Threads -> Workspace] /\ next \in [Threads -> Nat]
    <2>1. Items \subseteq Nat
      BY SizeFacts
    <2> QED BY <2>1, CaseStep, SameCase, RacedKept, CaseFacts DEF TypeInv, BarrierInv
  <1>1. ASSUME stage # "terminated" PROVE \E p : Places(x) = {p}
    BY <1>0, <1>1 DEF PlaceInv
  <1>2. CASE UNCHANGED vars \/ Start \/ Join
    <2>1. UNCHANGED <<bins, pc, next, w>> /\ stage # "terminated"
      BY <1>2 DEF vars, Start, Join
    <2>2. Places(x)' = Places(x)
      BY <1>0, <2>1, SameCase DEF Places, Coming, InStash, InBins, InHand, bins
    <2> QED BY <1>1, <2>1, <2>2
  <1>3. ASSUME NEW t \in Threads,
               \/ EndStash(t) \/ Arrive(t) \/ Pass(t) \/ ArriveStash(t)
               \/ PassStash(t) \/ BeginOprfs(t) \/ EndOprfs(t) \/ ResizeBins(t)
        PROVE  \E q : Places(x)' = {q}
    <2>1. UNCHANGED <<cuckoo, mStashIdxs, next, w>> /\ stage = "running"
      BY <1>3 DEF EndStash, Arrive, Pass, ArriveStash, PassStash, BeginOprfs, EndOprfs,
                  ResizeBins, bins
    <2>2. /\ \A u \in Threads \ {t} : pc'[u] = pc[u] /\ w'[u] = w[u]
          /\ pc'[t] \notin Hand
      BY <1>0, <1>3, <2>1 DEF EndStash, Arrive, Pass, ArriveStash, PassStash, BeginOprfs,
                              EndOprfs, ResizeBins, Hand
    <2>3. InHand(t, x) = {}
      <3>1. CASE EndStash(t)
        <4>1. pc[t] = "sort" /\ Rest(t) = << >>
          BY <1>3, <3>1 DEF EndStash
        <4>2. HandOK(w[t], "sort") /\ w[t].old \in Seq(Slot) /\ w[t].idxs \in Seq(Items)
          BY <4>1 DEF TypeInv, HandOK, Workspace, Slot
        <4>3. PICK place : Matches(w[t].old, Len(w[t].old), Rest(t), place)
          BY RestFacts
        <4>4. \A j \in 1..Len(w[t].old) : w[t].old[j] = Empty
          BY <4>1, <4>3 DEF Matches
        <4>5. HandAt(w[t], t, Len(w[t].old), x) = {}
          BY <4>2, <4>4 DEF HandAt, HandOK
        <4> QED BY <4>1, <4>5, HandPlaces
      <3>2. CASE ~ EndStash(t)
        <4>1. pc[t] \notin Hand
          BY <1>3, <3>2 DEF Arrive, Pass, ArriveStash, PassStash, BeginOprfs, EndOprfs,
                            ResizeBins, Hand
        <4> QED BY <4>1, HandPlaces
      <3> QED BY <3>1, <3>2
    <2>4. InHand(t, x)' = {}
      BY <2>2, HandPlaces
    <2>5. Kept(t, x)
      BY <1>0, <2>1, <2>3, <2>4, SamePlaces DEF Here, Kept
    <2>6. PICK p : Places(x) = {p}
      BY <1>1, <2>1
    <2> QED BY <1>0, <2>2, <2>5, <2>6, Moved
  <1>4. ASSUME NEW t \in Threads, InsertSimple(t) PROVE \E q : Places(x)' = {q}
    <2> DEFINE c == Cardinality(Batch(t))
               idxs == [i \in 1..c |-> next[t] + i - 1]
               a == <<"input", t, x>>
               b == <<"hand", t, x - next[t] + 1>>
    <2>1. /\ c \in Nat \ {0} /\ next[t] \in Nat /\ Batch(t) = next[t]..(next[t] + c - 1)
          /\ next[t] + c <= From(t + 1, mN) /\ From(t + 1, mN) \in Int
      <3>1. c \in Nat \ {0} /\ Batch(t) = next[t]..(next[t] + c - 1)
            /\ next[t] + c \in From(t, mN)..From(t + 1, mN)
        BY <1>4, BatchFacts DEF InsertSimple
      <3>2. From(t, mN) \in Nat /\ From(t + 1, mN) \in Nat
        <4>1. t \in Nat /\ t + 1 \in Nat /\ mN \in Nat
          BY <1>0, CaseFacts, SizeFacts DEF Threads
        <4> QED BY <1>0, <4>1, FromFacts
      <3> QED BY <1>0, <3>1, <3>2
    <2>2. /\ UNCHANGED <<cuckoo, mStashIdxs>> /\ stage = "running" /\ pc[t] = "batch"
          /\ w'[t].kind = 1 /\ w'[t].idxs = idxs /\ w'[t].old = << >> /\ pc'[t] = "read"
          /\ \A u \in Threads \ {t} : pc'[u] = pc[u] /\ w'[u] = w[u] /\ next'[u] = next[u]
          /\ next'[t] = next[t] + c
      BY <1>0, <1>4 DEF InsertSimple, Fresh
    <2> HIDE DEF c
    <2>3. InHand(t, x) = {}
      BY <2>2, HandPlaces DEF Hand
    <2>4. InHand(t, x)' = {<<"hand", t, i>> : i \in {j \in 1..c : next[t] + j - 1 = x}}
      <3>1. InHand(t, x)' = HandAt(w'[t], t, Len(w'[t].old), x)
        BY <2>2, HandPlaces
      <3>2. Len(w'[t].old) = 0 /\ Len(w'[t].idxs) = c /\ \A j \in 1..c : w'[t].idxs[j] = next[t] + j - 1
        BY <2>1, <2>2
      <3>3. Len(w'[t].old) + 1 = 1 /\ 1..Len(w'[t].old) = {}
        BY <3>2
      <3>4. {j \in 1..c : w'[t].idxs[j] = x} = {j \in 1..c : next[t] + j - 1 = x}
        BY <3>2
      <3> QED BY <3>1, <3>2, <3>3, <3>4 DEF HandAt
    <2>5. InStash(x)' = InStash(x) /\ InBins(x)' = InBins(x)
      <3>1. w[0].kind # 2 /\ w'[0].kind # 2
        <4>1. CASE t = 0
          BY <1>0, <2>2, <4>1 DEF TakenUp
        <4>2. CASE t # 0
          <5>1. Early # {}
            BY <2>2 DEF Early
          <5> QED BY <1>0, <2>2, <4>2, <5>1 DEF Behind
        <4> QED BY <4>1, <4>2
      <3> QED BY <1>0, <2>2, <3>1, SamePlaces
    <2>6. PICK p : Places(x) = {p}
      BY <1>1, <2>2
    <2>7. \A u \in Threads \ {t} : pc'[u] = pc[u] /\ w'[u] = w[u]
      BY <2>2
    <2>8. CASE x \in Batch(t)
      <3>1. a \in Coming(x)
        BY <2>1, <2>8 DEF Coming
      <3>2. Here(t, x) = {a}
        BY <2>6, <3>1, OnePlace DEF Here
      <3>3. InStash(x) = {} /\ InBins(x) = {}
        BY <3>2 DEF Here, InStash, InBins
      <3>4. Coming(x)' = {}
        <4>1. ASSUME NEW u \in Threads, next'[u] <= x, x < From(u + 1, mN) PROVE FALSE
          <5>1. u # t
            BY <2>1, <2>2, <2>8, <4>1
          <5>2. <<"input", u, x>> \in Here(t, x)
            BY <2>2, <4>1, <5>1 DEF Here, Coming
          <5> QED BY <3>2, <5>1, <5>2
        <4> QED BY <1>0, <4>1, SameCase DEF Coming
      <3>5. InHand(t, x)' = {b}
        <4>1. {j \in 1..c : next[t] + j - 1 = x} = {x - next[t] + 1}
          BY <1>0, <2>1, <2>8
        <4> QED BY <2>4, <4>1
      <3>6. Here(t, x)' = {b}
        BY <2>5, <3>3, <3>4, <3>5 DEF Here
      <3> HIDE DEF a, b
      <3>7. Kept(t, x)
        BY <3>2, <3>6 DEF Kept
      <3> QED BY <1>0, <2>6, <2>7, <3>7, Moved
    <2>9. CASE x \notin Batch(t)
      <3>1. Coming(x)' = Coming(x)
        <4>1. \A u \in Threads : next'[u] <= x /\ x < From(u + 1, mN)
                                   <=> next[u] <= x /\ x < From(u + 1, mN)
          BY <1>0, <2>1, <2>2, <2>9
        <4> QED BY <1>0, <4>1, SameCase DEF Coming
      <3>2. InHand(t, x)' = {}
        BY <2>1, <2>4, <2>9
      <3>3. Kept(t, x)
        BY <2>3, <2>5, <3>1, <3>2 DEF Here, Kept
      <3> QED BY <1>0, <2>6, <2>7, <3>3, Moved
    <2> QED BY <2>8, <2>9
  <1>5. ASSUME NEW t \in Threads, Read(t) PROVE \E q : Places(x)' = {q}
    <2>1. /\ UNCHANGED <<cuckoo, mStashIdxs, next>> /\ stage = "running" /\ pc[t] = "read"
          /\ pc' = [pc EXCEPT ![t] = "write"] /\ \A u \in Threads \ {t} : w'[u] = w[u]
      BY <1>0, <1>5 DEF Read, bins
    <2>2. /\ w'[t].old = Append(w[t].old, cuckoo[Bin(t)]) /\ w'[t].idxs = w[t].idxs
          /\ w'[t].kind = w[t].kind
      BY <1>0, <1>5 DEF Read, Workspace
    <2>3. w[t].old \in Seq(Slot) /\ cuckoo[Bin(t)] \in Slot
      BY <1>5, BinFacts DEF Read, TypeInv, HandOK, Workspace, Slot
    <2>4. /\ Len(w'[t].old) - 1 = Len(w[t].old)
          /\ \A j \in 1..Len(w[t].old) : w'[t].old[j] = w[t].old[j]
      BY <2>2, <2>3
    <2>5. pc'[t] = "write" /\ \A u \in Threads \ {t} : pc'[u] = pc[u] /\ w'[u] = w[u]
      BY <1>0, <2>1
    <2>6. InHand(t, x)' = HandAt(w'[t], t, Len(w'[t].old) - 1, x)
          /\ InHand(t, x) = HandAt(w[t], t, Len(w[t].old), x)
      BY <2>1, <2>5, HandPlaces
    <2>7. InHand(t, x)' = InHand(t, x)
      BY <2>2, <2>4, <2>6 DEF HandAt
    <2>8. w'[0].kind = w[0].kind
      BY <1>0, <2>2, <2>5
    <2>9. Kept(t, x)
      BY <1>0, <2>1, <2>7, <2>8, SamePlaces DEF Kept, Here
    <2>10. PICK p : Places(x) = {p}
      BY <1>1, <2>1
    <2> QED BY <1>0, <2>5, <2>9, <2>10, Moved
  <1>6. ASSUME NEW t \in Threads, Write(t) PROVE \E q : Places(x)' = {q}
    <2> DEFINE n == Len(w[t].old)
               idxs == w[t].idxs
               old == w[t].old
               B == Bin(t)
               hand(m) == {j \in (m + 1)..Len(idxs) : idxs[j] = x}
               done(m) == {j \in 1..m : old[j] # Empty /\ old[j][1] = x}
    <2>1. /\ UNCHANGED <<mStashIdxs, next, w>> /\ stage = "running" /\ pc[t] = "write"
          /\ cuckoo' = [cuckoo EXCEPT ![B] = <<idxs[Turn(t)], w[t].hashes[Turn(t)]>>]
      BY <1>6 DEF Write
    <2>2. /\ n \in 1..Len(idxs) /\ Turn(t) = n /\ B \in DOMAIN cuckoo
      BY <2>1, BinFacts
    <2>3. old[n] = cuckoo[B]
      BY <1>0, <2>1 DEF ExchangeInv
    <2>4. cuckoo'[B] # Empty /\ cuckoo'[B][1] = idxs[n] /\ DOMAIN cuckoo' = DOMAIN cuckoo
          /\ \A d \in DOMAIN cuckoo \ {B} : cuckoo'[d] = cuckoo[d]
      <3> DEFINE v == <<idxs[Turn(t)], w[t].hashes[Turn(t)]>>
      <3>1. v # Empty /\ v[1] = idxs[n]
        BY <2>2 DEF Empty
      <3>2. cuckoo \in [NumberOf(case.cuckoo) -> Slot]
        BY DEF TypeInv
      <3>3. cuckoo' = [cuckoo EXCEPT ![B] = v]
        BY <2>1
      <3> HIDE DEF v
      <3>4. cuckoo'[B] = v
        BY <2>2, <3>2, <3>3
      <3> QED BY <2>2, <3>1, <3>2, <3>3, <3>4
    <2>5. pc'[t] \in {"read", "sort"} /\ \A u \in Threads \ {t} : pc'[u] = pc[u] /\ w'[u] = w[u]
      BY <1>0, <1>6, <2>1 DEF Write
    <2>6. n \in Nat /\ Len(idxs) \in Nat
      <3>1. idxs \in Seq(Items)
        BY <1>0 DEF Workspace
      <3> QED BY <2>2, <3>1
    <2>7. /\ InHand(t, x) = {<<"hand", t, i>> : i \in hand(n - 1)} \cup {<<"old", t, i>> : i \in done(n - 1)}
          /\ InHand(t, x)' = {<<"hand", t, i>> : i \in hand(n)} \cup {<<"old", t, i>> : i \in done(n)}
      <3>1. /\ InHand(t, x) = HandAt(w[t], t, n - 1, x)
            /\ InHand(t, x)' = HandAt(w[t], t, n, x)
        BY <2>1, <2>5, HandPlaces
      <3> QED BY <3>1 DEF HandAt
    <2>8. /\ idxs[n] = x => n \in hand(n - 1)
          /\ hand(n) = hand(n - 1) \ {n} /\ done(n - 1) = done(n) \ {n}
          /\ n \in done(n) <=> cuckoo[B] # Empty /\ cuckoo[B][1] = x
          /\ n \in hand(n - 1) => idxs[n] = x
      BY <2>2, <2>3, <2>6
    <2> HIDE DEF n, idxs, old, B, hand, done
    <2>9. /\ InBins(x) = {<<"bin", 0, d>> : d \in {e \in DOMAIN cuckoo : cuckoo[e] # Empty /\ cuckoo[e][1] = x}}
          /\ InBins(x)' = {<<"bin", 0, d>> : d \in {e \in DOMAIN cuckoo : cuckoo'[e] # Empty /\ cuckoo'[e][1] = x}}
      BY <2>4 DEF InBins
    <2>10. Coming(x)' = Coming(x) /\ InStash(x)' = InStash(x)
      BY <1>0, <2>1, SamePlaces
    <2>11. PICK p : Places(x) = {p}
      BY <1>1, <2>1
    <2>12. /\ \A i \in hand(n - 1) : <<"hand", t, i>> \in Here(t, x)
           /\ \A i \in done(n - 1) : <<"old", t, i>> \in Here(t, x)
           /\ \A d \in DOMAIN cuckoo : cuckoo[d] # Empty /\ cuckoo[d][1] = x =>
                <<"bin", 0, d>> \in Here(t, x)
      <3>1. \A i \in hand(n - 1) : <<"hand", t, i>> \in InHand(t, x)
        BY <2>7
      <3>2. \A i \in done(n - 1) : <<"old", t, i>> \in InHand(t, x)
        BY <2>7
      <3>3. \A d \in DOMAIN cuckoo : cuckoo[d] # Empty /\ cuckoo[d][1] = x =>
              <<"bin", 0, d>> \in InBins(x)
        BY DEF InBins
      <3> QED BY <3>1, <3>2, <3>3 DEF Here
    (* The item goes into the bin.                                         *)
    <2>13. CASE idxs[n] = x
      <3> DEFINE a == <<"hand", t, n>>
                 b == <<"bin", 0, B>>
      <3>1. Here(t, x) = {a}
        <4>1. a \in Here(t, x)
          BY <2>7, <2>8, <2>13 DEF Here
        <4> QED BY <2>11, <4>1, OnePlace
      <3>2. Coming(x) = {} /\ InStash(x) = {} /\ InBins(x) = {}
        BY <3>1 DEF Here, Coming, InStash, InBins
      <3>3. \A d \in DOMAIN cuckoo : ~ (cuckoo[d] # Empty /\ cuckoo[d][1] = x)
        BY <2>12, <3>1
      <3>4. InBins(x)' = {b}
        BY <2>2, <2>4, <2>9, <2>13, <3>3 DEF B
      <3>5. hand(n - 1) \subseteq {n} /\ done(n - 1) = {}
        BY <2>12, <3>1
      <3>6. n \notin done(n)
        BY <2>2, <2>8, <3>3 DEF B
      <3>7. InHand(t, x)' = {}
        BY <2>7, <2>8, <3>5, <3>6
      <3>8. Here(t, x)' = {b}
        BY <2>10, <3>2, <3>4, <3>7 DEF Here
      <3> HIDE DEF a, b
      <3>9. Kept(t, x)
        BY <3>1, <3>8 DEF Kept
      <3> QED BY <1>0, <2>5, <2>11, <3>9, Moved
    (* The item leaves the bin.                                            *)
    <2>14. CASE idxs[n] # x /\ cuckoo[B] # Empty /\ cuckoo[B][1] = x
      <3> DEFINE a == <<"bin", 0, B>>
                 b == <<"old", t, n>>
      <3>1. Here(t, x) = {a}
        <4>1. a \in Here(t, x)
          BY <2>2, <2>9, <2>14 DEF Here, B
        <4> QED BY <2>11, <4>1, OnePlace
      <3>2. Coming(x) = {} /\ InStash(x) = {} /\ InHand(t, x) = {}
        <4>1. \A m, i : a # <<"hand", m, i>> /\ a # <<"old", m, i>>
          OBVIOUS
        <4>2. InHand(t, x) = {}
          BY <2>7, <3>1, <4>1 DEF Here
        <4> QED BY <3>1, <4>2 DEF Here, Coming, InStash
      <3>3. InBins(x)' = {}
        <4>1. \A d \in DOMAIN cuckoo : cuckoo[d] # Empty /\ cuckoo[d][1] = x => d = B
          BY <2>12, <3>1
        <4> QED BY <2>4, <2>9, <2>14, <4>1
      <3>4. hand(n - 1) = {} /\ done(n - 1) = {}
        BY <2>12, <3>1
      <3>5. hand(n) = {} /\ done(n) = {n}
        BY <2>8, <2>14, <3>4
      <3>6. InHand(t, x)' = {b}
        BY <2>7, <3>5
      <3>7. Here(t, x)' = {b}
        BY <2>10, <3>2, <3>3, <3>6 DEF Here
      <3> HIDE DEF a, b
      <3>8. Kept(t, x)
        BY <3>1, <3>7 DEF Kept
      <3> QED BY <1>0, <2>5, <2>11, <3>8, Moved
    <2>15. CASE idxs[n] # x /\ ~ (cuckoo[B] # Empty /\ cuckoo[B][1] = x)
      <3>1. hand(n) = hand(n - 1) /\ done(n) = done(n - 1)
        BY <2>8, <2>15
      <3>2. InHand(t, x)' = InHand(t, x)
        BY <2>7, <3>1
      <3>3. \A d \in DOMAIN cuckoo : cuckoo'[d] # Empty /\ cuckoo'[d][1] = x
                                      <=> cuckoo[d] # Empty /\ cuckoo[d][1] = x
        BY <2>4, <2>15
      <3>4. InBins(x)' = InBins(x)
        BY <2>9, <3>3
      <3>5. Kept(t, x)
        BY <2>10, <3>2, <3>4 DEF Kept, Here
      <3> QED BY <1>0, <2>5, <2>11, <3>5, Moved
    <2> QED BY <2>13, <2>14, <2>15
  <1>7. ASSUME NEW t \in Threads, Again(t) PROVE \E q : Places(x)' = {q}
    <2>1. /\ UNCHANGED <<cuckoo, next>> /\ stage = "running" /\ pc[t] = "sort"
          /\ pc' = [pc EXCEPT ![t] = "read"]
          /\ w'[t].idxs = [i \in DOMAIN Rest(t) |-> Rest(t)[i][1]] /\ w'[t].old = << >>
          /\ w'[t].kind = w[t].kind /\ \A u \in Threads \ {t} : w'[u] = w[u]
          /\ w[t].kind = 1 => mStashIdxs' = mStashIdxs
      BY <1>0, <1>7 DEF Again
    <2>2. pc'[t] = "read" /\ \A u \in Threads \ {t} : pc'[u] = pc[u] /\ w'[u] = w[u]
      BY <1>0, <2>1
    <2>3. /\ InHand(t, x) = {<<"old", t, j>> : j \in OldOf(t, x)}
          /\ OldOf(t, x) = {} => RestOf(t, x) = {}
          /\ \A j : OldOf(t, x) = {j} => \E i : RestOf(t, x) = {i}
      BY <2>1, SortPlaces
    <2>4. InHand(t, x)' = {<<"hand", t, i>> : i \in RestOf(t, x)}
      <3>1. InHand(t, x)' = HandAt(w'[t], t, Len(w'[t].old), x)
        BY <2>2, HandPlaces
      <3>2. Len(w'[t].old) = 0 /\ Len(w'[t].old) + 1 = 1 /\ 1..Len(w'[t].old) = {}
        BY <2>1
      <3>3. Len(w'[t].idxs) = Len(Rest(t)) /\ DOMAIN Rest(t) = 1..Len(Rest(t))
        <4>1. Rest(t) \in Seq(Items \X Nat)
              /\ Len([i \in DOMAIN Rest(t) |-> Rest(t)[i][1]]) = Len(Rest(t))
          BY RestFacts
        <4> QED BY <2>1, <4>1
      <3>4. {j \in 1..Len(w'[t].idxs) : w'[t].idxs[j] = x} = RestOf(t, x)
        BY <2>1, <3>3 DEF RestOf
      <3> QED BY <3>1, <3>2, <3>4 DEF HandAt
    <2>5. Coming(x)' = Coming(x) /\ InBins(x)' = InBins(x)
      BY <1>0, <2>1, SamePlaces
    <2>6. InStash(x)' = InStash(x)
      <3>1. w'[0].kind = w[0].kind
        BY <1>0, <2>1
      <3>2. CASE w[t].kind = 1
        BY <1>0, <2>1, <3>1, <3>2, SamePlaces
      <3>3. CASE w[t].kind # 1
        <4>1. w[t].kind = 2
          BY <1>0, <3>3 DEF Workspace
        <4>2. w[0].kind = 2
          BY <1>0, <4>1 DEF Behind
        <4> QED BY <3>1, <4>2 DEF InStash
      <3> QED BY <3>2, <3>3
    <2>7. PICK p : Places(x) = {p}
      BY <1>1, <2>1
    <2>8. CASE OldOf(t, x) = {}
      <3>1. InHand(t, x) = {} /\ InHand(t, x)' = {}
        BY <2>3, <2>4, <2>8
      <3>2. Kept(t, x)
        BY <2>5, <2>6, <3>1 DEF Kept, Here
      <3> QED BY <1>0, <2>2, <2>7, <3>2, Moved
    <2>9. CASE OldOf(t, x) # {}
      <3>1. PICK j : j \in OldOf(t, x)
        BY <2>9
      <3> DEFINE a == <<"old", t, j>>
      <3>2. a \in InHand(t, x)
        BY <2>3, <3>1
      <3>3. Here(t, x) = {a}
        <4>1. a \in Here(t, x)
          BY <3>2 DEF Here
        <4> QED BY <2>7, <4>1, OnePlace
      <3>4. Coming(x) = {} /\ InStash(x) = {} /\ InBins(x) = {}
        BY <3>3 DEF Here, Coming, InStash, InBins
      <3>5. OldOf(t, x) = {j}
        <4>1. \A k \in OldOf(t, x) : <<"old", t, k>> \in InHand(t, x)
          BY <2>3
        <4>2. \A k \in OldOf(t, x) : <<"old", t, k>> \in Here(t, x)
          BY <4>1 DEF Here
        <4>3. \A k \in OldOf(t, x) : k = j
          BY <3>3, <4>2
        <4> QED BY <3>1, <4>3
      <3>6. PICK i : RestOf(t, x) = {i}
        BY <2>3, <3>5
      <3> DEFINE b == <<"hand", t, i>>
      <3>7. InHand(t, x)' = {b}
        BY <2>4, <3>6
      <3>8. Here(t, x)' = {b}
        BY <2>5, <2>6, <3>4, <3>7 DEF Here
      <3> HIDE DEF a, b
      <3>9. Kept(t, x)
        BY <3>3, <3>8 DEF Kept
      <3> QED BY <1>0, <2>2, <2>7, <3>9, Moved
    <2> QED BY <2>8, <2>9
  <1>8. ASSUME NEW t \in Threads, EndBatch(t) PROVE \E q : Places(x)' = {q}
    <2> DEFINE r == [i \in DOMAIN Rest(t) |-> Rest(t)[i][1]]
               n == Len(mStashIdxs)
               S == {j \in DOMAIN mStashIdxs : mStashIdxs[j] = x}
               T == {j \in DOMAIN mStashIdxs' : mStashIdxs'[j] = x}
    <2>1. /\ UNCHANGED <<cuckoo, next, w>> /\ stage = "running" /\ pc[t] = "sort" /\ w[t].kind = 1
          /\ pc' = [pc EXCEPT ![t] = "batch"] /\ mStashIdxs' = mStashIdxs \o r
      BY <1>8 DEF EndBatch
    <2>2. pc'[t] \notin Hand /\ \A u \in Threads \ {t} : pc'[u] = pc[u] /\ w'[u] = w[u]
      BY <1>0, <2>1 DEF Hand
    <2>3. /\ InHand(t, x) = {<<"old", t, j>> : j \in OldOf(t, x)}
          /\ OldOf(t, x) = {} => RestOf(t, x) = {}
          /\ \A j : OldOf(t, x) = {j} => \E i : RestOf(t, x) = {i}
      BY <2>1, SortPlaces
    <2>4. InHand(t, x)' = {}
      BY <2>2, HandPlaces
    <2>5. Coming(x)' = Coming(x) /\ InBins(x)' = InBins(x)
      BY <1>0, <2>1, SamePlaces
    <2>6. /\ InStash(x) = {<<"stash", 0, i>> : i \in S}
          /\ InStash(x)' = {<<"stash", 0, i>> : i \in T}
      <3>1. w[0].kind # 2
        <4>1. t \in Early
          BY <2>1 DEF Early, Hand
        <4> QED BY <1>0, <4>1 DEF Behind
      <3> QED BY <2>1, <3>1 DEF InStash
    <2>7. /\ n \in Nat /\ S \subseteq 1..n
          /\ T = S \cup {n + i : i \in RestOf(t, x)}
      <3>1. /\ mStashIdxs \in Seq(Items) /\ r \in Seq(Items) /\ Len(r) = Len(Rest(t))
            /\ Rest(t) \in Seq(Items \X Nat)
        BY RestFacts DEF TypeInv
      <3>2. \A i \in 1..Len(Rest(t)) : r[i] = Rest(t)[i][1]
        BY <3>1
      <3>3. RestOf(t, x) = {i \in 1..Len(r) : r[i] = x}
        BY <3>1, <3>2 DEF RestOf
      <3> HIDE DEF r
      <3>4. /\ DOMAIN mStashIdxs' = 1..(n + Len(r)) /\ n \in Nat /\ Len(r) \in Nat
            /\ \A j \in 1..n : mStashIdxs'[j] = mStashIdxs[j]
            /\ \A i \in 1..Len(r) : mStashIdxs'[n + i] = r[i]
        <4>1. mStashIdxs \in Seq(Items) /\ r \in Seq(Items)
          BY <3>1
        <4>2. /\ Len(mStashIdxs) \in Nat /\ Len(r) \in Nat
              /\ DOMAIN (mStashIdxs \o r) = 1..(Len(mStashIdxs) + Len(r))
              /\ \A j \in 1..Len(mStashIdxs) : (mStashIdxs \o r)[j] = mStashIdxs[j]
              /\ \A i \in 1..Len(r) : (mStashIdxs \o r)[Len(mStashIdxs) + i] = r[i]
          BY <4>1, Joined
        <4> QED BY <2>1, <4>2
      <3>5. \A j \in 1..(n + Len(r)) : j \in 1..n \/ \E i \in 1..Len(r) : j = n + i
        <4>1. TAKE j \in 1..(n + Len(r))
        <4>2. j \notin 1..n => j - n \in 1..Len(r) /\ j = n + (j - n)
          BY <3>4
        <4> QED BY <4>2
      <3>6. DOMAIN mStashIdxs = 1..n
        BY <3>1
      <3>7. T \subseteq S \cup {n + i : i \in RestOf(t, x)}
        <4>1. ASSUME NEW j \in T PROVE j \in S \/ \E i \in RestOf(t, x) : j = n + i
          <5>1. j \in 1..(n + Len(r)) /\ mStashIdxs'[j] = x
            BY <3>4
          <5>2. CASE j \in 1..n
            BY <3>4, <3>6, <5>1, <5>2
          <5>3. CASE j \notin 1..n
            <6>1. PICK i \in 1..Len(r) : j = n + i
              BY <3>5, <5>1, <5>3
            <6>2. i \in RestOf(t, x)
              BY <3>3, <3>4, <5>1, <6>1
            <6> QED BY <6>1, <6>2
          <5> QED BY <5>2, <5>3
        <4> HIDE DEF S, T
        <4> QED BY <4>1
      <3>8. S \cup {n + i : i \in RestOf(t, x)} \subseteq T
        BY <3>3, <3>4, <3>6
      <3> QED BY <3>4, <3>6, <3>7, <3>8
    <2> HIDE DEF S, T, n, r
    <2>8. PICK p : Places(x) = {p}
      BY <1>1, <2>1
    <2>9. CASE OldOf(t, x) = {}
      <3>1. InHand(t, x) = {} /\ T = S
        BY <2>3, <2>7, <2>9
      <3>2. Kept(t, x)
        BY <2>4, <2>5, <2>6, <3>1 DEF Kept, Here
      <3> QED BY <1>0, <2>2, <2>8, <3>2, Moved
    <2>10. CASE OldOf(t, x) # {}
      <3>1. PICK j : j \in OldOf(t, x)
        BY <2>10
      <3> DEFINE a == <<"old", t, j>>
      <3>2. a \in InHand(t, x)
        BY <2>3, <3>1
      <3>3. Here(t, x) = {a}
        <4>1. a \in Here(t, x)
          BY <3>2 DEF Here
        <4> QED BY <2>8, <4>1, OnePlace
      <3>4. Coming(x) = {} /\ InStash(x) = {} /\ InBins(x) = {}
        BY <3>3 DEF Here, Coming, InStash, InBins
      <3>5. OldOf(t, x) = {j}
        <4>1. \A k \in OldOf(t, x) : <<"old", t, k>> \in InHand(t, x)
          BY <2>3
        <4>2. \A k \in OldOf(t, x) : <<"old", t, k>> \in Here(t, x)
          BY <4>1 DEF Here
        <4>3. \A k \in OldOf(t, x) : k = j
          BY <3>3, <4>2
        <4> QED BY <3>1, <4>3
      <3>6. PICK i : RestOf(t, x) = {i}
        BY <2>3, <3>5
      <3> DEFINE b == <<"stash", 0, n + i>>
      <3>7. S = {}
        <4>1. \A k \in S : <<"stash", 0, k>> \in InStash(x)
          BY <2>6
        <4> QED BY <3>4, <4>1
      <3>8. T = {n + i}
        BY <2>7, <3>6, <3>7
      <3>9. InStash(x)' = {b}
        BY <2>6, <3>8
      <3>10. Here(t, x)' = {b}
        BY <2>4, <2>5, <3>4, <3>9 DEF Here
      <3> HIDE DEF a, b
      <3>11. Kept(t, x)
        BY <3>3, <3>10 DEF Kept
      <3> QED BY <1>0, <2>2, <2>8, <3>11, Moved
    <2> QED BY <2>9, <2>10
  <1>9. CASE InsertStash
    <2> DEFINE S == {j \in DOMAIN mStashIdxs : mStashIdxs[j] = x}
    <2>1. /\ UNCHANGED <<cuckoo, mStashIdxs, next>> /\ stage = "running" /\ pc[0] = "stash"
          /\ pc' = [pc EXCEPT ![0] = IF mStashIdxs = << >> THEN "arrive" ELSE "read"]
          /\ w'[0].kind = 2 /\ w'[0].idxs = mStashIdxs /\ w'[0].old = << >>
          /\ \A u \in Threads \ {0} : w'[u] = w[u]
      BY <1>0, <1>9 DEF InsertStash, Fresh, bins
    <2>2. \A u \in Threads \ {0} : pc'[u] = pc[u] /\ w'[u] = w[u]
      BY <1>0, <2>1
    <2>3. Coming(x)' = Coming(x) /\ InBins(x)' = InBins(x)
      BY <1>0, <2>1, SamePlaces
    <2>4. InHand(0, x) = {} /\ InStash(x)' = {}
      BY <2>1, HandPlaces DEF Hand, InStash
    <2>5. InStash(x) = {<<"stash", 0, i>> : i \in S}
      <3>1. w[0].kind # 2
        BY <1>0, <2>1 DEF TakenUp
      <3> QED BY <3>1 DEF InStash
    <2>6. InHand(0, x)' = {<<"hand", 0, i>> : i \in S}
      <3>1. mStashIdxs \in Seq(Items) /\ DOMAIN mStashIdxs = 1..Len(mStashIdxs)
        BY DEF TypeInv
      <3>2. CASE mStashIdxs = << >>
        <4>1. pc'[0] \notin Hand
          BY <1>0, <2>1, <3>2 DEF Hand
        <4>2. S = {}
          BY <3>2
        <4> QED BY <4>1, <4>2, HandPlaces
      <3>3. CASE mStashIdxs # << >>
        <4>1. pc'[0] = "read"
          BY <1>0, <2>1, <3>3
        <4>2. InHand(0, x)' = HandAt(w'[0], 0, Len(w'[0].old), x)
          BY <4>1, HandPlaces
        <4>3. Len(w'[0].old) = 0 /\ Len(w'[0].old) + 1 = 1 /\ 1..Len(w'[0].old) = {}
          BY <2>1
        <4>4. {j \in 1..Len(w'[0].idxs) : w'[0].idxs[j] = x} = S
          BY <2>1, <3>1
        <4> HIDE DEF S
        <4> QED BY <4>2, <4>3, <4>4 DEF HandAt
      <3> QED BY <3>2, <3>3
    <2> HIDE DEF S
    <2>7. PICK p : Places(x) = {p}
      BY <1>1, <2>1
    <2>8. CASE S = {}
      <3>1. InHand(0, x)' = {} /\ InStash(x) = {}
        BY <2>5, <2>6, <2>8
      <3>2. Kept(0, x)
        BY <2>3, <2>4, <3>1 DEF Kept, Here
      <3> QED BY <1>0, <2>2, <2>7, <3>2, Moved
    <2>9. CASE S # {}
      <3>1. PICK j : j \in S
        BY <2>9
      <3> DEFINE a == <<"stash", 0, j>>
                 b == <<"hand", 0, j>>
      <3>2. \A k \in S : <<"stash", 0, k>> \in Here(0, x)
        <4>1. \A k \in S : <<"stash", 0, k>> \in InStash(x)
          BY <2>5
        <4> QED BY <4>1 DEF Here
      <3>3. Here(0, x) = {a}
        BY <1>0, <2>7, <3>1, <3>2, OnePlace
      <3>4. Coming(x) = {} /\ InBins(x) = {}
        BY <3>3 DEF Here, Coming, InBins
      <3>5. S = {j}
        BY <3>1, <3>2, <3>3
      <3>6. InHand(0, x)' = {b}
        BY <2>6, <3>5
      <3>7. Here(0, x)' = {b}
        BY <2>3, <2>4, <3>4, <3>6 DEF Here
      <3> HIDE DEF a, b
      <3>8. Kept(0, x)
        BY <3>3, <3>7 DEF Kept
      <3> QED BY <1>0, <2>2, <2>7, <3>8, Moved
    <2> QED BY <2>8, <2>9
  <1> QED BY <1>2, <1>3, <1>4, <1>5, <1>6, <1>7, <1>8, <1>9 DEF Next
(* When the call returns, the one place of an item is a bin.               *)
LEMMA PlacesReturned ==
  ASSUME TypeInv, BarrierInv, PlaceInv
  PROVE  Conserved
  <1> SUFFICES ASSUME ~ raced, stage # "terminated", NEW x \in Items
               PROVE  /\ Cardinality(Places(x)) = 1
                      /\ stage = "returned" => Cardinality(InBins(x)) = 1
    BY DEF Conserved
  <1>1. PICK p : Places(x) = {p}
    BY DEF PlaceInv
  <1>2. Cardinality({p}) = 1
    BY FS_Singleton
  <1>3. ASSUME stage = "returned" PROVE InBins(x) = {p}
    <2>1. \A t \in Threads : pc[t] = "end" /\ Behind(t)
      BY <1>3 DEF BarrierInv, Behind
    <2>2. 0 \in Threads /\ Threads \subseteq Nat /\ x \in Nat
      <3>1. Items \subseteq Nat
        BY SizeFacts
      <3> QED BY <3>1, CaseFacts DEF TypeInv, Threads
    <2>3. \A t \in Threads : InHand(t, x) = {}
      BY <2>1, HandPlaces DEF Hand
    <2>4. InStash(x) = {}
      <3>1. w[0].kind = 2
        BY <2>1, <2>2 DEF BarrierInv, TakenUp, Late, Last
      <3> QED BY <3>1 DEF InStash
    <2>5. Coming(x) = {}
      <3>1. ASSUME NEW t \in Threads PROVE ~ (next[t] <= x /\ x < From(t + 1, mN))
        <4>1. next[t] = From(t + 1, mN)
          BY <2>1 DEF Behind, Early, Hand
        <4>2. next[t] \in Nat
          BY DEF TypeInv
        <4> QED BY <2>2, <4>1, <4>2
      <3> QED BY <3>1 DEF Coming
    <2>6. Places(x) = InBins(x)
      BY <2>3, <2>4, <2>5 DEF Places
    <2> QED BY <1>1, <2>6
  <1> QED BY <1>1, <1>2, <1>3

(* The counts of the barriers are numbers of threads, so they do not wrap. *)
LEMMA ShapeHolds ==
  ASSUME TypeInv, BarrierInv, RoomInv
  PROVE  TypeOK
  <1>1. case \in Cases
    BY DEF TypeInv
  <1>2. \A b \in DOMAIN simple : simple[b] \subseteq Items \X Hashes
    BY DEF TypeInv
  <1>3. ASSUME NEW b \in DOMAIN cuckoo, cuckoo[b] # Empty
        PROVE  cuckoo[b] \in Items \X (0..(numHashes[IF b < case.cuckoo[1] THEN 1 ELSE 2] - 1))
    <2>1. cuckoo[b] \in Items \X Nat /\ cuckoo[b][2] < numHashes[KindOf(b)]
      BY <1>3 DEF TypeInv, Slot
    <2>2. KindOf(b) \in {1, 2} /\ KindOf(b) = IF b < case.cuckoo[1] THEN 1 ELSE 2
      BY DEF KindOf
    <2>3. numHashes[KindOf(b)] \in Nat
      BY <2>2, SizeFacts
    <2> HIDE DEF KindOf
    <2>4. cuckoo[b] \in Items \X (0..(numHashes[KindOf(b)] - 1))
      BY <2>1, <2>3
    <2> QED BY <2>2, <2>4
  <1>4. ASSUME NEW t \in Threads
        PROVE  /\ pc[t] \in {"batch", "read", "write", "sort", "await", "stash", "arrive",
                             "awaitStash", "oprfs", "resizing", "bins", "end"}
               /\ next[t] \in From(t, mN)..From(t + 1, mN)
               /\ w[t] \in Workspace /\ Len(w[t].hashes) = Len(w[t].idxs)
               /\ Len(w[t].old) <= Len(w[t].idxs)
               /\ \A i \in DOMAIN w[t].hashes : w[t].hashes[i] < numHashes[w[t].kind]
    <2>1. pc[t] \in AllStops /\ next[t] \in From(t, mN)..From(t + 1, mN) /\ HandOK(w[t], pc[t])
      BY DEF TypeInv
    <2>2. pc[t] \in {"batch", "read", "write", "sort", "await", "stash", "arrive",
                     "awaitStash", "oprfs", "resizing", "bins", "end"}
      BY <2>1 DEF AllStops, Hand, Late, Last
    <2> QED BY <2>1, <2>2 DEF HandOK
  <1>5. insertRemaining \in 0..case.threads /\ insertStashRemaining \in 0..case.threads
    <2>1. insertRemaining = Cardinality(Early) /\ insertStashRemaining = Cardinality(Waited)
      BY DEF BarrierInv, CountInv
    <2>2. /\ Cardinality(Early) \in Nat /\ Cardinality(Waited) \in Nat
          /\ Cardinality(Early) <= case.threads /\ Cardinality(Waited) <= case.threads
          /\ case.threads \in Nat
      BY <1>1, ThreadsFinite, CaseFacts
    <2> QED BY <2>1, <2>2
  <1>6. \A b \in roomy.cuckoo \cup roomy.simple : b \in DOMAIN simple
    BY DEF RoomInv
  <1>7. /\ stage \in {"called", "thrown", "running", "terminated", "returned"}
        /\ mStashIdxs \in Seq(Items) /\ raced \in BOOLEAN
    BY DEF TypeInv
  <1> QED BY <1>2, <1>3, <1>4, <1>5, <1>6, <1>7 DEF TypeOK

(***************************************************************************)
(* The theorems.                                                           *)
(***************************************************************************)
IInv == TypeInv /\ BarrierInv /\ RoomInv /\ SeenInv /\ ExchangeInv /\ PlaceInv

(* Everything above holds in every state that hashing2Bins can be in.      *)
THEOREM Invariance == Spec => []IInv
  <1>1. Init => IInv
    BY TypeInit, BarrierInit, RoomInit, SeenInit, ExchangeInit, PlaceInit DEF IInv
  <1>2. IInv /\ [Next]_vars => IInv'
    BY TypeNext, BarrierNext, RoomNext, SeenNext, ExchangeNext, PlaceNext DEF IInv
  <1> QED BY <1>1, <1>2, PTL DEF Spec

(* For all numbers of items, threads and bins and all hashes: the hash     *)
(* index in a bin of the cuckoo table is one of those of its table, the    *)
(* counts of the two barriers never wrap around, and each thread stays     *)
(* within its part of the items.                                           *)
THEOREM TypeCorrect == Spec => []TypeOK
  <1>1. IInv => TypeOK
    BY ShapeHolds DEF IInv
  <1> QED BY <1>1, Invariance, PTL

(* Until two threads exchange one bin at once, insertBatch and             *)
(* insertStashBatch neither lose an item nor keep two copies of it: each   *)
(* is still to come, in the hand of one thread, in mStashIdxs or in one    *)
(* bin, and in one bin when the call returns.                              *)
THEOREM ItemsConserved == Spec => []Conserved
  <1>1. IInv => Conserved
    BY PlacesReturned DEF IInv
  <1> QED BY <1>1, Invariance, PTL

(* The bin of SimpleHash with the number of the bin into which CuckooHash  *)
(* has put an item lists this item, and lists it once, also in the stash   *)
(* bins and in the middle of the call.                                     *)
THEOREM CounterpartListed == Spec => []Counterpart
  <1>1. IInv => Counterpart
    BY CounterpartHolds DEF IInv
  <1> QED BY <1>1, Invariance, PTL

(* When hashing2Bins returns, every used bin has room for its results: no  *)
(* thread fills a bin after a barrier behind which it has been looked at.  *)
THEOREM RoomMade == Spec => []RoomForResults
  <1>1. IInv => RoomForResults
    BY RoomReturned DEF IInv
  <1> QED BY <1>1, Invariance, PTL
(* A single thread races with nobody: when hashing2Bins is called with     *)
(* one, each item is at one place in every state but a terminated one.     *)
THEOREM AloneConserved ==
  Spec => [](case.threads = 1 /\ stage # "terminated" => \A x \in Items : Cardinality(Places(x)) = 1)
  <1> DEFINE Alone == case.threads = 1 => ~ raced
  <1>1. Init => Alone
    BY DEF Init
  <1>2. ASSUME IInv, Alone, [Next]_vars PROVE Alone'
    <2>1. SUFFICES ASSUME case'.threads = 1 PROVE ~ raced'
      OBVIOUS
    <2>2. case.threads = 1 /\ ~ raced
      BY <1>2, <2>1, CaseStep
    <2>3. Threads = {0}
      BY <2>2 DEF Threads
    <2>4. ASSUME NEW t \in Threads, Read(t) PROVE ~ raced'
      <3>1. Threads \ {t} = {}
        BY <2>3
      <3> QED BY <2>2, <2>4, <3>1 DEF Read
    <2>5. ASSUME NEW t \in Threads, BeginOprfs(t) PROVE ~ raced'
      <3>1. \A u \in Threads : pc[u] # "resizing"
        BY <2>3, <2>5 DEF BeginOprfs, At
      <3> QED BY <2>2, <2>5, <3>1 DEF BeginOprfs
    <2> QED
      BY <1>2, <2>2, <2>4, <2>5
         DEF Next, Start, InsertStash, Join, InsertSimple, Write, Again, EndBatch, EndStash,
             Arrive, Pass, ArriveStash, PassStash, EndOprfs, ResizeBins, vars, bins
  <1>3. IInv /\ Alone => (case.threads = 1 /\ stage # "terminated" =>
                            \A x \in Items : Cardinality(Places(x)) = 1)
    BY PlacesReturned DEF IInv, Conserved
  <1> HIDE DEF Alone
  <1> QED BY <1>1, <1>2, <1>3, Invariance, PTL DEF Spec
=============================================================================
