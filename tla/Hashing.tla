------------------------------ MODULE Hashing ------------------------------
(***************************************************************************)
(* binSet::hashing2Bins, with CuckooHash::insertBatch and insertStashBatch *)
(* and SimpleHash::insertBatch.                                            *)
(*                                                                         *)
(* Threads share out the items, put each into every simple bin it hashes   *)
(* to, and into one cuckoo bin of these.  What stays in a thread's hand    *)
(* after TryLimit rounds goes to mStashIdxs; when all threads are that far *)
(* thread 0 puts it into the stash bins, and when it has, all threads make *)
(* room for the results of the used bins.                                  *)
(*                                                                         *)
(* Bins are locked in SimpleHash, but not in CuckooHash, as                *)
(* THREAD_SAFE_CUCKOO is off: a bin is read and written in two steps.      *)
(*                                                                         *)
(* A hash value is the number it is reduced from, its width is not seen.   *)
(***************************************************************************)
EXTENDS Integers, Sequences, FiniteSets

CONSTANTS
  mN,          (* items                                                    *)
  numHashes,   (* <<mNumHashes[0], mNumHashes[1]>>: 3 and 2 in the code    *)
  batchSize,   (* items a thread inserts at a time: 128 in the code        *)
  TryLimit,    (* rounds of exchanges of a batch: 100 in the code          *)
  Cases        (* calls: inputs, threads, opt, the hashes of the items and *)
               (* mBinCount of the cuckoo and of the simple bins           *)

Items   == 0..(mN - 1)
Hashes  == 0..(numHashes[1] + numHashes[2] - 1)
Empty   == << >>
Workspace == [kind : 1..2, idxs : Seq(Items), hashes : Seq(Nat),
              old : Seq({Empty} \cup (Items \X Nat)), tries : 0..TryLimit]

ASSUME SizesAssumption ==
  /\ mN \in Nat /\ batchSize \in Nat \ {0} /\ TryLimit \in Nat \ {0}
  /\ numHashes \in (Nat \ {0}) \X (Nat \ {0})

ASSUME CasesAssumption == \A c \in Cases :
  /\ c.inputs \in Nat /\ c.threads \in Nat \ {0} /\ c.opt \in Nat
  /\ c.cuckoo \in (Nat \ {0}) \X (Nat \ {0}) /\ c.simple \in (Nat \ {0}) \X (Nat \ {0})
  /\ c.hash \in [Items -> [Hashes -> Nat]]

VARIABLES
  case,                  (* the call                                       *)
  stage,                 (* how far the call is                            *)
  simple,                (* mSimpleBins: items and the index of their hash *)
  cuckoo,                (* mCuckooBins: an item and the index of its hash *)
  mStashIdxs,
  pc, next,              (* where each thread is, and its next item        *)
  w,                     (* the threads' Workspace                         *)
  insertRemaining,
  insertStashRemaining,
  roomy,                 (* bins whose vectors for results are resized     *)
  raced                  (* two threads have exchanged one bin, or resized *)
                         (* mOprfs, at once                                *)

bins   == <<simple, cuckoo, mStashIdxs>>
counts == <<insertRemaining, insertStashRemaining>>
vars   == <<case, stage, bins, pc, next, w, counts, roomy, raced>>

Threads == 0..(case.threads - 1)
Total(count) == count[1] + count[2]

(* Where thread t begins, for thread t - 1 ends, with m things to do.      *)
From(t, m) == (t * m) \div case.threads

(* The bin of item x for hash k of the main (kind 1) or the stash bins.    *)
Addr(count, kind, x, k) ==
  (case.hash[x][k] % count[kind]) + (IF kind = 1 THEN 0 ELSE count[1])

Init ==
  /\ case \in Cases /\ stage = "called"
  /\ simple = [b \in 0..(Total(case.simple) - 1) |-> {}]
  /\ cuckoo = [b \in 0..(Total(case.cuckoo) - 1) |-> Empty]
  /\ mStashIdxs = << >>
  /\ pc = [t \in Threads |-> "batch"] /\ next = [t \in Threads |-> From(t, mN)]
  /\ w = [t \in Threads |-> [kind |-> 1, idxs |-> << >>, hashes |-> << >>,
                             old |-> << >>, tries |-> 0]]
  /\ insertRemaining = case.threads /\ insertStashRemaining = case.threads
  /\ roomy = [cuckoo |-> {}, simple |-> {}] /\ raced = FALSE

(* The size of the input is checked before the threads are made.           *)
Start ==
  /\ stage = "called"
  /\ stage' = IF case.inputs = mN THEN "running" ELSE "thrown"
  /\ UNCHANGED <<case, bins, pc, next, w, counts, roomy, raced>>

At(t, place) == stage = "running" /\ pc[t] = place
Goes(t, place) == pc' = [pc EXCEPT ![t] = place]

(***************************************************************************)
(* The items of a thread, batch by batch.                                  *)
(***************************************************************************)
(* Bug: SimpleHash does not know the stash.                                *)
MainEntries(x, b) == {k \in 0..(numHashes[1] - 1) : Addr(case.simple, 1, x, k) = b}

(* The indices of hashes under which SimpleHash enters x into bin b: those *)
(* of the stash follow the others.                                         *)
Entries(x, b) ==
  {k \in 0..(numHashes[1] - 1) : Addr(case.simple, 1, x, k) = b}
    \cup {numHashes[1] + k : k \in {j \in 0..(numHashes[2] - 1) :
                                      Addr(case.simple, 2, x, j) = b}}

(* The first one only: an item is in a bin once.                           *)
Listed(x, b) ==
  {<<x, k>> : k \in {h \in Entries(x, b) : \A j \in Entries(x, b) : h <= j}}

Batch(t) == next[t]..(IF next[t] + batchSize < From(t + 1, mN)
                      THEN next[t] + batchSize - 1 ELSE From(t + 1, mN) - 1)

(* What insertBatch begins with: all items at their first hash.            *)
Fresh(kind, idxs) == [kind |-> kind, idxs |-> idxs, hashes |-> [i \in DOMAIN idxs |-> 0],
                      old |-> << >>, tries |-> 1]

InsertSimple(t) ==
  /\ At(t, "batch") /\ next[t] < From(t + 1, mN)
  /\ simple' = [b \in DOMAIN simple |-> simple[b] \cup UNION {Listed(x, b) : x \in Batch(t)}]
  /\ w' = [w EXCEPT ![t] = Fresh(1, [i \in 1..Cardinality(Batch(t)) |-> next[t] + i - 1])]
  /\ next' = [next EXCEPT ![t] = @ + Cardinality(Batch(t))]
  /\ Goes(t, "read")
  /\ UNCHANGED <<case, stage, cuckoo, mStashIdxs, counts, roomy, raced>>

(* The place of the workspace whose turn it is, and the bin it goes to.    *)
Turn(t) == IF pc[t] = "write" THEN Len(w[t].old) ELSE Len(w[t].old) + 1
Bin(t)  == Addr(case.cuckoo, w[t].kind, w[t].idxs[Turn(t)], w[t].hashes[Turn(t)])

(* oldVals[i] = mBins[addr].mVal.                                          *)
Read(t) ==
  /\ At(t, "read")
  /\ w' = [w EXCEPT ![t].old = Append(@, cuckoo[Bin(t)])]
  /\ raced' = (raced \/ \E u \in Threads \ {t} : pc[u] = "write" /\ Bin(u) = Bin(t))
  /\ Goes(t, "write")
  /\ UNCHANGED <<case, stage, bins, next, counts, roomy>>

(* mBins[addr].mVal = newVal.                                              *)
Write(t) ==
  /\ At(t, "write")
  /\ cuckoo' = [cuckoo EXCEPT ![Bin(t)] = <<w[t].idxs[Turn(t)], w[t].hashes[Turn(t)]>>]
  /\ Goes(t, IF Turn(t) = Len(w[t].idxs) THEN "sort" ELSE "read")
  /\ UNCHANGED <<case, stage, simple, mStashIdxs, next, w, counts, roomy, raced>>

(* Bug: what comes after the first empty bin is forgotten.                 *)
FirstRun(old) == SelectSeq(SubSeq(old, 1, Cardinality({i \in DOMAIN old :
                   \A j \in 1..i : old[j] # Empty})), LAMBDA v : v # Empty)

(* The items that were in the bins.                                        *)
Evicted(old) ==
  LET kept[i \in 0..Len(old)] ==
        IF i = 0 THEN << >>
        ELSE IF old[i] = Empty THEN kept[i - 1] ELSE Append(kept[i - 1], old[i])
  IN  kept[Len(old)]

(* Bug: the index of the hash is not reduced.                              *)
NextIndex(kind, k) == k + 1

(* An evicted item goes on to its next hash.                               *)
NextHash(kind, k) == (1 + k) % numHashes[kind]

Rest(t) == Evicted(w[t].old)

(* The bins that were exchanged in the round had been full.                *)
Again(t) ==
  /\ At(t, "sort") /\ Rest(t) # << >> /\ w[t].tries < TryLimit
  /\ w' = [w EXCEPT ![t] =
             [kind   |-> w[t].kind,
              idxs   |-> [i \in DOMAIN Rest(t) |-> Rest(t)[i][1]],
              hashes |-> [i \in DOMAIN Rest(t) |-> NextHash(w[t].kind, Rest(t)[i][2])],
              old    |-> << >>,
              tries  |-> w[t].tries + 1]]
  /\ mStashIdxs' = IF w[t].kind = 1 THEN mStashIdxs
                   ELSE [i \in DOMAIN mStashIdxs |-> IF i <= Len(Rest(t)) THEN Rest(t)[i][1]
                                                                          ELSE mStashIdxs[i]]
  /\ Goes(t, "read")
  /\ UNCHANGED <<case, stage, simple, cuckoo, next, counts, roomy, raced>>

(* The end of insertBatch: what is left is for the stash.                  *)
EndBatch(t) ==
  /\ At(t, "sort") /\ w[t].kind = 1 /\ (Rest(t) = << >> \/ w[t].tries = TryLimit)
  /\ mStashIdxs' = mStashIdxs \o [i \in DOMAIN Rest(t) |-> Rest(t)[i][1]]
  /\ Goes(t, "batch")
  /\ UNCHANGED <<case, stage, simple, cuckoo, next, w, counts, roomy, raced>>

(* The end of insertStashBatch: an exception that leaves the thread ends   *)
(* the program.                                                            *)
EndStash(t) ==
  /\ At(t, "sort") /\ w[t].kind = 2 /\ (Rest(t) = << >> \/ w[t].tries = TryLimit)
  /\ stage' = IF Rest(t) = << >> THEN stage ELSE "terminated"
  /\ Goes(t, "arrive")
  /\ UNCHANGED <<case, bins, next, w, counts, roomy, raced>>

(***************************************************************************)
(* The two barriers, and the stash between them.                           *)
(***************************************************************************)
(* Bug: a thread without items does not count down.                        *)
ArriveIfUsed(t) ==
  /\ At(t, "batch") /\ next[t] = From(t + 1, mN)
  /\ insertRemaining' = IF w[t].idxs = << >> THEN insertRemaining ELSE insertRemaining - 1
  /\ Goes(t, "await")
  /\ UNCHANGED <<case, stage, bins, next, w, insertStashRemaining, roomy, raced>>

Arrive(t) ==
  /\ At(t, "batch") /\ next[t] = From(t + 1, mN)
  /\ insertRemaining' = insertRemaining - 1
  /\ Goes(t, "await")
  /\ UNCHANGED <<case, stage, bins, next, w, insertStashRemaining, roomy, raced>>

Pass(t) ==
  /\ At(t, "await") /\ insertRemaining = 0
  /\ Goes(t, IF t = 0 THEN "stash" ELSE "arrive")
  /\ UNCHANGED <<case, stage, bins, next, w, counts, roomy, raced>>

(* The workspace of insertStashBatch takes the place of mStashIdxs.        *)
InsertStash ==
  /\ At(0, "stash")
  /\ w' = [w EXCEPT ![0] = Fresh(2, mStashIdxs)]
  /\ Goes(0, IF mStashIdxs = << >> THEN "arrive" ELSE "read")
  /\ UNCHANGED <<case, stage, bins, next, counts, roomy, raced>>

ArriveStash(t) ==
  /\ At(t, "arrive")
  /\ insertStashRemaining' = insertStashRemaining - 1
  /\ Goes(t, "awaitStash")
  /\ UNCHANGED <<case, stage, bins, next, w, insertRemaining, roomy, raced>>

(* Bug: only thread 0 waits until the stash is filled.                     *)
PassStashAlone(t) ==
  /\ At(t, "awaitStash")
  /\ Goes(t, IF case.opt # 0 THEN "oprfs" ELSE "bins")
  /\ UNCHANGED <<case, stage, bins, next, w, counts, roomy, raced>>

(* Both tables must have the same bins.  mOprfs is used with mOpt only.    *)
PassStash(t) ==
  /\ At(t, "awaitStash") /\ insertStashRemaining = 0
  /\ stage' = IF Total(case.cuckoo) = Total(case.simple) THEN stage ELSE "terminated"
  /\ Goes(t, IF case.opt # 0 THEN "oprfs" ELSE "bins")
  /\ UNCHANGED <<case, bins, next, w, counts, roomy, raced>>

(***************************************************************************)
(* Room for the results.                                                   *)
(***************************************************************************)
(* Every thread resizes mOprfs, without a lock.                            *)
BeginOprfs(t) ==
  /\ At(t, "oprfs")
  /\ raced' = (raced \/ \E u \in Threads : pc[u] = "resizing")
  /\ Goes(t, "resizing")
  /\ UNCHANGED <<case, stage, bins, next, w, counts, roomy>>

EndOprfs(t) ==
  /\ At(t, "resizing")
  /\ Goes(t, "bins")
  /\ UNCHANGED <<case, stage, bins, next, w, counts, roomy, raced>>

(* The used bins among those of thread t.                                  *)
ResizeBins(t) ==
  LET mine == From(t, Total(case.cuckoo))..(From(t + 1, Total(case.cuckoo)) - 1) IN
  /\ At(t, "bins")
  /\ roomy' = [cuckoo |-> roomy.cuckoo \cup {b \in mine : cuckoo[b] # Empty},
               simple |-> roomy.simple \cup {b \in mine : simple[b] # {}}]
  /\ Goes(t, "end")
  /\ UNCHANGED <<case, stage, bins, next, w, counts, raced>>

Join ==
  /\ stage = "running" /\ \A t \in Threads : pc[t] = "end"
  /\ stage' = "returned"
  /\ UNCHANGED <<case, bins, pc, next, w, counts, roomy, raced>>

Next ==
  \/ Start \/ InsertStash \/ Join
  \/ \E t \in Threads :
       \/ InsertSimple(t) \/ Read(t) \/ Write(t) \/ Again(t) \/ EndBatch(t) \/ EndStash(t)
       \/ Arrive(t) \/ Pass(t) \/ ArriveStash(t) \/ PassStash(t)
       \/ BeginOprfs(t) \/ EndOprfs(t) \/ ResizeBins(t)

(* Some thread that can go on does.                                        *)
Spec == Init /\ [][Next]_vars /\ WF_vars(Next)

(***************************************************************************)
(* Properties.                                                             *)
(***************************************************************************)
(* The shape of the state; an item's hash in a cuckoo bin is always one of *)
(* the hashes of its table, and the counts of the barriers do not wrap.    *)
TypeOK ==
  /\ stage \in {"called", "thrown", "running", "terminated", "returned"}
  /\ \A b \in DOMAIN simple : simple[b] \subseteq Items \X Hashes
  /\ \A b \in DOMAIN cuckoo :
       cuckoo[b] = Empty \/ cuckoo[b] \in Items \X
         (0..(numHashes[IF b < case.cuckoo[1] THEN 1 ELSE 2] - 1))
  /\ mStashIdxs \in Seq(Items)
  /\ \A t \in Threads :
       /\ pc[t] \in {"batch", "read", "write", "sort", "await", "stash", "arrive",
                     "awaitStash", "oprfs", "resizing", "bins", "end"}
       /\ next[t] \in From(t, mN)..From(t + 1, mN)
       /\ w[t] \in Workspace /\ Len(w[t].hashes) = Len(w[t].idxs)
       /\ Len(w[t].old) <= Len(w[t].idxs)
       /\ \A i \in DOMAIN w[t].hashes : w[t].hashes[i] < numHashes[w[t].kind]
  /\ insertRemaining \in 0..case.threads /\ insertStashRemaining \in 0..case.threads
  /\ \A b \in roomy.cuckoo \cup roomy.simple : b \in DOMAIN simple
  /\ raced \in BOOLEAN

(* The places of x: items still to come, the part of the hand of a thread  *)
(* that has not been put into a bin, what it took out of one, the bins,    *)
(* and mStashIdxs until thread 0 has taken it up.                          *)
InHand(t, x) ==
  LET done == IF pc[t] = "write" THEN Len(w[t].old) - 1 ELSE Len(w[t].old) IN
  IF pc[t] \in {"read", "write", "sort"}
    THEN {<<"hand", t, i>> : i \in {j \in (done + 1)..Len(w[t].idxs) : w[t].idxs[j] = x}}
           \cup {<<"old", t, i>> : i \in {j \in 1..done :
                                            w[t].old[j] # Empty /\ w[t].old[j][1] = x}}
    ELSE {}

InStash(x) ==
  IF w[0].kind = 2 THEN {}
  ELSE {<<"stash", 0, i>> : i \in {j \in DOMAIN mStashIdxs : mStashIdxs[j] = x}}

InBins(x) == {<<"bin", 0, b>> : b \in {d \in DOMAIN cuckoo :
                                          cuckoo[d] # Empty /\ cuckoo[d][1] = x}}

Coming(x) == {<<"input", t, x>> : t \in {u \in Threads :
                                          next[u] <= x /\ x < From(u + 1, mN)}}

Places(x) == Coming(x) \cup InStash(x) \cup InBins(x)
               \cup UNION {InHand(t, x) : t \in Threads}

(* However often it is evicted, by its own thread or by another, an item   *)
(* is at exactly one place, and at the end of the call in a bin, unless    *)
(* two threads were in the middle of exchanging one bin at once.           *)
Conserved ==
  ~raced /\ stage # "terminated" => \A x \in Items :
                             /\ Cardinality(Places(x)) = 1
                             /\ stage = "returned" => Cardinality(InBins(x)) = 1

(* The bin of the sender with the number of the bin that the receiver has  *)
(* put x into lists x, once: its masks for x are found there.  This holds  *)
(* for the other party as well, whose hashes are the same.                 *)
Counterpart ==
  \A b \in DOMAIN cuckoo : cuckoo[b] # Empty /\ case.cuckoo = case.simple =>
    Cardinality({e \in simple[b] : e[1] = cuckoo[b][1]}) = 1

(* When hashing2Bins returns, each used bin has room for its results: no   *)
(* bin has become used after its thread looked at it.                      *)
RoomForResults ==
  stage = "returned" => /\ {b \in DOMAIN cuckoo : cuckoo[b] # Empty} \subseteq roomy.cuckoo
                        /\ {b \in DOMAIN simple : simple[b] # {}} \subseteq roomy.simple

(* The call ends: evictions stop, and no thread is left at a barrier.      *)
Ends == <>(stage \in {"thrown", "terminated", "returned"})

(* A sender that makes polynomials or Bloom filters (mOpt is not 0) keeps  *)
(* its OPRF values in mOprfs, by item and index of the hash, and makes one *)
(* polynomial for each index; the receiver decodes an item with the one of *)
(* the hash index of its cuckoo bin.  When the call returns, that is the   *)
(* one into which the value for the item and that bin went.                *)
SamePolynomial ==
  stage = "returned" /\ case.opt # 0 /\ ~raced =>
    \A b \in DOMAIN cuckoo : cuckoo[b] # Empty => cuckoo[b] \in simple[b]
-----------------------------------------------------------------------------
(***************************************************************************)
(* The invariants behind the properties.                                   *)
(***************************************************************************)
Slot == {Empty} \cup (Items \X Nat)
Last == {"oprfs", "resizing", "bins", "end"}
Late == {"awaitStash"} \cup Last
Hand == {"read", "write", "sort"}
AllStops == {"batch", "await", "stash", "arrive"} \cup Hand \cup Late

KindOf(b) == IF b < case.cuckoo[1] THEN 1 ELSE 2
NumberOf(count) == 0..(Total(count) - 1)

(* The threads that have not passed the first barrier.                     *)
Early == {t \in Threads : pc[t] = "batch" \/ (pc[t] \in Hand /\ w[t].kind = 1)}

(* A workspace has an old value for each place it is done with, an entry   *)
(* of the tables it works on.                                              *)
HandOK(h, place) ==
  /\ h \in Workspace /\ Len(h.hashes) = Len(h.idxs) /\ Len(h.old) <= Len(h.idxs)
  /\ \A i \in DOMAIN h.hashes : h.hashes[i] < numHashes[h.kind]
  /\ \A i \in DOMAIN h.old : h.old[i] # Empty => h.old[i][2] < numHashes[h.kind]
  /\ place = "read"  => Len(h.old) < Len(h.idxs)
  /\ place = "write" => Len(h.old) > 0
  /\ place = "sort"  => Len(h.old) = Len(h.idxs)

(* The shape of the state, with that of the hands: a thread that reads has *)
(* a place to read for, one that writes has read, one that sorts is done.  *)
TypeInv ==
  /\ case \in Cases /\ stage \in {"called", "thrown", "running", "terminated", "returned"}
  /\ simple \in [NumberOf(case.simple) -> SUBSET (Items \X Hashes)]
  /\ cuckoo \in [NumberOf(case.cuckoo) -> Slot]
  /\ \A b \in DOMAIN cuckoo : cuckoo[b] # Empty => cuckoo[b][2] < numHashes[KindOf(b)]
  /\ mStashIdxs \in Seq(Items)
  /\ pc \in [Threads -> AllStops]
  /\ next \in [Threads -> Nat] /\ \A t \in Threads : next[t] \in From(t, mN)..From(t + 1, mN)
  /\ w \in [Threads -> Workspace] /\ \A t \in Threads : HandOK(w[t], pc[t])
  /\ roomy \in [cuckoo : SUBSET Nat, simple : SUBSET Nat]
  /\ raced \in BOOLEAN

(* The threads that have not counted down the second barrier.              *)
Waited == {t \in Threads : pc[t] \notin Late}

(* The counts of the two barriers, and what is true behind each of them.   *)
CountInv ==
  insertRemaining = Cardinality(Early) /\ insertStashRemaining = Cardinality(Waited)

Behind(t) ==
  /\ t \notin Early => next[t] = From(t + 1, mN)
  /\ pc[t] = "stash" \/ w[t].kind = 2 => t = 0
  /\ pc[t] \in {"stash", "arrive"} \cup Late \/ w[t].kind = 2 => Early = {}
  /\ pc[t] \in Last => /\ Waited = {}
                       /\ stage \in {"running", "returned"} =>
                            Total(case.cuckoo) = Total(case.simple)
  /\ stage = "called" => pc[t] = "batch"
  /\ stage = "returned" => pc[t] = "end"

(* Thread 0 has taken up the stash when it is at the second barrier.       *)
TakenUp ==
  /\ pc[0] \in {"batch", "await", "stash"} => w[0].kind = 1
  /\ pc[0] \in {"arrive"} \cup Late => w[0].kind = 2

BarrierInv == CountInv /\ TakenUp /\ \A t \in Threads : Behind(t)

(* The bins of which thread t resizes the vectors.                         *)
Mine(t) == From(t, Total(case.cuckoo))..(From(t + 1, Total(case.cuckoo)) - 1)

(* The bins of a thread that has made its room do not change any more.     *)
RoomInv ==
  /\ roomy.cuckoo \cup roomy.simple \subseteq DOMAIN simple
  /\ \A t \in Threads : pc[t] = "end" /\ stage \in {"running", "returned"} =>
       \A b \in Mine(t) : /\ cuckoo[b] # Empty => b \in roomy.cuckoo
                          /\ simple[b] # {} => b \in roomy.simple

(* What the simple bins list, and of which items they list everything.     *)
Seen == {x \in Items : \A b \in DOMAIN simple : Listed(x, b) \subseteq simple[b]}

(* A simple bin lists what hashes to it; what is on its way to a cuckoo    *)
(* bin, or in one, is listed already, and is in a bin of its hash.         *)
SeenInv ==
  /\ \A b \in DOMAIN simple : \A e \in simple[b] : e \in Listed(e[1], b)
  /\ \A b \in DOMAIN cuckoo : cuckoo[b] # Empty =>
       /\ cuckoo[b][1] \in Seen
       /\ b = Addr(case.cuckoo, KindOf(b), cuckoo[b][1], cuckoo[b][2])
  /\ \A i \in DOMAIN mStashIdxs : mStashIdxs[i] \in Seen
  /\ \A t \in Threads :
       /\ \A i \in DOMAIN w[t].idxs : w[t].idxs[i] \in Seen
       /\ \A i \in DOMAIN w[t].old : w[t].old[i] # Empty => w[t].old[i][1] \in Seen

(* Without a race, an exchange finds the bin as it has read it.            *)
ExchangeInv == ~raced =>
  \A t \in Threads : pc[t] = "write" =>
    /\ cuckoo[Bin(t)] = w[t].old[Len(w[t].old)]
    /\ \A u \in Threads \ {t} : pc[u] = "write" => Bin(u) # Bin(t)

(* Without a race, an item has one place.                                  *)
PlaceInv == ~raced /\ stage # "terminated" =>
  \A x \in Items : \E place \in Places(x) : Places(x) = {place}
=============================================================================
