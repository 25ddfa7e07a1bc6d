-------------------------------- MODULE Roles --------------------------------
(***************************************************************************)
(* Who talks to whom in tparty (frontend/OtBinMain.cpp), and in which      *)
(* thread.  Parties are 0..n-1 and the last one is the leader.  The other  *)
(* n-1, the clients, stand on a ring; each deals shares of zero to the     *)
(* next tSS clients on the ring and gets shares from the tSS before it,    *)
(* through pairwise protocols that run in parallel threads.  A client that *)
(* is among both the next and the previous ones of another is its dual     *)
(* partner, and one thread deals with it in both directions.               *)
(***************************************************************************)
EXTENDS Integers

(* The numbers of parties and thresholds that tparty is meant for.  With   *)
(* two parties there is one client, which may only be called with t = 1.   *)
Usable(n, t) == n \in Nat /\ n >= 2 /\ t \in 0..(n - 1) /\ (n = 2 => t = 1)

Leader(n)  == n - 1
nSS(n)     == n - 1
Parties(n) == 0..(n - 1)
Clients(n) == 0..(n - 2)

(* The number of clients each client deals shares to.                      *)
tSS(n, t) == IF t = n - 1 THEN t - 1 ELSE IF t < 1 THEN 1 ELSE t

(* Bug: the two sides of the ring are thought to overlap one party later.  *)
OverlapsLate(n, t) == 2 * tSS(n, t) > nSS(n)

isDual(n, t) == 2 * tSS(n, t) >= nSS(n)

num_threads(n, t, p) ==
  IF p # Leader(n) /\ ~isDual(n, t) THEN 2 * tSS(n, t) + 1 ELSE n - 1

(* Bug: the next clients are counted from the client itself.               *)
CountsItself(n, p, k) == (p + k) % nSS(n)

prevIdx(n, p, k) == (p - k - 1 + nSS(n)) % nSS(n)
nextIdx(n, p, k) == (p + k + 1) % nSS(n)

(* Between two positions of the ring, both included, going upwards.        *)
is_in_dual_area(startIdx, endIdx, numIdx, checkIdx) ==
  IF startIdx <= endIdx
    THEN startIdx <= checkIdx /\ checkIdx <= endIdx
    ELSE checkIdx <= endIdx \/ (startIdx <= checkIdx /\ checkIdx <= numIdx)

dualPartner(n, t, p, q) ==
  /\ isDual(n, t)
  /\ is_in_dual_area((p - tSS(n, t) + nSS(n)) % nSS(n),
                     (p + tSS(n, t)) % nSS(n), nSS(n), q)

(***************************************************************************)
(* The threads of a phase.  A thread has a slot in pThrds, the party it    *)
(* talks to, the number of the payload vector it uses, and a role: send    *)
(* and recv are the sides of an OPPRF from a dealer to a client; dualSend  *)
(* and dualRecv are its sides when the OPPRF also runs backwards.          *)
(***************************************************************************)
Thread(slot, peer, pay, role) ==
  [slot |-> slot, peer |-> peer, pay |-> pay, role |-> role]

PrevThreads(n, t, p) ==
  {Thread(tSS(n, t) + k, prevIdx(n, p, k), k, "recv") :
     k \in {j \in 0..(tSS(n, t) - 1) : ~dualPartner(n, t, p, prevIdx(n, p, j))}}

(* Bug: the dual partners are told apart by the side of the ring.          *)
BothSend(p, q) == "dualSend"

dualRole(p, q) == IF p < q THEN "dualSend" ELSE IF p > q THEN "dualRecv" ELSE "idle"

NextThreads(n, t, p) ==
  {Thread(k, nextIdx(n, p, k), k,
          IF dualPartner(n, t, p, nextIdx(n, p, k))
            THEN dualRole(p, nextIdx(n, p, k)) ELSE "send") :
     k \in 0..(tSS(n, t) - 1)}

(* The thread for the leader; between clients only it has nothing to do.   *)
LeaderThread(n, t, p, role) ==
  Thread(num_threads(n, t, p) - 1, Leader(n), tSS(n, t), role)

ClientThreads(n, t, p, leaderRole) ==
  PrevThreads(n, t, p) \cup NextThreads(n, t, p)
    \cup {LeaderThread(n, t, p, leaderRole)}

(* Bug: the leader's last thread is forgotten.                             *)
MissesLast(n) == {Thread(k, k, k, "recv") : k \in 0..(n - 3)}

LeaderThreads(n) == {Thread(k, k, k, "recv") : k \in 0..(n - 2)}

(* Every slot of pThrds is given exactly one thread.  A second thread      *)
(* assigned to a slot terminates the process; so does the exception of     *)
(* join() on a slot without one.                                           *)
FillSlots(threads, num) ==
  /\ {th.slot : th \in threads} = 0..(num - 1)
  /\ \A th1, th2 \in threads : th1.slot = th2.slot => th1 = th2
=============================================================================
