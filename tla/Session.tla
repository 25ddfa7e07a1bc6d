------------------------------ MODULE Session ------------------------------
(***************************************************************************)
(* Threads of several parties that run the protocol functions of libOTe,   *)
(* libOPRF and libPSI against each other.  A case gives every thread its   *)
(* program: a sequence of the steps of module Steps.  Messages of one      *)
(* direction of a channel arrive in order, which is what BtSocketIO shows  *)
(* of the network layer; steps of different threads interleave.            *)
(***************************************************************************)
EXTENDS Integers, Sequences, FiniteSets

CONSTANTS Cases,        \* names of the cases
          Program,      \* the program of every thread of every case
          Openings,     \* kinds [challenge, committed] of messages, and whether
                        \* the challenge is about every channel of the two parties
          LentCases, PointCases, SharedCases
                        \* cases that break a property in the code, see below

VARIABLES case,         \* the case that runs
          pc,           \* number of the step each thread takes next
          wire,         \* what is under way, for every direction
          tally,        \* how often each promise was signalled
          filled        \* the cells that hold a value

vars == <<case, pc, wire, tally, filled>>

ProgramAssumption == DOMAIN Program = Cases
ASSUME ProgramAssumption

\* All steps of a case
StepsOf(k) ==
  UNION {UNION {{prog[t][i] : i \in DOMAIN prog[t]} : t \in DOMAIN prog} : prog \in {Program[k]}}
Used(k, ops) == {s.at : s \in {s \in StepsOf(k) : s.op \in ops}}

Init ==
  /\ case \in Cases
  /\ pc = [t \in DOMAIN Program[case] |-> 1]
  /\ wire = [d \in Used(case, {"send", "recv", "flush"}) |-> << >>]
  /\ tally = [p \in Used(case, {"signal", "await"}) |-> 0]
  /\ filled = {}

Threads == DOMAIN pc
\* The step that thread t takes next, if it has not returned
Now(t) == {prog[pc[t]] : prog \in {p \in {Program[case][t]} : pc[t] <= Len(p)}}
Goes(t) == pc' = [pc EXCEPT ![t] = @ + 1] /\ UNCHANGED case

\* Does the message have the length that the receiver asks for?
Fits(s, m) == s.len \in {m.len, -1}

Post(t, s) ==
  /\ s.op = "send"
  /\ wire' = [wire EXCEPT ![s.at] = Append(@, [kind |-> s.kind, len |-> s.len, lent |-> s.cells])]
  /\ Goes(t)
  /\ UNCHANGED <<tally, filled>>

\* A receive of another length fails inside the io service and never returns.
Take(t, s) ==
  /\ s.op = "recv"
  /\ wire[s.at] # << >>
  /\ Fits(s, Head(wire[s.at]))
  /\ wire' = [wire EXCEPT ![s.at] = Tail(@)]
  /\ Goes(t)
  /\ UNCHANGED <<tally, filled>>

\* The blocking send, over a network that holds as little as it can
Flush(t, s) ==
  /\ s.op = "flush"
  /\ wire[s.at] = << >>
  /\ Goes(t)
  /\ UNCHANGED <<wire, tally, filled>>

Tell(t, s) ==
  /\ s.op = "signal"
  /\ tally' = [tally EXCEPT ![s.at] = @ + 1]
  /\ Goes(t)
  /\ UNCHANGED <<wire, filled>>

Wait(t, s) ==
  /\ s.op = "await"
  /\ tally[s.at] >= s.len
  /\ Goes(t)
  /\ UNCHANGED <<wire, tally, filled>>

Stores == {"write", "same"}
Touch(t, s) ==
  /\ s.op \in Stores \cup {"read"}
  /\ filled' = IF s.op \in Stores THEN filled \cup s.cells ELSE filled
  /\ Goes(t)
  /\ UNCHANGED <<wire, tally>>

Release(t, s) ==
  /\ s.op = "free"
  /\ filled' = filled \ s.cells
  /\ Goes(t)
  /\ UNCHANGED <<wire, tally>>

AllDone == \A t \in Threads : Now(t) = {}

Next ==
  \E t \in Threads : \E s \in Now(t) :
    Post(t, s) \/ Take(t, s) \/ Flush(t, s) \/ Tell(t, s) \/ Wait(t, s) \/ Touch(t, s) \/ Release(t, s)

\* The system schedules some thread that can go on, as long as there is one.
\* Programs are finite, so no thread can keep the others from running.
Spec == Init /\ [][Next]_vars /\ WF_vars(Next)
-----------------------------------------------------------------------------
\* The shape of the state.
TypeOK ==
  /\ case \in Cases
  /\ pc \in [Threads -> Nat \ {0}]
  /\ \A d \in DOMAIN wire : \A i \in DOMAIN wire[d] : wire[d][i].len \in Nat
  /\ tally \in [DOMAIN tally -> Nat]
  /\ \A cell \in filled : Len(cell) = 5

\* A receive gets the message that the other party meant for it, in the
\* length it expects: messages carry no tag, so a loop that runs once more
\* or a phase that starts early on one side is taken for other data.
RightMessage ==
  \A t \in Threads : \A s \in Now(t) :
    s.op = "recv" /\ wire[s.at] # << >>
      => s.kind = Head(wire[s.at]).kind /\ Fits(s, Head(wire[s.at]))

Lent == UNION {UNION {wire[d][i].lent : i \in DOMAIN wire[d]} : d \in DOMAIN wire}

\* asyncSend of a pointer: the memory is neither overwritten nor released
\* while the io service may still have to read it.
BuffersKept ==
  \A t \in Threads : \A s \in Now(t) : s.op \in Stores \cup {"free"} => s.cells \cap Lent = {}

\* BuffersKept in all cases but Rr16, and Beta with base OTs from its caller:
\* there init lends local variables, and does not wait for an answer to what
\* it sent.
BuffersKeptElsewhere == case \notin LentCases => BuffersKept

\* Everything a thread reads was computed before, by itself or by a thread
\* it has waited for: the ranges of the threads leave no row out, and the
\* countdowns are waited for where they must be.
FilledBeforeUse ==
  \A t \in Threads : \A s \in Now(t) : s.op = "read" => s.cells \subseteq filled

\* FilledBeforeUse in all cases but DKT with two threads, where thread 0 frees
\* its local points, whether or not the other has read them.
FilledElsewhere == case \notin PointCases => FilledBeforeUse

Apart(s, u) ==
  \/ s.cells \cap u.cells = {}
  \/ s.op = "read" /\ u.op = "read"
  \/ s.op = "same" /\ u.op = "same"

\* Threads that are about to touch memory, with the step they do it in
Touching == {a \in UNION {{t} \X Now(t) : t \in Threads} : a[2].op \in Stores \cup {"read", "free"}}

\* No data race: no two threads can touch a cell at the same time, one of
\* them to store into it, unless both store the same.
NoRace ==
  \A touching \in {Touching} : \A a, b \in touching : a[1] # b[1] => Apart(a[2], b[2])

\* NoRace in all cases but these: DKT with two threads, where thread 0 frees
\* what the other reads, and Rr16 with two threads, which write the hashes of
\* their items into one buffer.
NoRaceElsewhere == case \notin PointCases \cup SharedCases => NoRace

\* The sends of a case, of some kinds: the thread, the number of the step,
\* the step
Posts(k, kinds) ==
  UNION {UNION {{<<t, i, prog[t][i]>> : i \in
                   {i \in DOMAIN prog[t] : prog[t][i].op = "send" /\ prog[t][i].kind \in kinds}} :
                t \in DOMAIN prog} : prog \in {Program[k]}}

\* Are the committed data on the channel that the challenge answers?
Answers(o, challenge, committed) ==
  /\ challenge[1] = committed[2] /\ challenge[2] = committed[1]
  /\ o.everywhere \/ challenge[3] = committed[3]

\* The challenges of a case, each with something it has to come after
Challenged == [k \in Cases |->
  UNION {{pq \in posts \X posts : \E o \in Openings :
            /\ pq[1][3].kind = o.challenge /\ pq[2][3].kind = o.committed
            /\ Answers(o, pq[1][3].at, pq[2][3].at)} :
         posts \in {Posts(k, {o.challenge : o \in Openings} \cup {o.committed : o \in Openings})}}]

\* A challenge (the seed of a consistency check, of a cut and choose) is
\* known only when everything it is to check has been sent.
ChallengeLast ==
  \A pq \in Challenged[case] : pq[1][2] < pc[pq[1][1]] => pq[2][2] < pc[pq[2][1]]

\* When all functions have returned, no message is left over that the next
\* protocol on the channel would take for its own.
Drained == AllDone => \A d \in DOMAIN wire : wire[d] = << >>

\* Every function returns: no receive waits for a message that is never
\* sent, no thread for a promise that is never kept.
AllReturn == <>AllDone
=============================================================================
