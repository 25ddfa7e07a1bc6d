------------------------------- MODULE Orders -------------------------------
(***************************************************************************)
(* What the programs of a case alone tell of every run of them.  A thread  *)
(* takes its steps in turn, waits until other threads have signalled, and  *)
(* receives a message after it was sent; so many steps have an order that  *)
(* no interleaving changes.  Where that order is enough, the properties of *)
(* Session hold in every run: the conditions below are about the programs, *)
(* and module Session_proofs proves that they do what their comments say.  *)
(***************************************************************************)
EXTENDS Session

\* The steps of a case: the thread, the number of the step, the step
Places == [k \in Cases |->
  UNION {UNION {{<<t, i, prog[t][i]>> : i \in DOMAIN prog[t]} : t \in DOMAIN prog} : prog \in {Program[k]}}]
Ops(k, ops) == {x \in Places[k] : x[3].op \in ops}
On(k, op, at) == {x \in Places[k] : x[3].op = op /\ x[3].at = at}

\* Programs are finite sequences, and a case is a finite set of them.
FiniteAssumption ==
  \A k \in Cases :
    /\ IsFiniteSet(Places[k])
    /\ \A t \in DOMAIN Program[k] :
         Len(Program[k][t]) \in Nat /\ DOMAIN Program[k][t] = 1 .. Len(Program[k][t])
ASSUME FiniteAssumption

\* A step is one of Steps, and the cells of an array have the form of Steps.
Syncs == {"send", "recv", "flush", "signal", "await"}
StepAssumption ==
  \A k \in Cases : \A x \in Places[k] :
    /\ x[3].op \in Syncs \cup Stores \cup {"read", "free"}
    /\ x[3].len \in Int
    /\ x[3].op \in Stores => \A cell \in x[3].cells : Len(cell) = 5
ASSUME StepAssumption

Before(x, y) == x[1] = y[1] /\ x[2] < y[2]
NotAfter(x, y) == x[1] = y[1] /\ x[2] <= y[2]

\* Is x taken before y is reached, if of every link in E the first step is
\* taken before the second?
Ordered(E, x, y) == Before(x, y) \/ \E e \in E : NotAfter(x, e[1]) /\ Before(e[2], y)

\* Links, and one of E followed by one of F
Joined(E, F) == E \cup UNION {{<<e[1], f[2]>> : f \in {f \in F : NotAfter(e[2], f[1])}} : e \in E}

\* A thread that has waited for more signals than are possible without x
\* has seen x.
Awaited == [k \in Cases |->
  {e \in Ops(k, {"signal"}) \X Ops(k, {"await"}) :
     /\ e[1][3].at = e[2][3].at
     /\ Cardinality({x \in On(k, "signal", e[1][3].at) : ~NotAfter(e[1], x)}) < e[2][3].len}]
\* ... and what follows from two of them, from four
Awaited2 == [k \in Cases |-> Joined(Awaited[k], Awaited[k])]
Waits == [k \in Cases |-> Joined(Awaited2[k], Awaited2[k])]

\* The other sends, or receives, of a direction that come before x
Earlier(k, x) == {y \in On(k, x[3].op, x[3].at) : y # x /\ Ordered(Waits[k], y, x)}
Rank == [k \in Cases |-> [x \in Ops(k, {"send", "recv"}) |-> Cardinality(Earlier(k, x))]]

\* A send and the receive that gets its message
Pairs == [k \in Cases |->
  {e \in Ops(k, {"send"}) \X Ops(k, {"recv"}) : e[1][3].at = e[2][3].at /\ Rank[k][e[1]] = Rank[k][e[2]]}]

\* A send that waits until everything before it was read
Flushed == [k \in Cases |->
  UNION {{<<e[2], f>> : f \in {f \in On(k, "flush", e[1][3].at) : Ordered(Waits[k], e[1], f)}} : e \in Pairs[k]}]
Direct == [k \in Cases |-> Awaited[k] \cup Pairs[k] \cup Flushed[k]]
Direct2 == [k \in Cases |-> Joined(Direct[k], Direct[k])]
Links == [k \in Cases |-> Joined(Direct2[k], Direct2[k])]

\* The threads that share a direction take turns.
InLine(k) ==
  \A x, y \in Ops(k, {"send", "recv"}) :
    x[3].op = y[3].op /\ x[3].at = y[3].at /\ x # y => Ordered(Waits[k], x, y) \/ Ordered(Waits[k], y, x)

Sized(k) == \A x \in Ops(k, {"send"}) : x[3].len \in Nat

\* The messages of the two sides match one by one.
Matched(k) == \A e \in Pairs[k] : e[2][3].kind = e[1][3].kind /\ Fits(e[2][3], e[1][3])
Balanced(k) ==
  \A x \in Ops(k, {"send", "recv"}) :
    Cardinality(On(k, "send", x[3].at)) = Cardinality(On(k, "recv", x[3].at))

\* Memory that is lent is used before, or after the message was received.
Spared(k) ==
  \A x \in Ops(k, {"send"}) : x[3].cells # {} =>
    \A y \in Ops(k, Stores \cup {"free"}) :
      \/ y[3].cells \cap x[3].cells = {}
      \/ Ordered(Links[k], y, x)
      \/ \E e \in Pairs[k] : e[1] = x /\ Ordered(Links[k], e[2], y)

\* Of two accesses that conflict, one waits for the other.
Guarded(k) ==
  \A x, y \in Ops(k, Stores \cup {"read", "free"}) :
    x[1] = y[1] \/ Apart(x[3], y[3]) \/ Ordered(Waits[k], x, y) \/ Ordered(Waits[k], y, x)

\* Every read waits for a store, and is not too late.
Supplied(k) ==
  \A y \in Ops(k, {"read"}) : \A c \in y[3].cells : \E x \in Ops(k, Stores) :
    /\ c \in x[3].cells
    /\ Ordered(Waits[k], x, y)
    /\ \A f \in Ops(k, {"free"}) : c \in f[3].cells => Ordered(Waits[k], f, x) \/ Ordered(Waits[k], y, f)

\* What a challenge is about comes before the challenge.
Committed(k) == \A pq \in Challenged[k] : Ordered(Links[k], pq[2], pq[1])

\* All of this, but for the exceptions of Session
Orderly(k) ==
  /\ Sized(k) /\ InLine(k) /\ Matched(k) /\ Balanced(k) /\ Committed(k)
  /\ k \notin LentCases => Spared(k)
  /\ k \notin PointCases => Supplied(k)
  /\ k \notin PointCases \cup SharedCases => Guarded(k)

\* Whatever a thread waits for, signals, a message, or the receive of one, is
\* at a lower level, and so is what it takes before.
Grounded(k, level) ==
  /\ level \in [Ops(k, Syncs) -> Nat]
  /\ \A x, y \in Ops(k, Syncs) : Before(x, y) => level[x] <= level[y]
  /\ \A y \in Ops(k, {"await"}) :
       Cardinality({x \in On(k, "signal", y[3].at) : level[x] < level[y]}) >= y[3].len
  /\ \A y \in Ops(k, {"recv"}) : \E e \in Pairs[k] : e[2] = y /\ level[e[1]] < level[y]
  /\ \A f \in Ops(k, {"flush"}) : \A x \in On(k, "send", f[3].at) :
       Ordered(Waits[k], f, x) \/ \E e \in Pairs[k] : e[1] = x /\ level[e[2]] < level[f]

-----------------------------------------------------------------------------
\* Is there nothing that a thread waits for in this step?
Ready(s) ==
  \/ s.op \in {"send", "signal", "read", "free"} \cup Stores
  \/ s.op = "recv" /\ wire[s.at] # << >> /\ Fits(s, Head(wire[s.at]))
  \/ s.op = "flush" /\ wire[s.at] = << >>
  \/ s.op = "await" /\ tally[s.at] >= s.len

\* Not everyone waits for everyone else.
GoesOn == AllDone \/ \E t \in Threads : \E s \in Now(t) : Ready(s)

-----------------------------------------------------------------------------
(* The invariant that ties the state to the order of the steps             *)

Carried(x) == [kind |-> x[3].kind, len |-> x[3].len, lent |-> x[3].cells]

TypeInv ==
  /\ case \in Cases
  /\ pc \in [DOMAIN Program[case] -> Nat \ {0}]
  /\ wire \in [Used(case, {"send", "recv", "flush"}) -> Seq({Carried(x) : x \in Ops(case, {"send"})})]
  /\ tally \in [Used(case, {"signal", "await"}) -> Nat]
  /\ \A cell \in filled : Len(cell) = 5

Over(x) == x[2] < pc[x[1]]
Past(op, at) == {x \in On(case, op, at) : Over(x)}

\* Nobody has taken the second step of a link, but not the first.
Followed(E) == \A e \in E : Over(e[2]) => Over(e[1])

\* A promise has been signalled as often as threads have taken such a step;
\* what was sent and not received is under way.
CountInv ==
  /\ \A p \in DOMAIN tally : tally[p] = Cardinality(Past("signal", p))
  /\ \A d \in DOMAIN wire :
       Len(wire[d]) + Cardinality(Past("recv", d)) = Cardinality(Past("send", d))

\* A message under way is that of the send whose turn it was.
TurnInv ==
  InLine(case) =>
    \A d \in DOMAIN wire : \A j \in 1 .. Len(wire[d]) : \E x \in Past("send", d) :
      Rank[case][x] + 1 = Cardinality(Past("recv", d)) + j /\ wire[d][j] = Carried(x)

WaitInv == Followed(Awaited[case])
FlushInv == InLine(case) => Followed(Flushed[case])

\* A cell that was stored to is filled, unless it was freed, by a thread
\* that the one which stored did not wait for.
StoreInv ==
  \A x \in Ops(case, Stores) : Over(x) => \A c \in x[3].cells :
    c \in filled \/ \E f \in Ops(case, {"free"}) : c \in f[3].cells /\ Over(f) /\ ~Ordered(Waits[case], f, x)

OrderInv == TypeInv /\ CountInv /\ TurnInv /\ WaitInv /\ FlushInv /\ StoreInv
=============================================================================
