--------------------------- MODULE Session_proofs ---------------------------
(***************************************************************************)
(* Proofs about module Session, for all cases and all programs: what the   *)
(* order of the steps of the programs (module Orders) makes sure of in     *)
(* every interleaving.                                                     *)
(***************************************************************************)
EXTENDS Orders, FiniteSetTheorems, SequenceTheorems, WellFoundedInduction, TLAPS

-----------------------------------------------------------------------------
(* The steps of a case                                                     *)

LEMMA PlaceShape ==
  ASSUME NEW k \in Cases, NEW x \in Places[k]
  PROVE  /\ x[1] \in DOMAIN Program[k]
         /\ x[2] \in DOMAIN Program[k][x[1]]
         /\ x[3] = Program[k][x[1]][x[2]]
         /\ x = <<x[1], x[2], x[3]>>
         /\ x[2] \in Nat
         /\ x[2] <= Len(Program[k][x[1]])
         /\ Len(Program[k][x[1]]) \in Nat
<1>1. PICK t \in DOMAIN Program[k] : \E i \in DOMAIN Program[k][t] : x = <<t, i, Program[k][t][i]>>
  BY DEF Places
<1>2. PICK i \in DOMAIN Program[k][t] : x = <<t, i, Program[k][t][i]>>
  BY <1>1
<1>3. Len(Program[k][t]) \in Nat /\ DOMAIN Program[k][t] = 1 .. Len(Program[k][t])
  BY FiniteAssumption DEF FiniteAssumption
<1> QED BY <1>2, <1>3

LEMMA IsPlace ==
  ASSUME NEW k \in Cases, NEW t \in DOMAIN Program[k], NEW i \in DOMAIN Program[k][t]
  PROVE  <<t, i, Program[k][t][i]>> \in Places[k]
BY DEF Places

LEMMA StepOfCase ==
  ASSUME NEW k \in Cases, NEW x \in Places[k]
  PROVE  x[3] \in StepsOf(k)
<1>1. /\ x[1] \in DOMAIN Program[k]
      /\ x[2] \in DOMAIN Program[k][x[1]]
      /\ x[3] = Program[k][x[1]][x[2]]
  BY PlaceShape
<1> QED BY <1>1 DEF StepsOf

LEMMA UsedOfPlace ==
  ASSUME NEW k \in Cases, NEW x \in Places[k], NEW ops, x[3].op \in ops
  PROVE  x[3].at \in Used(k, ops)
BY StepOfCase DEF Used

LEMMA OnFinite ==
  ASSUME NEW k \in Cases, NEW op, NEW at
  PROVE  IsFiniteSet(On(k, op, at)) /\ On(k, op, at) \subseteq Places[k]
<1>1. On(k, op, at) \subseteq Places[k]
  BY DEF On
<1>2. IsFiniteSet(Places[k])
  BY FiniteAssumption DEF FiniteAssumption
<1> QED BY <1>1, <1>2, FS_Subset

-----------------------------------------------------------------------------
(* A thread takes a step                                                   *)

\* Step s is the next of thread t ...
Comes(t, s) == t \in Threads /\ s \in Now(t)
\* ... and t takes it.
Takes(t, s) == Comes(t, s) /\ Goes(t)
Here(t, s) == <<t, pc[t], s>>

LEMMA ComingPlace ==
  ASSUME TypeInv, NEW t, NEW s, Comes(t, s)
  PROVE  /\ Here(t, s) \in Places[case]
         /\ Here(t, s)[3] = s
         /\ case \in Cases
         /\ t \in DOMAIN Program[case]
         /\ s = Program[case][t][pc[t]]
         /\ pc[t] \in Nat
         /\ ~Over(Here(t, s))
<1> DEFINE prog == Program[case][t]
<1>1. /\ case \in Cases
      /\ pc \in [DOMAIN Program[case] -> Nat \ {0}]
      /\ t \in DOMAIN Program[case]
  BY DEF TypeInv, Comes, Threads
<1>2. pc[t] <= Len(prog) /\ s = prog[pc[t]]
  BY DEF Comes, Now
<1>3. Len(prog) \in Nat /\ DOMAIN prog = 1 .. Len(prog)
  BY <1>1, FiniteAssumption DEF FiniteAssumption
<1>4. pc[t] \in DOMAIN prog
  BY <1>1, <1>2, <1>3
<1>5. Here(t, s) \in Places[case]
  BY <1>1, <1>2, <1>4, IsPlace DEF Here
<1>6. ~Over(Here(t, s))
  BY <1>1 DEF Over, Here
<1> QED BY <1>1, <1>2, <1>5, <1>6 DEF Here

LEMMA TakenPlace ==
  ASSUME TypeInv, NEW t, NEW s, Takes(t, s)
  PROVE  /\ Here(t, s) \in Places[case]
         /\ Here(t, s)[3] = s
         /\ case' = case
         /\ ~Over(Here(t, s))
         /\ pc' \in [DOMAIN Program[case] -> Nat \ {0}]
         /\ \A x \in Places[case] : Over(x)' <=> Over(x) \/ x = Here(t, s)
<1>1. /\ Here(t, s) \in Places[case] /\ Here(t, s)[3] = s /\ ~Over(Here(t, s))
      /\ case \in Cases /\ t \in DOMAIN Program[case]
      /\ s = Program[case][t][pc[t]]
  BY ComingPlace DEF Takes
<1>2. pc \in [DOMAIN Program[case] -> Nat \ {0}]
  BY DEF TypeInv
<1>3. case' = case /\ pc' = [pc EXCEPT ![t] = pc[t] + 1]
  BY DEF Takes, Goes
<1>4. pc' \in [DOMAIN Program[case] -> Nat \ {0}]
  <2>1. pc[t] + 1 \in Nat \ {0}
    BY <1>1, <1>2
  <2> QED BY <2>1, <1>2, <1>3
<1>5. ASSUME NEW x \in Places[case]
      PROVE  Over(x)' <=> Over(x) \/ x = Here(t, s)
  <2>1. /\ x[1] \in DOMAIN Program[case]
        /\ x[2] \in Nat
        /\ x[3] = Program[case][x[1]][x[2]]
        /\ x = <<x[1], x[2], x[3]>>
    BY <1>1, PlaceShape
  <2>2. CASE x[1] # t
    <3>1. pc'[x[1]] = pc[x[1]]
      BY <1>2, <1>3, <2>1, <2>2
    <3>2. x # Here(t, s)
      BY <2>2 DEF Here
    <3> QED BY <3>1, <3>2 DEF Over
  <2>3. CASE x[1] = t
    <3>1. pc'[t] = pc[t] + 1 /\ pc[t] \in Nat
      BY <1>1, <1>2, <1>3
    <3>2. x = Here(t, s) <=> x[2] = pc[t]
      BY <1>1, <2>1, <2>3 DEF Here
    <3>3. x[2] < pc[t] + 1 <=> x[2] < pc[t] \/ x[2] = pc[t]
      BY <2>1, <3>1
    <3> QED BY <2>3, <3>1, <3>2, <3>3 DEF Over
  <2> QED BY <2>2, <2>3
<1> QED BY <1>1, <1>3, <1>4, <1>5

-----------------------------------------------------------------------------
(* Order                                                                   *)

LinksOf(k) == Places[k] \X Places[k]

LEMMA OrderedOver ==
  ASSUME TypeInv, NEW E \in SUBSET LinksOf(case), Followed(E),
         NEW x \in Places[case], NEW y \in Places[case], Ordered(E, x, y),
         y[2] <= pc[y[1]]
  PROVE  Over(x)
<1>0. case \in Cases /\ pc \in [DOMAIN Program[case] -> Nat \ {0}]
  BY DEF TypeInv
<1>1. /\ x[1] \in DOMAIN Program[case] /\ x[2] \in Nat
      /\ y[1] \in DOMAIN Program[case] /\ y[2] \in Nat
  BY <1>0, PlaceShape
<1>2. pc[x[1]] \in Nat /\ pc[y[1]] \in Nat
  BY <1>0, <1>1
<1>3. CASE Before(x, y)
  <2>1. x[1] = y[1] /\ x[2] < y[2]
    BY <1>3 DEF Before
  <2>2. x[2] < pc[x[1]]
    BY <1>1, <1>2, <2>1
  <2> QED BY <2>2 DEF Over
<1>4. CASE \E e \in E : NotAfter(x, e[1]) /\ Before(e[2], y)
  <2>1. PICK e \in E : NotAfter(x, e[1]) /\ Before(e[2], y)
    BY <1>4
  <2>2. e[1] \in Places[case] /\ e[2] \in Places[case]
    BY DEF LinksOf
  <2>3. e[1][2] \in Nat /\ e[2][2] \in Nat
    BY <1>0, <2>2, PlaceShape
  <2>4. e[2][1] = y[1] /\ e[2][2] < y[2]
    BY <2>1 DEF Before
  <2>5. e[2][2] < pc[e[2][1]]
    BY <1>1, <1>2, <2>3, <2>4
  <2>6. Over(e[1])
    BY <2>5 DEF Over, Followed
  <2>7. x[1] = e[1][1] /\ x[2] <= e[1][2] /\ e[1][2] < pc[e[1][1]]
    BY <2>1, <2>6 DEF NotAfter, Over
  <2>8. x[2] < pc[x[1]]
    BY <1>1, <1>2, <2>3, <2>7
  <2> QED BY <2>8 DEF Over
<1> QED BY <1>3, <1>4 DEF Ordered

\* ... if y is the step that a thread takes
LEMMA OrderedHere ==
  ASSUME TypeInv, NEW t, NEW s, Comes(t, s),
         NEW E \in SUBSET LinksOf(case), Followed(E),
         NEW x \in Places[case], Ordered(E, x, Here(t, s))
  PROVE  Over(x)
<1>1. Here(t, s) \in Places[case] /\ pc[t] \in Nat
  BY ComingPlace
<1>2. pc[t] <= pc[t]
  BY <1>1
<1>3. Here(t, s)[2] <= pc[Here(t, s)[1]]
  BY <1>2 DEF Here
<1> QED BY <1>1, <1>3, OrderedOver

\* ... or one that was taken
LEMMA OrderedPast ==
  ASSUME TypeInv, NEW E \in SUBSET LinksOf(case), Followed(E),
         NEW x \in Places[case], NEW y \in Places[case], Ordered(E, x, y), Over(y)
  PROVE  Over(x)
<1>0. case \in Cases /\ pc \in [DOMAIN Program[case] -> Nat \ {0}]
  BY DEF TypeInv
<1>1. y[1] \in DOMAIN Program[case] /\ y[2] \in Nat
  BY <1>0, PlaceShape
<1>2. pc[y[1]] \in Nat
  BY <1>0, <1>1
<1>3. y[2] <= pc[y[1]]
  BY <1>1, <1>2 DEF Over
<1> QED BY <1>3, OrderedOver

LEMMA JoinedLinks ==
  ASSUME NEW k \in Cases, NEW E \in SUBSET LinksOf(k), NEW F \in SUBSET LinksOf(k)
  PROVE  Joined(E, F) \in SUBSET LinksOf(k)
<1>1. ASSUME NEW g \in Joined(E, F)
      PROVE  g \in LinksOf(k)
  <2>1. CASE g \in E
    BY <2>1
  <2>2. CASE \E e \in E : \E f \in F : g = <<e[1], f[2]>>
    BY <2>2 DEF LinksOf
  <2> QED BY <1>1, <2>1, <2>2 DEF Joined
<1> QED BY <1>1

LEMMA JoinedFollowed ==
  ASSUME TypeInv, NEW E \in SUBSET LinksOf(case), NEW F \in SUBSET LinksOf(case), Followed(E), Followed(F)
  PROVE  Followed(Joined(E, F))
<1>0. case \in Cases /\ pc \in [DOMAIN Program[case] -> Nat \ {0}]
  BY DEF TypeInv
<1>1. ASSUME NEW g \in Joined(E, F), Over(g[2])
      PROVE  Over(g[1])
  <2>1. CASE g \in E
    BY <1>1, <2>1 DEF Followed
  <2>2. ASSUME NEW e \in E, NEW f \in F, NotAfter(e[2], f[1]), g = <<e[1], f[2]>>
        PROVE  Over(g[1])
    <3>1. e[2] \in Places[case] /\ f[1] \in Places[case]
      BY DEF LinksOf
    <3>2. e[2][2] \in Nat /\ f[1][2] \in Nat /\ f[1][1] \in DOMAIN Program[case]
      BY <1>0, <3>1, PlaceShape
    <3>3. pc[f[1][1]] \in Nat
      BY <1>0, <3>2
    <3>4. Over(f[1])
      BY <1>1, <2>2 DEF Followed
    <3>5. e[2][1] = f[1][1] /\ e[2][2] <= f[1][2] /\ f[1][2] < pc[f[1][1]]
      BY <2>2, <3>4 DEF NotAfter, Over
    <3>6. e[2][2] < pc[e[2][1]]
      BY <3>2, <3>3, <3>5
    <3>7. Over(e[2])
      BY <3>6 DEF Over
    <3> QED BY <2>2, <3>7 DEF Followed
  <2>3. g \in E \/ \E e \in E : \E f \in F : NotAfter(e[2], f[1]) /\ g = <<e[1], f[2]>>
    BY <1>1 DEF Joined
  <2> QED BY <2>1, <2>2, <2>3
<1> QED BY <1>1 DEF Followed

LEMMA AwaitedLinks ==
  ASSUME NEW k \in Cases
  PROVE  Awaited[k] \in SUBSET LinksOf(k) /\ Waits[k] \in SUBSET LinksOf(k)
<1>1. Awaited[k] \in SUBSET LinksOf(k)
  BY DEF Awaited, LinksOf, Ops
<1>2. Waits[k] = Joined(Awaited2[k], Awaited2[k]) /\ Awaited2[k] = Joined(Awaited[k], Awaited[k])
  BY DEF Waits, Awaited2
<1> QED BY <1>1, <1>2, JoinedLinks

LEMMA WaitsFollowed ==
  ASSUME TypeInv, WaitInv
  PROVE  Followed(Waits[case])
<1>1. case \in Cases
  BY DEF TypeInv
<1>2. /\ Waits[case] = Joined(Awaited2[case], Awaited2[case])
      /\ Awaited2[case] = Joined(Awaited[case], Awaited[case])
  BY <1>1 DEF Waits, Awaited2
<1>3. Awaited[case] \in SUBSET LinksOf(case) /\ Followed(Awaited[case])
  BY <1>1, AwaitedLinks DEF WaitInv
<1>4. Awaited2[case] \in SUBSET LinksOf(case) /\ Followed(Awaited2[case])
  BY <1>1, <1>2, <1>3, JoinedLinks, JoinedFollowed
<1> QED BY <1>2, <1>4, JoinedFollowed

-----------------------------------------------------------------------------
(* Counting                                                                *)

LEMMA PastFinite ==
  ASSUME TypeInv, NEW op, NEW at
  PROVE  /\ Past(op, at) \subseteq On(case, op, at)
         /\ Past(op, at) \subseteq Places[case]
         /\ IsFiniteSet(Past(op, at))
         /\ Cardinality(Past(op, at)) \in Nat
<1>1. case \in Cases
  BY DEF TypeInv
<1>2. IsFiniteSet(On(case, op, at)) /\ On(case, op, at) \subseteq Places[case]
  BY <1>1, OnFinite
<1>3. Past(op, at) \subseteq On(case, op, at)
  BY DEF Past
<1>4. IsFiniteSet(Past(op, at))
  BY <1>2, <1>3, FS_Subset
<1> QED BY <1>2, <1>3, <1>4, FS_CardinalityType

LEMMA PastGrows ==
  ASSUME TypeInv, NEW t, NEW s, Takes(t, s), NEW op, NEW at
  PROVE  IF s.op = op /\ s.at = at
           THEN /\ Past(op, at)' = Past(op, at) \cup {Here(t, s)}
                /\ Cardinality(Past(op, at))' = Cardinality(Past(op, at)) + 1
           ELSE /\ Past(op, at)' = Past(op, at)
                /\ Cardinality(Past(op, at))' = Cardinality(Past(op, at))
<1> DEFINE h == Here(t, s)
<1>1. /\ h \in Places[case] /\ h[3] = s /\ case' = case /\ ~Over(h)
      /\ \A x \in Places[case] : Over(x)' <=> Over(x) \/ x = h
  BY TakenPlace
<1>2. Past(op, at)' = {x \in On(case, op, at) : Over(x)'}
  BY <1>1 DEF Past, On, Places
<1>3. On(case, op, at) \subseteq Places[case]
  BY DEF On
<1>4. h \in On(case, op, at) <=> s.op = op /\ s.at = at
  BY <1>1 DEF On
<1>5. IsFiniteSet(Past(op, at)) /\ Cardinality(Past(op, at)) \in Nat
  BY PastFinite
<1>6. h \notin Past(op, at)
  BY <1>1 DEF Past
<1>7. CASE s.op = op /\ s.at = at
  <2>1. Past(op, at)' = Past(op, at) \cup {h}
    BY <1>1, <1>2, <1>3, <1>4, <1>7 DEF Past
  <2>2. Cardinality(Past(op, at) \cup {h}) = Cardinality(Past(op, at)) + 1
    BY <1>5, <1>6, FS_AddElement
  <2> QED BY <1>7, <2>1, <2>2
<1>8. CASE ~(s.op = op /\ s.at = at)
  <2>1. Past(op, at)' = Past(op, at)
    BY <1>1, <1>2, <1>3, <1>4, <1>8 DEF Past
  <2> QED BY <1>8, <2>1
<1> QED BY <1>7, <1>8

-----------------------------------------------------------------------------
(* Whose turn it is                                                        *)

Traffic == {"send", "recv"}

LEMMA RankIs ==
  ASSUME NEW k \in Cases, NEW x \in Ops(k, Traffic)
  PROVE  /\ Rank[k][x] = Cardinality(Earlier(k, x))
         /\ Rank[k][x] \in Nat
         /\ IsFiniteSet(Earlier(k, x))
         /\ Earlier(k, x) \subseteq On(k, x[3].op, x[3].at)
         /\ x \in Places[k] /\ x \in On(k, x[3].op, x[3].at)
<1>1. Rank[k][x] = Cardinality(Earlier(k, x))
  BY DEF Rank, Traffic
<1>2. Earlier(k, x) \subseteq On(k, x[3].op, x[3].at)
  BY DEF Earlier
<1>3. IsFiniteSet(Earlier(k, x))
  BY <1>2, OnFinite, FS_Subset
<1>4. Rank[k][x] \in Nat
  BY <1>1, <1>3, FS_CardinalityType
<1>5. x \in Places[k] /\ x \in On(k, x[3].op, x[3].at)
  BY DEF Ops, On
<1> QED BY <1>1, <1>2, <1>3, <1>4, <1>5

\* Two steps of a direction are in line.
LEMMA InTurn ==
  ASSUME NEW k \in Cases, InLine(k), NEW x \in Ops(k, Traffic),
         NEW y \in On(k, x[3].op, x[3].at), y # x
  PROVE  y \in Places[k] /\ (Ordered(Waits[k], x, y) \/ Ordered(Waits[k], y, x))
<1>1. y \in Places[k] /\ y[3].op = x[3].op /\ y[3].at = x[3].at
  BY DEF On
<1>2. x[3].op \in Traffic
  BY DEF Ops
<1>3. y \in Ops(k, Traffic)
  BY <1>1, <1>2 DEF Ops
<1> QED BY <1>1, <1>3 DEF InLine, Traffic

LEMMA RankHere ==
  ASSUME TypeInv, WaitInv, InLine(case), NEW t, NEW s, Comes(t, s), s.op \in Traffic
  PROVE  /\ Here(t, s) \in Ops(case, Traffic)
         /\ Rank[case][Here(t, s)] = Cardinality(Past(s.op, s.at))
<1> DEFINE h == Here(t, s)
<1>1. case \in Cases /\ h \in Places[case] /\ h[3] = s /\ ~Over(h)
  BY ComingPlace
<1>2. h \in Ops(case, Traffic)
  BY <1>1 DEF Ops
<1>3. Waits[case] \in SUBSET LinksOf(case) /\ Followed(Waits[case])
  BY <1>1, AwaitedLinks, WaitsFollowed
<1>4. ASSUME NEW y \in Earlier(case, h)
      PROVE  y \in Past(s.op, s.at)
  <2>1. y \in On(case, s.op, s.at) /\ Ordered(Waits[case], y, h)
    BY <1>1 DEF Earlier
  <2>2. y \in Places[case]
    BY <2>1 DEF On
  <2>3. Over(y)
    BY <1>3, <2>1, <2>2, OrderedHere
  <2> QED BY <2>1, <2>3 DEF Past
<1>5. ASSUME NEW y \in Past(s.op, s.at)
      PROVE  y \in Earlier(case, h)
  <2>1. y \in On(case, s.op, s.at) /\ Over(y) /\ y # h
    BY <1>1 DEF Past
  <2>2. y \in Places[case] /\ (Ordered(Waits[case], h, y) \/ Ordered(Waits[case], y, h))
    BY <1>1, <1>2, <2>1, InTurn
  <2>3. ~Ordered(Waits[case], h, y)
    BY <1>1, <1>3, <2>1, <2>2, OrderedPast
  <2> QED BY <1>1, <2>1, <2>2, <2>3 DEF Earlier
<1>6. Earlier(case, h) = Past(s.op, s.at)
  BY <1>4, <1>5
<1> QED BY <1>1, <1>2, <1>6, RankIs

LEMMA RankPast ==
  ASSUME TypeInv, WaitInv, NEW x \in Ops(case, Traffic), Over(x)
  PROVE  Rank[case][x] < Cardinality(Past(x[3].op, x[3].at))
<1> DEFINE past == Past(x[3].op, x[3].at)
           earlier == Earlier(case, x)
<1>1. case \in Cases
  BY DEF TypeInv
<1>2. /\ Rank[case][x] = Cardinality(earlier) /\ Rank[case][x] \in Nat
      /\ IsFiniteSet(earlier) /\ x \in Places[case] /\ x \in On(case, x[3].op, x[3].at)
  BY <1>1, RankIs
<1>3. Waits[case] \in SUBSET LinksOf(case) /\ Followed(Waits[case])
  BY <1>1, AwaitedLinks, WaitsFollowed
<1>4. ASSUME NEW y \in earlier
      PROVE  y \in past
  <2>1. y \in On(case, x[3].op, x[3].at) /\ Ordered(Waits[case], y, x)
    BY DEF Earlier
  <2>2. y \in Places[case]
    BY <2>1 DEF On
  <2>3. Over(y)
    BY <1>2, <1>3, <2>1, <2>2, OrderedPast
  <2> QED BY <2>1, <2>3 DEF Past
<1>5. x \in past /\ x \notin earlier
  BY <1>2 DEF Past, Earlier
<1>6. earlier \cup {x} \in SUBSET past
  BY <1>4, <1>5
<1>7. Cardinality(earlier \cup {x}) = Cardinality(earlier) + 1
  BY <1>2, <1>5, FS_AddElement
<1>8. IsFiniteSet(past) /\ Cardinality(past) \in Nat
  BY PastFinite
<1>9. Cardinality(earlier \cup {x}) <= Cardinality(past)
  BY <1>6, <1>8, FS_Subset
<1> HIDE DEF past, earlier
<1>10. Rank[case][x] < Cardinality(past)
  BY <1>2, <1>7, <1>8, <1>9
<1> QED BY <1>10 DEF past

LEMMA RankFuture ==
  ASSUME TypeInv, WaitInv, InLine(case), NEW x \in Ops(case, Traffic), ~Over(x)
  PROVE  Cardinality(Past(x[3].op, x[3].at)) <= Rank[case][x]
<1> DEFINE past == Past(x[3].op, x[3].at)
<1>1. case \in Cases
  BY DEF TypeInv
<1>2. /\ Rank[case][x] = Cardinality(Earlier(case, x))
      /\ IsFiniteSet(Earlier(case, x)) /\ x \in Places[case]
  BY <1>1, RankIs
<1>3. Waits[case] \in SUBSET LinksOf(case) /\ Followed(Waits[case])
  BY <1>1, AwaitedLinks, WaitsFollowed
<1>4. ASSUME NEW y \in past
      PROVE  y \in Earlier(case, x)
  <2>1. y \in On(case, x[3].op, x[3].at) /\ Over(y) /\ y # x
    BY DEF Past
  <2>2. y \in Places[case] /\ (Ordered(Waits[case], x, y) \/ Ordered(Waits[case], y, x))
    BY <1>1, <2>1, InTurn
  <2>3. ~Ordered(Waits[case], x, y)
    BY <1>2, <1>3, <2>1, <2>2, OrderedPast
  <2> QED BY <2>1, <2>2, <2>3 DEF Earlier
<1>5. past \in SUBSET Earlier(case, x)
  BY <1>4
<1>6. Cardinality(past) <= Cardinality(Earlier(case, x))
  BY <1>2, <1>5, FS_Subset
<1> QED BY <1>2, <1>6

\* Of the messages of a direction, no more were received than sent.
LEMMA NotAhead ==
  ASSUME TypeInv, CountInv, NEW d \in DOMAIN wire
  PROVE  Cardinality(Past("recv", d)) <= Cardinality(Past("send", d))
<1>1. Len(wire[d]) \in Nat
  <2>1. wire[d] \in Seq({Carried(x) : x \in Ops(case, {"send"})})
    BY DEF TypeInv
  <2> QED BY <2>1, LenProperties
<1>2. Cardinality(Past("recv", d)) \in Nat /\ Cardinality(Past("send", d)) \in Nat
  BY PastFinite
<1>3. Len(wire[d]) + Cardinality(Past("recv", d)) = Cardinality(Past("send", d))
  BY DEF CountInv
<1> QED BY <1>1, <1>2, <1>3

LEMMA PairsFollowed ==
  ASSUME TypeInv, CountInv, WaitInv, InLine(case)
  PROVE  Pairs[case] \in SUBSET LinksOf(case) /\ Followed(Pairs[case])
<1>1. case \in Cases /\ DOMAIN wire = Used(case, {"send", "recv", "flush"})
  BY DEF TypeInv
<1>2. ASSUME NEW e \in Pairs[case]
      PROVE  /\ e \in LinksOf(case)
             /\ e[1] \in Ops(case, Traffic) /\ e[2] \in Ops(case, Traffic)
             /\ e[1][3].op = "send" /\ e[2][3].op = "recv" /\ e[1][3].at = e[2][3].at
             /\ Rank[case][e[1]] = Rank[case][e[2]]
    BY <1>1 DEF Pairs, Ops, LinksOf, Traffic
<1>3. ASSUME NEW e \in Pairs[case], Over(e[2])
      PROVE  Over(e[1])
  <2> DEFINE d == e[1][3].at
  <2>1. d \in DOMAIN wire
    <3>1. e[1] \in Places[case] /\ e[1][3].op \in {"send", "recv", "flush"}
      BY <1>2 DEF Ops
    <3> QED BY <1>1, <3>1, UsedOfPlace
  <2>2. Rank[case][e[2]] < Cardinality(Past("recv", d))
    BY <1>2, <1>3, RankPast
  <2>3. Cardinality(Past("recv", d)) <= Cardinality(Past("send", d))
    BY <2>1, NotAhead
  <2>4. Rank[case][e[1]] = Rank[case][e[2]] /\ Rank[case][e[1]] \in Nat
    BY <1>1, <1>2, RankIs
  <2>5. Cardinality(Past("recv", d)) \in Nat /\ Cardinality(Past("send", d)) \in Nat
    BY PastFinite
  <2>6. SUFFICES ASSUME ~Over(e[1]) PROVE FALSE
    OBVIOUS
  <2>7. Cardinality(Past("send", d)) <= Rank[case][e[1]]
    BY <1>2, <2>6, RankFuture
  <2> HIDE DEF d
  <2> QED BY <2>2, <2>3, <2>4, <2>5, <2>7
<1>4. Pairs[case] \in SUBSET LinksOf(case)
  BY <1>2
<1> QED BY <1>3, <1>4 DEF Followed

LEMMA LinksFollowed ==
  ASSUME TypeInv, CountInv, WaitInv, FlushInv, InLine(case)
  PROVE  Links[case] \in SUBSET LinksOf(case) /\ Followed(Links[case])
<1>1. case \in Cases
  BY DEF TypeInv
<1>2. Awaited[case] \in SUBSET LinksOf(case) /\ Followed(Awaited[case])
  BY <1>1, AwaitedLinks DEF WaitInv
<1>3. Pairs[case] \in SUBSET LinksOf(case) /\ Followed(Pairs[case])
  BY PairsFollowed
<1>4. Flushed[case] \in SUBSET LinksOf(case) /\ Followed(Flushed[case])
  <2>1. ASSUME NEW g \in Flushed[case]
        PROVE  g \in LinksOf(case)
    <3>1. PICK e \in Pairs[case] : \E f \in On(case, "flush", e[1][3].at) : g = <<e[2], f>>
      BY <1>1 DEF Flushed
    <3>2. e[2] \in Places[case]
      BY <1>3 DEF LinksOf
    <3> QED BY <3>1, <3>2 DEF LinksOf, On
  <2> QED BY <2>1 DEF FlushInv
<1>5. Direct[case] \in SUBSET LinksOf(case) /\ Followed(Direct[case])
  BY <1>1, <1>2, <1>3, <1>4 DEF Direct, Followed
<1>6. /\ Links[case] = Joined(Direct2[case], Direct2[case])
      /\ Direct2[case] = Joined(Direct[case], Direct[case])
  BY <1>1 DEF Links, Direct2
<1>7. Direct2[case] \in SUBSET LinksOf(case) /\ Followed(Direct2[case])
  BY <1>1, <1>5, <1>6, JoinedLinks, JoinedFollowed
<1> QED BY <1>1, <1>6, <1>7, JoinedLinks, JoinedFollowed

-----------------------------------------------------------------------------
(* The invariant                                                           *)

\* A step of thread t, whichever it is
Moves(t, s) ==
  /\ t \in Threads /\ s \in Now(t)
  /\ Post(t, s) \/ Take(t, s) \/ Flush(t, s) \/ Tell(t, s) \/ Wait(t, s) \/ Touch(t, s) \/ Release(t, s)

LEMMA MovesTakes ==
  ASSUME NEW t, NEW s, Moves(t, s)
  PROVE  Takes(t, s) /\ Comes(t, s)
BY DEF Moves, Takes, Comes, Post, Take, Flush, Tell, Wait, Touch, Release

LEMMA InitOrder == Init => OrderInv
<1> SUFFICES ASSUME Init PROVE OrderInv
  OBVIOUS
<1>1. case \in Cases /\ pc = [t \in DOMAIN Program[case] |-> 1] /\ filled = {}
  BY DEF Init
<1>2. /\ wire = [d \in Used(case, {"send", "recv", "flush"}) |-> << >>]
      /\ tally = [p \in Used(case, {"signal", "await"}) |-> 0]
  BY DEF Init
<1>3. TypeInv
  <2>1. << >> \in Seq({Carried(x) : x \in Ops(case, {"send"})})
    OBVIOUS
  <2>2. wire \in [Used(case, {"send", "recv", "flush"}) -> Seq({Carried(x) : x \in Ops(case, {"send"})})]
    BY <1>2, <2>1
  <2>3. pc \in [DOMAIN Program[case] -> Nat \ {0}]
    BY <1>1
  <2>4. tally \in [Used(case, {"signal", "await"}) -> Nat]
    BY <1>2
  <2> QED BY <1>1, <2>2, <2>3, <2>4 DEF TypeInv
<1>4. ASSUME NEW x \in Places[case]
      PROVE  ~Over(x)
  <2>1. x[1] \in DOMAIN Program[case] /\ x[2] \in DOMAIN Program[case][x[1]]
    BY <1>1, PlaceShape
  <2>2. x[2] \in 1 .. Len(Program[case][x[1]])
    BY <1>1, <2>1, FiniteAssumption DEF FiniteAssumption
  <2>3. Len(Program[case][x[1]]) \in Nat
    BY <1>1, PlaceShape
  <2>4. x[2] >= 1 /\ x[2] \in Nat
    BY <2>2, <2>3
  <2> QED BY <1>1, <2>1, <2>4 DEF Over
<1>5. ASSUME NEW op, NEW at
      PROVE  Past(op, at) = {} /\ Cardinality(Past(op, at)) = 0
  <2>1. Past(op, at) = {}
    BY <1>4 DEF Past, On
  <2> QED BY <2>1, FS_EmptySet
<1>6. CountInv
  <2>1. \A p \in DOMAIN tally : tally[p] = Cardinality(Past("signal", p))
    BY <1>2, <1>5
  <2>2. \A d \in DOMAIN wire : Len(wire[d]) = 0
    BY <1>2
  <2>3. \A d \in DOMAIN wire : Cardinality(Past("recv", d)) = 0 /\ Cardinality(Past("send", d)) = 0
    BY <1>5
  <2> QED BY <2>1, <2>2, <2>3 DEF CountInv
<1>7. TurnInv
  <2>1. \A d \in DOMAIN wire : 1 .. Len(wire[d]) = {}
    BY <1>2
  <2> QED BY <2>1 DEF TurnInv
<1>8. WaitInv
  <2>1. \A e \in Awaited[case] : e[2] \in Places[case]
    BY <1>1, AwaitedLinks DEF LinksOf
  <2> QED BY <1>4, <2>1 DEF WaitInv, Followed
<1>9. FlushInv
  <2>1. \A g \in Flushed[case] : g[2] \in Places[case]
    BY <1>1 DEF Flushed, On
  <2> QED BY <1>4, <2>1 DEF FlushInv, Followed
<1>10. StoreInv
  BY <1>4 DEF StoreInv, Ops
<1> QED BY <1>3, <1>6, <1>7, <1>8, <1>9, <1>10 DEF OrderInv

LEMMA NextType ==
  ASSUME TypeInv, NEW t, NEW s, Moves(t, s)
  PROVE  TypeInv'
<1> DEFINE h == Here(t, s)
           Messages == {Carried(x) : x \in Ops(case, {"send"})}
<1>1. /\ h \in Places[case] /\ h[3] = s /\ case' = case
      /\ pc' \in [DOMAIN Program[case] -> Nat \ {0}]
  BY MovesTakes, TakenPlace
<1>2. /\ case \in Cases
      /\ wire \in [Used(case, {"send", "recv", "flush"}) -> Seq(Messages)]
      /\ tally \in [Used(case, {"signal", "await"}) -> Nat]
      /\ \A cell \in filled : Len(cell) = 5
  BY DEF TypeInv
<1>3. Used(case, {"send", "recv", "flush"})' = Used(case, {"send", "recv", "flush"})
  BY <1>1 DEF Used, StepsOf
<1>4. Used(case, {"signal", "await"})' = Used(case, {"signal", "await"})
  BY <1>1 DEF Used, StepsOf
<1>5. Messages' = Messages
  BY <1>1 DEF Ops, Places, Carried
<1>6. \A ops : s.op \in ops => s.at \in Used(case, ops)
  BY <1>1, <1>2, UsedOfPlace
<1>7. wire' \in [Used(case, {"send", "recv", "flush"}) -> Seq(Messages)]
  <2>1. CASE Post(t, s)
    <3>1. s.op = "send" /\ wire' = [wire EXCEPT ![s.at] = Append(wire[s.at], Carried(h))]
      BY <1>1, <2>1 DEF Post, Carried
    <3>2. Carried(h) \in Messages
      BY <1>1, <3>1 DEF Ops
    <3>3. s.at \in Used(case, {"send", "recv", "flush"})
      BY <1>6, <3>1
    <3> HIDE DEF Messages, h
    <3>4. Append(wire[s.at], Carried(h)) \in Seq(Messages)
      BY <1>2, <3>2, <3>3
    <3> QED BY <1>2, <3>1, <3>4
  <2>2. CASE Take(t, s)
    <3>1. s.op = "recv" /\ wire[s.at] # << >> /\ wire' = [wire EXCEPT ![s.at] = Tail(wire[s.at])]
      BY <2>2 DEF Take
    <3>2. s.at \in Used(case, {"send", "recv", "flush"})
      BY <1>6, <3>1
    <3> HIDE DEF Messages
    <3>3. Tail(wire[s.at]) \in Seq(Messages)
      BY <1>2, <3>1, <3>2
    <3> QED BY <1>2, <3>1, <3>3
  <2>3. CASE UNCHANGED wire
    BY <1>2, <2>3
  <2> QED BY <2>1, <2>2, <2>3 DEF Moves, Flush, Tell, Wait, Touch, Release
<1>8. tally' \in [Used(case, {"signal", "await"}) -> Nat]
  <2>1. CASE Tell(t, s)
    <3>1. s.op = "signal" /\ tally' = [tally EXCEPT ![s.at] = tally[s.at] + 1]
      BY <2>1 DEF Tell
    <3>2. s.at \in Used(case, {"signal", "await"})
      BY <1>6, <3>1
    <3> QED BY <1>2, <3>1, <3>2
  <2>2. CASE UNCHANGED tally
    BY <1>2, <2>2
  <2> QED BY <2>1, <2>2 DEF Moves, Post, Take, Flush, Wait, Touch, Release
<1>9. \A cell \in filled' : Len(cell) = 5
  <2>1. CASE Touch(t, s)
    <3>1. s.op \in Stores => \A cell \in s.cells : Len(cell) = 5
      BY <1>1, <1>2, StepAssumption DEF StepAssumption
    <3> QED BY <1>2, <2>1, <3>1 DEF Touch
  <2>2. CASE Release(t, s)
    BY <1>2, <2>2 DEF Release
  <2>3. CASE UNCHANGED filled
    BY <1>2, <2>3
  <2> QED BY <2>1, <2>2, <2>3 DEF Moves, Post, Take, Flush, Tell, Wait
<1> HIDE DEF Messages
<1> QED
  <2>1. case' \in Cases /\ Program[case]' = Program[case]
    BY <1>1, <1>2
  <2>2. TypeInv' = /\ case' \in Cases
                   /\ pc' \in [DOMAIN Program[case]' -> Nat \ {0}]
                   /\ wire' \in [Used(case, {"send", "recv", "flush"})' -> Seq(Messages')]
                   /\ tally' \in [Used(case, {"signal", "await"})' -> Nat]
                   /\ \A cell \in filled' : Len(cell) = 5
    BY DEF TypeInv, Messages
  <2> QED BY <1>1, <1>3, <1>4, <1>5, <1>7, <1>8, <1>9, <2>1, <2>2

LEMMA NextCount ==
  ASSUME TypeInv, CountInv, NEW t, NEW s, Moves(t, s)
  PROVE  CountInv'
<1>1. Takes(t, s)
  BY MovesTakes
<1>2. /\ wire \in [Used(case, {"send", "recv", "flush"}) -> Seq({Carried(x) : x \in Ops(case, {"send"})})]
      /\ tally \in [Used(case, {"signal", "await"}) -> Nat]
  BY DEF TypeInv
<1>3. ASSUME NEW p \in DOMAIN tally'
      PROVE  tally'[p] = Cardinality(Past("signal", p))'
  <2>1. CASE Tell(t, s)
    <3>1. s.op = "signal" /\ tally' = [tally EXCEPT ![s.at] = tally[s.at] + 1]
      BY <2>1 DEF Tell
    <3>2. DOMAIN tally' = DOMAIN tally
      BY <3>1
    <3>3. p \in DOMAIN tally /\ tally[p] = Cardinality(Past("signal", p))
      BY <1>3, <3>2 DEF CountInv
    <3>4. CASE s.at = p
      <4>1. Cardinality(Past("signal", p))' = Cardinality(Past("signal", p)) + 1
        BY <1>1, <3>1, <3>4, PastGrows
      <4> QED BY <3>1, <3>3, <3>4, <4>1
    <3>5. CASE s.at # p
      <4>1. Cardinality(Past("signal", p))' = Cardinality(Past("signal", p))
        BY <1>1, <3>5, PastGrows
      <4> QED BY <3>1, <3>3, <3>5, <4>1
    <3> QED BY <3>4, <3>5
  <2>2. CASE UNCHANGED tally /\ s.op # "signal"
    <3>1. Cardinality(Past("signal", p))' = Cardinality(Past("signal", p))
      BY <1>1, <2>2, PastGrows
    <3> QED BY <1>3, <2>2, <3>1 DEF CountInv
  <2> QED BY <2>1, <2>2 DEF Moves, Post, Take, Flush, Wait, Touch, Release, Stores
<1>4. ASSUME NEW d \in DOMAIN wire'
      PROVE  Len(wire'[d]) + Cardinality(Past("recv", d))' = Cardinality(Past("send", d))'
  <2> DEFINE sent == Cardinality(Past("send", d))
             got == Cardinality(Past("recv", d))
  <2>1. sent \in Nat /\ got \in Nat
    BY PastFinite
  <2>2. DOMAIN wire' = DOMAIN wire
    BY DEF Moves, Post, Take, Flush, Tell, Wait, Touch, Release
  <2>3. /\ wire[d] \in Seq({Carried(x) : x \in Ops(case, {"send"})})
        /\ Len(wire[d]) \in Nat
        /\ Len(wire[d]) + got = sent
    BY <1>2, <1>4, <2>2, LenProperties DEF CountInv
  <2>4. CASE Post(t, s) /\ s.at = d
    <3>1. s.op = "send"
      BY <2>4 DEF Post
    <3>2. sent' = sent + 1
      BY <1>1, <2>4, <3>1, PastGrows
    <3>3. got' = got
      BY <1>1, <3>1, PastGrows
    <3>4. PICK m : wire' = [wire EXCEPT ![d] = Append(wire[d], m)]
      BY <2>4 DEF Post
    <3>5. wire'[d] = Append(wire[d], m)
      BY <1>4, <2>2, <3>4
    <3>6. Len(wire'[d]) = Len(wire[d]) + 1
      BY <2>3, <3>5
    <3>7. Len(wire'[d]) + got' = sent'
      <4> HIDE DEF sent, got
      <4> QED BY <2>1, <2>3, <3>2, <3>3, <3>6
    <3> QED BY <3>7
  <2>5. CASE Take(t, s) /\ s.at = d
    <3>1. s.op = "recv" /\ wire[d] # << >>
      BY <2>5 DEF Take
    <3>2. got' = got + 1
      BY <1>1, <2>5, <3>1, PastGrows
    <3>3. sent' = sent
      BY <1>1, <3>1, PastGrows
    <3>4. wire' = [wire EXCEPT ![d] = Tail(wire[d])]
      BY <2>5 DEF Take
    <3>5. wire'[d] = Tail(wire[d])
      BY <1>4, <2>2, <3>4
    <3>6. Len(wire'[d]) = Len(wire[d]) - 1
      BY <2>3, <3>1, <3>5
    <3>7. Len(wire'[d]) + got' = sent'
      <4>1. \A a, b \in Nat : (a - 1) + (b + 1) = a + b
        OBVIOUS
      <4> HIDE DEF sent, got
      <4> QED BY <2>1, <2>3, <3>2, <3>3, <3>6, <4>1
    <3> QED BY <3>7
  <2>6. CASE wire'[d] = wire[d] /\ (s.op \notin Traffic \/ s.at # d)
    <3>1. sent' = sent
      BY <1>1, <2>6, PastGrows DEF Traffic
    <3>2. got' = got
      BY <1>1, <2>6, PastGrows DEF Traffic
    <3>7. Len(wire'[d]) + got' = sent'
      <4> HIDE DEF sent, got
      <4> QED BY <2>3, <2>6, <3>1, <3>2
    <3> QED BY <3>7
  <2> HIDE DEF sent, got
  <2>7. (Post(t, s) \/ Take(t, s)) /\ s.at # d => wire'[d] = wire[d]
    BY <1>2, <1>4, <2>2 DEF Post, Take
  <2>8. Flush(t, s) \/ Tell(t, s) \/ Wait(t, s) \/ Touch(t, s) \/ Release(t, s)
          => wire' = wire /\ s.op \notin Traffic
    BY DEF Flush, Tell, Wait, Touch, Release, Traffic, Stores
  <2>9. \/ Post(t, s) \/ Take(t, s)
        \/ Flush(t, s) \/ Tell(t, s) \/ Wait(t, s) \/ Touch(t, s) \/ Release(t, s)
    BY DEF Moves
  <2> QED BY <2>4, <2>5, <2>6, <2>7, <2>8, <2>9 DEF sent, got
<1> QED BY <1>3, <1>4 DEF CountInv

LEMMA NextTurn ==
  ASSUME TypeInv, CountInv, WaitInv, TurnInv, NEW t, NEW s, Moves(t, s)
  PROVE  TurnInv'
<1> DEFINE h == Here(t, s)
<1>1. Takes(t, s) /\ case' = case /\ h[3] = s /\ case \in Cases
  BY MovesTakes, TakenPlace DEF TypeInv
<1>2. wire \in [Used(case, {"send", "recv", "flush"}) -> Seq({Carried(x) : x \in Ops(case, {"send"})})]
  BY DEF TypeInv
<1>3. DOMAIN wire' = DOMAIN wire
  BY DEF Moves, Post, Take, Flush, Tell, Wait, Touch, Release
<1>4. SUFFICES ASSUME InLine(case), NEW d \in DOMAIN wire, NEW j \in 1 .. Len(wire'[d])
               PROVE  \E x \in Past("send", d)' :
                        Rank[case][x] + 1 = Cardinality(Past("recv", d))' + j /\ wire'[d][j] = Carried(x)
  <2>1. InLine(case)' = InLine(case)
    BY <1>1 DEF InLine, Ops, Places, Ordered, Waits
  <2>2. TurnInv' = (InLine(case)' =>
          \A d \in DOMAIN wire' : \A j \in 1 .. Len(wire'[d]) : \E x \in Past("send", d)' :
            Rank[case][x] + 1 = Cardinality(Past("recv", d))' + j /\ wire'[d][j] = Carried(x))
    BY <1>1 DEF TurnInv, Rank, Carried
  <2> QED BY <1>3, <2>1, <2>2
<1> DEFINE got == Cardinality(Past("recv", d))
           sent == Cardinality(Past("send", d))
<1>5. /\ got \in Nat /\ sent \in Nat
      /\ wire[d] \in Seq({Carried(x) : x \in Ops(case, {"send"})})
      /\ Len(wire[d]) \in Nat
      /\ Len(wire[d]) + got = sent
  BY <1>2, <1>4, PastFinite, LenProperties DEF CountInv
<1>6. Past("send", d) \subseteq Past("send", d)'
  BY <1>1, PastGrows
<1>7. ASSUME NEW i \in 1 .. Len(wire[d])
      PROVE  \E x \in Past("send", d) : Rank[case][x] + 1 = got + i /\ wire[d][i] = Carried(x)
  BY <1>4, <1>7 DEF TurnInv
<1>8. CASE Post(t, s) /\ s.at = d
  <2>1. s.op = "send" /\ wire' = [wire EXCEPT ![d] = Append(wire[d], Carried(h))]
    BY <1>1, <1>8 DEF Post, Carried
  <2>2. wire'[d] = Append(wire[d], Carried(h))
    BY <1>4, <2>1
  <2>3. got' = got
    BY <1>1, <2>1, PastGrows
  <2>4. CASE j = Len(wire[d]) + 1
    <3>1. wire'[d][j] = Carried(h)
      BY <1>5, <2>2, <2>4
    <3>2. Rank[case][h] = sent
      BY <1>1, <1>4, <1>8, <2>1, MovesTakes, RankHere DEF Traffic
    <3>3. h \in Past("send", d)'
      BY <1>1, <1>8, <2>1, PastGrows
    <3>4. Rank[case][h] + 1 = got' + j
      <4> HIDE DEF got, sent, h
      <4> QED BY <1>5, <2>3, <2>4, <3>2
    <3> QED BY <3>1, <3>3, <3>4
  <2>5. CASE j # Len(wire[d]) + 1
    <3>1. Len(wire'[d]) = Len(wire[d]) + 1
      BY <1>5, <2>2
    <3>2. j \in 1 .. Len(wire[d])
      BY <1>4, <1>5, <2>5, <3>1
    <3>3. wire'[d][j] = wire[d][j]
      BY <1>5, <2>2, <3>2
    <3>4. PICK x \in Past("send", d) : Rank[case][x] + 1 = got + j /\ wire[d][j] = Carried(x)
      BY <1>7, <3>2
    <3> QED BY <1>6, <2>3, <3>3, <3>4
  <2> QED BY <2>4, <2>5
<1>9. CASE Take(t, s) /\ s.at = d
  <2>1. s.op = "recv" /\ wire[d] # << >> /\ wire' = [wire EXCEPT ![d] = Tail(wire[d])]
    BY <1>9 DEF Take
  <2>2. wire'[d] = Tail(wire[d])
    BY <1>4, <2>1
  <2>3. got' = got + 1
    BY <1>1, <1>9, <2>1, PastGrows
  <2>4. Len(wire'[d]) = Len(wire[d]) - 1
    BY <1>5, <2>1, <2>2
  <2>5. j + 1 \in 1 .. Len(wire[d]) /\ j \in Nat
    BY <1>4, <1>5, <2>4
  <2>6. wire'[d][j] = wire[d][j + 1]
    BY <1>4, <1>5, <2>1, <2>2, <2>4
  <2>7. PICK x \in Past("send", d) : Rank[case][x] + 1 = got + (j + 1) /\ wire[d][j + 1] = Carried(x)
    BY <1>7, <2>5
  <2>8. Rank[case][x] + 1 = got' + j
    <3> HIDE DEF got
    <3> QED BY <1>5, <2>3, <2>5, <2>7
  <2> QED BY <1>6, <2>6, <2>7, <2>8
<1>10. CASE wire'[d] = wire[d] /\ (s.op # "recv" \/ s.at # d)
  <2>1. got' = got
    BY <1>1, <1>10, PastGrows
  <2>2. PICK x \in Past("send", d) : Rank[case][x] + 1 = got + j /\ wire[d][j] = Carried(x)
    BY <1>4, <1>7, <1>10
  <2> QED BY <1>6, <1>10, <2>1, <2>2
<1> HIDE DEF got, sent, h
<1>11. (Post(t, s) \/ Take(t, s)) /\ s.at # d => wire'[d] = wire[d]
  BY <1>2, <1>4 DEF Post, Take
<1>12. Flush(t, s) \/ Tell(t, s) \/ Wait(t, s) \/ Touch(t, s) \/ Release(t, s)
         => wire' = wire /\ s.op # "recv"
  BY DEF Flush, Tell, Wait, Touch, Release, Stores
<1>13. \/ Post(t, s) \/ Take(t, s)
       \/ Flush(t, s) \/ Tell(t, s) \/ Wait(t, s) \/ Touch(t, s) \/ Release(t, s)
  BY DEF Moves
<1> QED BY <1>8, <1>9, <1>10, <1>11, <1>12, <1>13 DEF got

\* Links stay followed if the step taken is not the second of one, or comes
\* after the first.
LEMMA NextFollowed ==
  ASSUME TypeInv, NEW t, NEW s, Takes(t, s), NEW E \in SUBSET LinksOf(case), Followed(E),
         \A e \in E : e[2] = Here(t, s) => Over(e[1])
  PROVE  \A e \in E : Over(e[2])' => Over(e[1])'
<1>1. \A x \in Places[case] : Over(x)' <=> Over(x) \/ x = Here(t, s)
  BY TakenPlace
<1>2. ASSUME NEW e \in E, Over(e[2])'
      PROVE  Over(e[1])'
  <2>1. e[1] \in Places[case] /\ e[2] \in Places[case]
    BY DEF LinksOf
  <2>2. Over(e[2]) \/ e[2] = Here(t, s)
    BY <1>1, <1>2, <2>1
  <2>3. Over(e[1])
    BY <2>2 DEF Followed
  <2> QED BY <1>1, <2>1, <2>3
<1> QED BY <1>2

LEMMA NextWait ==
  ASSUME TypeInv, CountInv, WaitInv, NEW t, NEW s, Moves(t, s)
  PROVE  WaitInv'
<1> DEFINE h == Here(t, s)
<1>1. Takes(t, s) /\ case' = case /\ h[3] = s /\ case \in Cases
  BY MovesTakes, TakenPlace DEF TypeInv
<1>2. ASSUME NEW e \in Awaited[case], e[2] = h
      PROVE  Over(e[1])
  <2> DEFINE p == s.at
  <2> DEFINE others == {x \in On(case, "signal", p) : ~NotAfter(e[1], x)}
  <2>1. /\ e[1] \in Places[case] /\ s.op = "await" /\ e[1][3].at = p
        /\ Cardinality(others) < s.len
    BY <1>1, <1>2 DEF Awaited, Ops
  <2>2. tally[p] >= s.len
    BY <2>1 DEF Moves, Post, Take, Flush, Tell, Wait, Touch, Release, Stores
  <2>3. /\ p \in DOMAIN tally /\ tally[p] = Cardinality(Past("signal", p))
        /\ h \in Places[case]
    <3>1. h \in Places[case]
      BY <1>1, TakenPlace
    <3>2. h[3].op \in {"signal", "await"} /\ h[3].at = p
      BY <1>1, <2>1
    <3>3. p \in Used(case, {"signal", "await"})
      BY <1>1, <3>1, <3>2, UsedOfPlace
    <3> QED BY <3>1, <3>3 DEF TypeInv, CountInv
  <2>4. SUFFICES ASSUME ~Over(e[1]) PROVE FALSE
    OBVIOUS
  <2>5. ASSUME NEW x \in Past("signal", p)
        PROVE  x \in others
    <3>1. x \in On(case, "signal", p) /\ x \in Places[case] /\ Over(x)
      BY PastFinite DEF Past
    <3>2. ~NotAfter(e[1], x)
      <4>1. e[1][2] \in Nat /\ x[2] \in Nat /\ x[1] \in DOMAIN Program[case]
        BY <1>1, <2>1, <3>1, PlaceShape
      <4>2. pc[x[1]] \in Nat
        BY <4>1 DEF TypeInv
      <4> QED BY <2>4, <3>1, <4>1, <4>2 DEF NotAfter, Over
    <3> QED BY <3>1, <3>2
  <2>6. /\ IsFiniteSet(others) /\ Cardinality(others) \in Nat
        /\ Cardinality(Past("signal", p)) \in Nat
    <3>1. others \in SUBSET On(case, "signal", p)
      OBVIOUS
    <3>2. IsFiniteSet(others)
      BY <1>1, <3>1, OnFinite, FS_Subset
    <3> QED BY <3>2, PastFinite, FS_CardinalityType
  <2>7. Cardinality(Past("signal", p)) <= Cardinality(others)
    BY <2>5, <2>6, FS_Subset
  <2>8. s.len \in Int
    BY <1>1, <2>3, StepAssumption DEF StepAssumption
  <2> HIDE DEF p, others
  <2> QED BY <2>1, <2>2, <2>3, <2>6, <2>7, <2>8
<1>3. Awaited[case] \in SUBSET LinksOf(case)
  BY <1>1, AwaitedLinks
<1>4. \A e \in Awaited[case] : Over(e[2])' => Over(e[1])'
  BY <1>1, <1>2, <1>3, NextFollowed DEF WaitInv
<1> QED BY <1>1, <1>4 DEF WaitInv, Followed, Awaited, Over

LEMMA NextFlush ==
  ASSUME TypeInv, CountInv, WaitInv, FlushInv, NEW t, NEW s, Moves(t, s)
  PROVE  FlushInv'
<1> DEFINE h == Here(t, s)
<1>1. Takes(t, s) /\ case' = case /\ h[3] = s /\ h \in Places[case] /\ case \in Cases
  BY MovesTakes, TakenPlace DEF TypeInv
<1>2. SUFFICES ASSUME InLine(case)
               PROVE  \A g \in Flushed[case] : Over(g[2])' => Over(g[1])'
  <2>1. InLine(case)' = InLine(case)
    BY <1>1 DEF InLine, Ops, Places, Ordered, Waits
  <2>2. Flushed[case]' = Flushed[case]
    BY <1>1 DEF Flushed
  <2> QED BY <2>1, <2>2 DEF FlushInv, Followed, Over
<1>3. Waits[case] \in SUBSET LinksOf(case) /\ Followed(Waits[case])
  BY <1>1, AwaitedLinks, WaitsFollowed
<1>4. ASSUME NEW g \in Flushed[case], g[2] = h
      PROVE  Over(g[1])
  <2>1. PICK e \in Pairs[case] : \E f \in On(case, "flush", e[1][3].at) :
               Ordered(Waits[case], e[1], f) /\ g = <<e[2], f>>
    BY <1>1 DEF Flushed
  <2> DEFINE d == e[1][3].at
  <2>2. g[1] = e[2] /\ h \in On(case, "flush", d) /\ Ordered(Waits[case], e[1], h)
    BY <1>4, <2>1
  <2>3. s.op = "flush" /\ s.at = d
    BY <1>1, <2>2 DEF On
  <2>4. wire[d] = << >>
    BY <2>3 DEF Moves, Post, Take, Flush, Tell, Wait, Touch, Release, Stores
  <2>5. /\ e[1] \in Ops(case, Traffic) /\ e[2] \in Ops(case, Traffic)
        /\ e[1] \in Places[case]
        /\ e[1][3].op = "send" /\ e[2][3].op = "recv" /\ e[2][3].at = d
        /\ Rank[case][e[1]] = Rank[case][e[2]] /\ Rank[case][e[1]] \in Nat
    <3>1. /\ e[1] \in Ops(case, Traffic) /\ e[2] \in Ops(case, Traffic)
          /\ e[1] \in Places[case]
          /\ e[1][3].op = "send" /\ e[2][3].op = "recv" /\ e[2][3].at = d
          /\ Rank[case][e[1]] = Rank[case][e[2]]
      BY <1>1 DEF Pairs, Ops, Traffic
    <3> QED BY <1>1, <3>1, RankIs
  <2>6. Over(e[1])
    BY <1>1, <1>3, <2>2, <2>5, MovesTakes, OrderedHere
  <2>7. Rank[case][e[1]] < Cardinality(Past("send", d))
    BY <2>5, <2>6, RankPast
  <2>8. Cardinality(Past("send", d)) = Cardinality(Past("recv", d))
    <3>1. d \in DOMAIN wire
      <4>1. h[3].op \in {"send", "recv", "flush"} /\ h[3].at = d
        BY <1>1, <2>3
      <4>2. d \in Used(case, {"send", "recv", "flush"})
        BY <1>1, <4>1, UsedOfPlace
      <4> QED BY <4>2 DEF TypeInv
    <3>2. Len(wire[d]) = 0
      BY <2>4
    <3>3. Cardinality(Past("send", d)) \in Nat /\ Cardinality(Past("recv", d)) \in Nat
      BY PastFinite
    <3>4. Len(wire[d]) + Cardinality(Past("recv", d)) = Cardinality(Past("send", d))
      BY <3>1 DEF CountInv
    <3> HIDE DEF d
    <3> QED BY <3>2, <3>3, <3>4
  <2>9. SUFFICES ASSUME ~Over(e[2]) PROVE FALSE
    BY <2>2
  <2>10. Cardinality(Past("recv", d)) <= Rank[case][e[2]]
    BY <1>2, <2>5, <2>9, RankFuture
  <2>11. Cardinality(Past("send", d)) \in Nat
    BY PastFinite
  <2> HIDE DEF d
  <2> QED BY <2>5, <2>7, <2>8, <2>10, <2>11
<1>5. Flushed[case] \in SUBSET LinksOf(case) /\ Followed(Flushed[case])
  <2>1. ASSUME NEW g \in Flushed[case]
        PROVE  g \in LinksOf(case)
    <3>1. PICK e \in Pairs[case] : \E f \in On(case, "flush", e[1][3].at) : g = <<e[2], f>>
      BY <1>1 DEF Flushed
    <3>2. e[2] \in Places[case]
      BY <1>1 DEF Pairs, Ops
    <3> QED BY <3>1, <3>2 DEF LinksOf, On
  <2> QED BY <1>2, <2>1 DEF FlushInv
<1> QED BY <1>1, <1>4, <1>5, NextFollowed

LEMMA NextStore ==
  ASSUME TypeInv, WaitInv, StoreInv, NEW t, NEW s, Moves(t, s)
  PROVE  StoreInv'
<1> DEFINE h == Here(t, s)
           Freed(x, c) == \E f \in Ops(case, {"free"}) :
                            c \in f[3].cells /\ Over(f) /\ ~Ordered(Waits[case], f, x)
<1>1. /\ Takes(t, s) /\ case' = case /\ h[3] = s /\ h \in Places[case] /\ case \in Cases /\ ~Over(h)
      /\ \A x \in Places[case] : Over(x)' <=> Over(x) \/ x = h
  BY MovesTakes, TakenPlace DEF TypeInv
<1>2. Waits[case] \in SUBSET LinksOf(case) /\ Followed(Waits[case])
  BY <1>1, AwaitedLinks, WaitsFollowed
<1>3. ASSUME NEW x \in Ops(case, Stores), Over(x)', NEW c \in x[3].cells
      PROVE  c \in filled' \/ \E f \in Ops(case, {"free"}) :
               c \in f[3].cells /\ Over(f)' /\ ~Ordered(Waits[case], f, x)
  <2>1. x \in Places[case] /\ x[3].op \in Stores
    BY DEF Ops
  <2>2. CASE x = h
    <3>1. s.op \in Stores /\ c \in s.cells
      BY <1>1, <1>3, <2>1, <2>2
    <3>2. filled' = filled \cup s.cells
      BY <3>1 DEF Moves, Post, Take, Flush, Tell, Wait, Touch, Release, Stores
    <3> QED BY <3>1, <3>2
  <2>3. CASE Over(x)
    <3>1. c \in filled \/ Freed(x, c)
      BY <2>3, <1>3 DEF StoreInv
    <3>2. CASE Freed(x, c)
      <4>1. PICK f \in Ops(case, {"free"}) : c \in f[3].cells /\ Over(f) /\ ~Ordered(Waits[case], f, x)
        BY <3>2
      <4>2. Over(f)'
        BY <1>1, <4>1 DEF Ops
      <4> QED BY <4>1, <4>2
    <3>3. CASE c \in filled /\ c \in filled'
      BY <3>3
    <3>4. CASE c \in filled /\ c \notin filled'
      <4>1. s.op = "free" /\ c \in s.cells
        BY <3>4 DEF Moves, Post, Take, Flush, Tell, Wait, Touch, Release
      <4>2. PICK f \in Ops(case, {"free"}) : f = h
        BY <1>1, <4>1 DEF Ops
      <4>3. Over(f)' /\ c \in f[3].cells
        BY <1>1, <4>1, <4>2
      <4>4. ~Ordered(Waits[case], f, x)
        BY <1>1, <1>2, <2>1, <2>3, <4>2, OrderedPast
      <4> QED BY <4>3, <4>4
    <3> QED BY <3>1, <3>2, <3>3, <3>4
  <2> QED BY <1>1, <1>3, <2>1, <2>2, <2>3
<1>4. Ops(case, Stores)' = Ops(case, Stores) /\ Ops(case, {"free"})' = Ops(case, {"free"})
  BY <1>1 DEF Ops, Places
<1>5. \A f, x : Ordered(Waits[case], f, x)' <=> Ordered(Waits[case], f, x)
  BY <1>1 DEF Ordered, Waits
<1> QED BY <1>3, <1>4, <1>5 DEF StoreInv

LEMMA NextOrder == OrderInv /\ [Next]_vars => OrderInv'
<1> SUFFICES ASSUME OrderInv, [Next]_vars PROVE OrderInv'
  OBVIOUS
<1>1. CASE Next
  <2>1. PICK t \in Threads : \E s \in Now(t) : Moves(t, s)
    BY <1>1 DEF Next, Moves
  <2>2. PICK s \in Now(t) : Moves(t, s)
    BY <2>1
  <2>3. TypeInv'
    BY <2>2, NextType DEF OrderInv
  <2>4. CountInv'
    BY <2>2, NextCount DEF OrderInv
  <2>5. TurnInv'
    BY <2>2, NextTurn DEF OrderInv
  <2>6. WaitInv'
    BY <2>2, NextWait DEF OrderInv
  <2>7. FlushInv'
    BY <2>2, NextFlush DEF OrderInv
  <2>8. StoreInv'
    BY <2>2, NextStore DEF OrderInv
  <2> QED BY <2>3, <2>4, <2>5, <2>6, <2>7, <2>8 DEF OrderInv
<1>2. CASE UNCHANGED vars
  <2>0. case' = case /\ pc' = pc /\ wire' = wire /\ tally' = tally /\ filled' = filled
    BY <1>2 DEF vars
  <2>1. TypeInv'
    BY <2>0 DEF OrderInv, TypeInv, Used, StepsOf, Ops, Places, Carried
  <2>2. \A op, at : Past(op, at)' = Past(op, at)
    BY <2>0 DEF Past, On, Places, Over
  <2>3. InLine(case)' = InLine(case)
    BY <2>0 DEF InLine, Ops, Places, Ordered, Waits
  <2>4. CountInv'
    BY <2>0, <2>2 DEF OrderInv, CountInv
  <2>5. TurnInv'
    <3>1. TurnInv' = (InLine(case)' =>
            \A d \in DOMAIN wire' : \A j \in 1 .. Len(wire'[d]) : \E x \in Past("send", d)' :
              Rank[case][x] + 1 = Cardinality(Past("recv", d))' + j /\ wire'[d][j] = Carried(x))
      BY <2>0 DEF TurnInv, Rank, Carried
    <3>2. \A op, at : Cardinality(Past(op, at))' = Cardinality(Past(op, at))
      BY <2>2
    <3> QED BY <2>0, <2>2, <2>3, <3>1, <3>2 DEF OrderInv, TurnInv
  <2>6. WaitInv'
    BY <2>0 DEF OrderInv, WaitInv, Followed, Over, Awaited
  <2>7. FlushInv'
    BY <2>0, <2>3 DEF OrderInv, FlushInv, Followed, Over, Flushed
  <2>8. StoreInv'
    BY <2>0 DEF OrderInv, StoreInv, Over, Ops, Places, Ordered, Waits
  <2> QED BY <2>1, <2>4, <2>5, <2>6, <2>7, <2>8 DEF OrderInv
<1> QED BY <1>1, <1>2

\* Every state of every run satisfies OrderInv.
THEOREM Invariance == Spec => []OrderInv
BY InitOrder, NextOrder, PTL DEF Spec

-----------------------------------------------------------------------------
(* What the order makes sure of                                            *)

LEMMA TypeFollows == OrderInv /\ Sized(case) => TypeOK
<1> SUFFICES ASSUME TypeInv, Sized(case) PROVE TypeOK
  BY DEF OrderInv
<1>1. case \in Cases /\ (\A cell \in filled : Len(cell) = 5)
  BY DEF TypeInv
<1>2. pc \in [Threads -> Nat \ {0}] /\ tally \in [DOMAIN tally -> Nat]
  BY DEF TypeInv, Threads
<1>3. ASSUME NEW d \in DOMAIN wire, NEW i \in DOMAIN wire[d]
      PROVE  wire[d][i].len \in Nat
  <2>1. wire[d] \in Seq({Carried(x) : x \in Ops(case, {"send"})})
    BY DEF TypeInv
  <2>2. PICK x \in Ops(case, {"send"}) : wire[d][i] = Carried(x)
    BY <2>1
  <2>3. x[3].len \in Nat
    BY DEF Sized
  <2> QED BY <2>2, <2>3 DEF Carried
<1> QED BY <1>1, <1>2, <1>3 DEF TypeOK

\* The message at the head of a direction is that of the send with the rank
\* of the receive that is about to take it.
LEMMA RightFollows == OrderInv /\ InLine(case) /\ Matched(case) => RightMessage
<1> SUFFICES ASSUME OrderInv, InLine(case), Matched(case),
                    NEW t \in Threads, NEW s \in Now(t), s.op = "recv", wire[s.at] # << >>
             PROVE  s.kind = Head(wire[s.at]).kind /\ Fits(s, Head(wire[s.at]))
  BY DEF RightMessage
<1> DEFINE h == Here(t, s)
           d == s.at
<1>0. TypeInv /\ CountInv /\ TurnInv /\ WaitInv
  BY DEF OrderInv
<1>1. Comes(t, s) /\ h \in Places[case] /\ h[3] = s /\ case \in Cases
  BY <1>0, ComingPlace DEF Comes
<1>2. h \in Ops(case, Traffic) /\ Rank[case][h] = Cardinality(Past("recv", d))
  BY <1>0, <1>1, RankHere DEF Traffic
<1>3. d \in DOMAIN wire
  <2>1. h[3].op \in {"send", "recv", "flush"} /\ h[3].at = d
    BY <1>1
  <2>2. d \in Used(case, {"send", "recv", "flush"})
    BY <1>1, <2>1, UsedOfPlace
  <2> QED BY <1>0, <2>2 DEF TypeInv
<1>4. wire[d] \in Seq({Carried(x) : x \in Ops(case, {"send"})}) /\ wire[d] # << >>
  BY <1>0, <1>3 DEF TypeInv
<1>5. 1 \in 1 .. Len(wire[d]) /\ Head(wire[d]) = wire[d][1]
  BY <1>4
<1>6. PICK x \in Past("send", d) : Rank[case][x] + 1 = Cardinality(Past("recv", d)) + 1 /\ wire[d][1] = Carried(x)
  BY <1>0, <1>3, <1>5 DEF TurnInv
<1>7. x \in Ops(case, {"send"}) /\ x \in Ops(case, Traffic) /\ x[3].at = d
  BY <1>6 DEF Past, On, Ops, Traffic
<1>8. Rank[case][x] = Rank[case][h]
  <2>1. Rank[case][x] \in Nat /\ Rank[case][h] \in Nat
    BY <1>1, <1>2, <1>7, RankIs
  <2> HIDE DEF d, h
  <2> QED BY <1>2, <1>6, <2>1
<1>9. <<x, h>> \in Pairs[case]
  <2>1. h \in Ops(case, {"recv"}) /\ h[3].at = d
    BY <1>1 DEF Ops
  <2> QED BY <1>1, <1>7, <1>8, <2>1 DEF Pairs
<1>10. s.kind = x[3].kind /\ Fits(s, x[3])
  <2>1. h[3].kind = x[3].kind /\ Fits(h[3], x[3])
    BY <1>9 DEF Matched
  <2> QED BY <1>1, <2>1
<1> QED BY <1>5, <1>6, <1>10 DEF Carried, Fits

LEMMA DrainedFollows == OrderInv /\ Balanced(case) => Drained
<1> SUFFICES ASSUME OrderInv, Balanced(case), AllDone, NEW d \in DOMAIN wire
             PROVE  wire[d] = << >>
  BY DEF Drained
<1>0. TypeInv /\ CountInv /\ case \in Cases /\ pc \in [DOMAIN Program[case] -> Nat \ {0}]
  BY DEF OrderInv, TypeInv
<1>1. ASSUME NEW x \in Places[case]
      PROVE  Over(x)
  <2>1. /\ x[1] \in DOMAIN Program[case] /\ x[2] \in Nat
        /\ x[2] <= Len(Program[case][x[1]]) /\ Len(Program[case][x[1]]) \in Nat
    BY <1>0, PlaceShape
  <2>2. x[1] \in Threads /\ pc[x[1]] \in Nat
    BY <1>0, <2>1 DEF Threads
  <2>3. Now(x[1]) = {}
    BY <2>2 DEF AllDone
  <2>4. ~(pc[x[1]] <= Len(Program[case][x[1]]))
    BY <2>3 DEF Now
  <2>5. x[2] < pc[x[1]]
    BY <2>1, <2>2, <2>4
  <2> QED BY <2>5 DEF Over
<1>2. Past("send", d) = On(case, "send", d) /\ Past("recv", d) = On(case, "recv", d)
  BY <1>1 DEF Past, On
<1>3. wire[d] \in Seq({Carried(x) : x \in Ops(case, {"send"})})
  BY <1>0 DEF TypeInv
<1>4. Len(wire[d]) + Cardinality(Past("recv", d)) = Cardinality(Past("send", d))
  BY <1>0 DEF CountInv
<1>5. Cardinality(Past("recv", d)) \in Nat /\ Cardinality(Past("send", d)) \in Nat /\ Len(wire[d]) \in Nat
  BY <1>0, <1>3, PastFinite, LenProperties
<1>6. CASE On(case, "send", d) = {}
  <2>1. Cardinality(Past("send", d)) = 0
    BY <1>2, <1>6, FS_EmptySet
  <2>2. Len(wire[d]) = 0
    BY <1>4, <1>5, <2>1
  <2> QED BY <1>3, <2>2
<1>7. CASE On(case, "send", d) # {}
  <2>1. PICK x : x \in On(case, "send", d)
    BY <1>7
  <2>2. x \in Ops(case, Traffic) /\ x[3].at = d
    BY <2>1 DEF On, Ops, Traffic
  <2>3. Cardinality(On(case, "send", d)) = Cardinality(On(case, "recv", d))
    BY <2>2 DEF Balanced, Traffic
  <2>4. Len(wire[d]) = 0
    BY <1>2, <1>4, <1>5, <2>3
  <2> QED BY <1>3, <2>4
<1> QED BY <1>6, <1>7

LEMMA ChallengeFollows == OrderInv /\ InLine(case) /\ Committed(case) => ChallengeLast
<1> SUFFICES ASSUME OrderInv, InLine(case), Committed(case),
                    NEW pq \in Challenged[case], pq[1][2] < pc[pq[1][1]]
             PROVE  pq[2][2] < pc[pq[2][1]]
  BY DEF ChallengeLast
<1>0. TypeInv /\ CountInv /\ WaitInv /\ FlushInv /\ case \in Cases
  BY DEF OrderInv, TypeInv
<1>1. pq[1] \in Places[case] /\ pq[2] \in Places[case]
  <2>1. \A kinds : Posts(case, kinds) \subseteq Places[case]
    BY <1>0 DEF Posts, Places
  <2>2. \E kinds : pq \in Posts(case, kinds) \X Posts(case, kinds)
    BY <1>0 DEF Challenged
  <2> QED BY <2>1, <2>2
<1>2. Links[case] \in SUBSET LinksOf(case) /\ Followed(Links[case])
  BY <1>0, LinksFollowed
<1>3. Ordered(Links[case], pq[2], pq[1])
  BY DEF Committed
<1>4. Over(pq[1])
  BY DEF Over
<1>5. Over(pq[2])
  BY <1>0, <1>1, <1>2, <1>3, <1>4, OrderedPast
<1> QED BY <1>5 DEF Over

LEMMA SuppliedFollows == OrderInv /\ Supplied(case) => FilledBeforeUse
<1> SUFFICES ASSUME OrderInv, Supplied(case),
                    NEW t \in Threads, NEW s \in Now(t), s.op = "read", NEW c \in s.cells
             PROVE  c \in filled
  BY DEF FilledBeforeUse
<1> DEFINE h == Here(t, s)
<1>0. TypeInv /\ WaitInv /\ StoreInv /\ case \in Cases
  BY DEF OrderInv, TypeInv
<1>1. Comes(t, s) /\ h \in Places[case] /\ h[3] = s /\ ~Over(h)
  BY <1>0, ComingPlace DEF Comes
<1>2. Waits[case] \in SUBSET LinksOf(case) /\ Followed(Waits[case])
  BY <1>0, AwaitedLinks, WaitsFollowed
<1>3. h \in Ops(case, {"read"}) /\ c \in h[3].cells
  BY <1>1 DEF Ops
<1>4. PICK x \in Ops(case, Stores) :
        /\ c \in x[3].cells /\ Ordered(Waits[case], x, h)
        /\ \A f \in Ops(case, {"free"}) :
             c \in f[3].cells => Ordered(Waits[case], f, x) \/ Ordered(Waits[case], h, f)
  BY <1>3 DEF Supplied
<1>5. Over(x)
  BY <1>0, <1>1, <1>2, <1>4, OrderedHere DEF Ops
<1>6. SUFFICES ASSUME NEW f \in Ops(case, {"free"}), c \in f[3].cells, Over(f),
                      ~Ordered(Waits[case], f, x)
               PROVE  FALSE
  BY <1>0, <1>4, <1>5 DEF StoreInv
<1>7. Ordered(Waits[case], h, f)
  BY <1>4, <1>6
<1>8. Over(h)
  BY <1>0, <1>1, <1>2, <1>6, <1>7, OrderedPast DEF Ops
<1> QED BY <1>1, <1>8

LEMMA GuardedFollows == OrderInv /\ Guarded(case) => NoRace
<1>0. SUFFICES ASSUME OrderInv, Guarded(case),
                      NEW a \in Touching, NEW b \in Touching, a[1] # b[1]
               PROVE  Apart(a[2], b[2])
  BY DEF NoRace
<1>1. TypeInv /\ WaitInv /\ case \in Cases
  BY <1>0 DEF OrderInv, TypeInv
<1>2. ASSUME NEW u \in Touching
      PROVE  /\ Comes(u[1], u[2])
             /\ u[2].op \in Stores \cup {"read", "free"}
  BY DEF Touching, Comes
<1> DEFINE x == Here(a[1], a[2])
           y == Here(b[1], b[2])
<1>3. /\ x \in Places[case] /\ x[3] = a[2] /\ ~Over(x) /\ x[1] = a[1]
      /\ y \in Places[case] /\ y[3] = b[2] /\ ~Over(y) /\ y[1] = b[1]
  BY <1>1, <1>2, ComingPlace DEF Here
<1>4. x \in Ops(case, Stores \cup {"read", "free"}) /\ y \in Ops(case, Stores \cup {"read", "free"})
  BY <1>2, <1>3 DEF Ops
<1>5. Waits[case] \in SUBSET LinksOf(case) /\ Followed(Waits[case])
  BY <1>1, AwaitedLinks, WaitsFollowed
<1>6. ~Ordered(Waits[case], x, y)
  BY <1>1, <1>2, <1>3, <1>5, OrderedHere
<1>7. ~Ordered(Waits[case], y, x)
  BY <1>1, <1>2, <1>3, <1>5, OrderedHere
<1>8. x[1] = y[1] \/ Apart(x[3], y[3])
  BY <1>0, <1>4, <1>6, <1>7 DEF Guarded
<1> QED BY <1>0, <1>3, <1>8

\* Memory that a message under way was lent from belongs to a send whose
\* receive is still to come.
LEMMA SparedFollows == OrderInv /\ InLine(case) /\ Spared(case) => BuffersKept
<1>0. SUFFICES ASSUME OrderInv, InLine(case), Spared(case),
                      NEW t \in Threads, NEW s \in Now(t), s.op \in Stores \cup {"free"},
                      NEW c \in s.cells, c \in Lent
               PROVE  FALSE
  BY DEF BuffersKept
<1> DEFINE h == Here(t, s)
<1>1. /\ TypeInv /\ CountInv /\ TurnInv /\ WaitInv /\ FlushInv /\ case \in Cases
  BY <1>0 DEF OrderInv, TypeInv
<1>2. Comes(t, s) /\ h \in Places[case] /\ h[3] = s /\ ~Over(h)
  BY <1>1, ComingPlace DEF Comes
<1>3. Links[case] \in SUBSET LinksOf(case) /\ Followed(Links[case])
  BY <1>0, <1>1, LinksFollowed
<1>4. PICK d \in DOMAIN wire : \E i \in DOMAIN wire[d] : c \in wire[d][i].lent
  BY <1>0 DEF Lent
<1>5. PICK i \in DOMAIN wire[d] : c \in wire[d][i].lent
  BY <1>4
<1>6. i \in 1 .. Len(wire[d]) /\ Len(wire[d]) \in Nat
  <2>1. wire[d] \in Seq({Carried(x) : x \in Ops(case, {"send"})})
    BY <1>1 DEF TypeInv
  <2> QED BY <2>1
<1>7. PICK x \in Past("send", d) :
        Rank[case][x] + 1 = Cardinality(Past("recv", d)) + i /\ wire[d][i] = Carried(x)
  BY <1>0, <1>1, <1>6 DEF TurnInv
<1>8. /\ x \in Ops(case, {"send"}) /\ x \in Ops(case, Traffic) /\ x \in Places[case]
      /\ x[3].at = d /\ Over(x) /\ c \in x[3].cells
  BY <1>5, <1>7 DEF Past, On, Ops, Traffic, Carried
<1>9. h \in Ops(case, Stores \cup {"free"}) /\ c \in h[3].cells
  BY <1>0, <1>2 DEF Ops
<1>10. Ordered(Links[case], h, x) \/ \E e \in Pairs[case] : e[1] = x /\ Ordered(Links[case], e[2], h)
  BY <1>0, <1>8, <1>9 DEF Spared
<1>11. ~Ordered(Links[case], h, x)
  BY <1>1, <1>2, <1>3, <1>8, OrderedPast
<1>12. PICK e \in Pairs[case] : e[1] = x /\ Ordered(Links[case], e[2], h)
  BY <1>10, <1>11
<1>13. /\ e[2] \in Ops(case, Traffic) /\ e[2] \in Places[case]
       /\ e[2][3].op = "recv" /\ e[2][3].at = d
       /\ Rank[case][x] = Rank[case][e[2]]
  BY <1>1, <1>8, <1>12 DEF Pairs, Ops, Traffic
<1>14. Over(e[2])
  BY <1>1, <1>2, <1>3, <1>12, <1>13, OrderedHere
<1>15. Rank[case][e[2]] < Cardinality(Past("recv", d))
  BY <1>1, <1>13, <1>14, RankPast
<1>16. Rank[case][x] \in Nat /\ Cardinality(Past("recv", d)) \in Nat
  BY <1>1, <1>8, RankIs, PastFinite
<1> HIDE DEF h
<1> QED BY <1>6, <1>7, <1>13, <1>15, <1>16

-----------------------------------------------------------------------------
(* Somebody can go on                                                      *)

LEMMA Smallest ==
  ASSUME NEW T \in SUBSET Nat, T # {}
  PROVE  \E n \in T : \A m \in T : n <= m
<1> DEFINE R == OpToRel(<, Nat)
<1>1. IsWellFoundedOn(R, Nat)
  BY NatLessThanWellFounded
<1>2. PICK n \in T : \A m \in T : <<m, n>> \notin R
  <2> HIDE DEF R
  <2> QED BY <1>1, WFMin
<1>3. ASSUME NEW m \in T
      PROVE  n <= m
  <2>1. n \in Nat /\ m \in Nat
    OBVIOUS
  <2>2. ~(m < n)
    BY <1>2, <2>1 DEF OpToRel
  <2> QED BY <2>1, <2>2
<1> QED BY <1>3

\* A thread that cannot go on is in front of a step that waits.
LEMMA Waiting ==
  ASSUME OrderInv, NEW t, NEW s, Comes(t, s), ~Ready(s)
  PROVE  /\ s.op \in {"recv", "flush", "await"}
         /\ Here(t, s) \in Ops(case, Syncs) /\ Here(t, s) \in Places[case]
<1>1. /\ Here(t, s) \in Places[case] /\ Here(t, s)[3] = s /\ case \in Cases
  BY ComingPlace DEF OrderInv
<1>2. s.op \in Syncs \cup Stores \cup {"read", "free"}
  BY <1>1, StepAssumption DEF StepAssumption
<1>3. s.op \in {"recv", "flush", "await"}
  BY <1>2 DEF Ready, Syncs
<1>4. Here(t, s) \in Ops(case, Syncs)
  BY <1>1, <1>3 DEF Ops, Syncs
<1> QED BY <1>1, <1>3, <1>4

\* What is still to come is at no lower level than what its thread waits in.
LEMMA StillToCome ==
  ASSUME OrderInv, \A t \in Threads : \A s \in Now(t) : ~Ready(s),
         NEW level, Grounded(case, level),
         NEW x \in Ops(case, Syncs), ~Over(x)
  PROVE  \E t \in Threads : \E s \in Now(t) :
           /\ level[Here(t, s)] \in Nat /\ level[x] \in Nat
           /\ level[Here(t, s)] <= level[x]
<1> DEFINE t == x[1]
           s == Program[case][t][pc[t]]
           h == Here(t, s)
<1>1. case \in Cases /\ pc \in [DOMAIN Program[case] -> Nat \ {0}] /\ TypeInv
  BY DEF OrderInv, TypeInv
<1>2. /\ t \in DOMAIN Program[case]
      /\ x[2] \in DOMAIN Program[case][t]
      /\ x[3] = Program[case][t][x[2]]
      /\ x = <<t, x[2], x[3]>>
      /\ x[2] \in Nat /\ x[2] <= Len(Program[case][t]) /\ Len(Program[case][t]) \in Nat
  BY <1>1, PlaceShape DEF Ops
<1>3. t \in Threads /\ pc[t] \in Nat
  BY <1>1, <1>2 DEF Threads
<1>4. pc[t] <= x[2]
  BY <1>2, <1>3 DEF Over
<1>5. pc[t] <= Len(Program[case][t])
  BY <1>2, <1>3, <1>4
<1>6. s \in Now(t)
  BY <1>5 DEF Now
<1>7. h \in Ops(case, Syncs) /\ h \in Places[case] /\ x \in Places[case]
  BY <1>3, <1>6, Waiting DEF Comes, Ops
<1>8. level \in [Ops(case, Syncs) -> Nat]
  BY DEF Grounded
<1>9. level[h] \in Nat /\ level[x] \in Nat
  BY <1>7, <1>8
<1>10. CASE pc[t] = x[2]
  <2>1. h = x
    BY <1>2, <1>10 DEF Here
  <2>2. level[h] <= level[x]
    BY <1>9, <2>1
  <2> QED BY <1>3, <1>6, <1>9, <2>2
<1>11. CASE pc[t] # x[2]
  <2>1. pc[t] < x[2]
    BY <1>2, <1>3, <1>4, <1>11
  <2>2. Before(h, x)
    BY <2>1 DEF Before, Here
  <2>3. level[h] <= level[x]
    BY <1>7, <2>2 DEF Grounded
  <2> QED BY <1>3, <1>6, <1>9, <2>3
<1> QED BY <1>10, <1>11

\* A thread goes on if everything at a lower level than its next step is over.
LEMMA LowestReady ==
  ASSUME OrderInv, InLine(case), Matched(case), NEW level, Grounded(case, level),
         NEW t, NEW s, Comes(t, s),
         \A x \in Ops(case, Syncs) : level[x] < level[Here(t, s)] => Over(x)
  PROVE  Ready(s)
<1> SUFFICES ASSUME ~Ready(s) PROVE FALSE
  OBVIOUS
<1> DEFINE h == Here(t, s)
           d == s.at
<1>1. /\ TypeInv /\ CountInv /\ TurnInv /\ WaitInv /\ case \in Cases
      /\ DOMAIN wire = Used(case, {"send", "recv", "flush"})
      /\ DOMAIN tally = Used(case, {"signal", "await"})
  BY DEF OrderInv, TypeInv
<1>2. h \in Places[case] /\ h[3] = s /\ ~Over(h)
  BY <1>1, ComingPlace
<1>3. s.op \in {"recv", "flush", "await"} /\ h \in Ops(case, Syncs)
  BY Waiting
<1>4. \A ops : s.op \in ops => d \in Used(case, ops)
  BY <1>1, <1>2, UsedOfPlace
<1>5. Cardinality(Past("send", d)) \in Nat /\ Cardinality(Past("recv", d)) \in Nat
  BY <1>1, PastFinite
<1>6. CASE s.op = "await"
  <2> DEFINE low == {x \in On(case, "signal", d) : level[x] < level[h]}
  <2>1. Cardinality(low) >= s.len /\ s.len \in Int
    <3>1. h \in Ops(case, {"await"})
      BY <1>2, <1>6 DEF Ops
    <3>2. s.len \in Int
      BY <1>1, <1>2, StepAssumption DEF StepAssumption
    <3> QED BY <1>2, <3>1, <3>2 DEF Grounded
  <2>2. low \subseteq Past("signal", d)
    <3>1. \A x \in On(case, "signal", d) : x \in Ops(case, Syncs)
      BY DEF On, Ops, Syncs
    <3> QED BY <3>1 DEF Past
  <2>3. IsFiniteSet(Past("signal", d)) /\ Cardinality(Past("signal", d)) \in Nat
    BY <1>1, PastFinite
  <2>4. Cardinality(low) \in Nat /\ Cardinality(low) <= Cardinality(Past("signal", d))
    <3>1. IsFiniteSet(low)
      BY <2>2, <2>3, FS_Subset
    <3> QED BY <2>2, <2>3, <3>1, FS_Subset, FS_CardinalityType
  <2>5. tally[d] = Cardinality(Past("signal", d))
    BY <1>1, <1>4, <1>6 DEF CountInv
  <2>6. tally[d] >= s.len
    <3> HIDE DEF low, d
    <3> QED BY <2>1, <2>3, <2>4, <2>5
  <2> QED BY <1>6, <2>6 DEF Ready
<1>7. CASE s.op = "recv"
  <2>1. h \in Ops(case, {"recv"})
    BY <1>2, <1>7 DEF Ops
  <2>2. PICK e \in Pairs[case] : e[2] = h /\ level[e[1]] < level[h]
    BY <2>1 DEF Grounded
  <2>3. /\ e[1] \in Ops(case, {"send"}) /\ e[1][3].at = d
        /\ Rank[case][e[1]] = Rank[case][h]
    BY <1>1, <1>2, <2>2 DEF Pairs
  <2>4. e[1] \in Ops(case, Traffic) /\ e[1] \in Ops(case, Syncs) /\ e[1][3].op = "send"
    BY <2>3 DEF Ops, Traffic, Syncs
  <2>5. Over(e[1])
    BY <2>2, <2>4
  <2>6. Rank[case][e[1]] < Cardinality(Past("send", d))
    BY <1>1, <2>3, <2>4, <2>5, RankPast
  <2>7. Rank[case][h] = Cardinality(Past("recv", d))
    BY <1>1, <1>7, RankHere DEF Traffic
  <2>8. d \in DOMAIN wire
    BY <1>1, <1>4, <1>7
  <2>9. Len(wire[d]) + Cardinality(Past("recv", d)) = Cardinality(Past("send", d))
    BY <1>1, <2>8 DEF CountInv
  <2>10. wire[d] # << >>
    <3>1. SUFFICES ASSUME wire[d] = << >> PROVE FALSE
      OBVIOUS
    <3>2. Len(wire[d]) = 0
      BY <3>1
    <3> HIDE DEF d, h
    <3> QED BY <1>5, <2>3, <2>6, <2>7, <2>9, <3>2
  <2>11. Fits(s, Head(wire[d]))
    <3>1. RightMessage
      BY RightFollows
    <3> QED BY <1>7, <2>10, <3>1 DEF RightMessage, Comes
  <2> QED BY <1>7, <2>10, <2>11 DEF Ready
<1>8. CASE s.op = "flush"
  <2>1. d \in DOMAIN wire /\ wire[d] # << >>
    BY <1>1, <1>4, <1>8 DEF Ready
  <2>2. wire[d] \in Seq({Carried(x) : x \in Ops(case, {"send"})})
    BY <1>1, <2>1 DEF TypeInv
  <2>3. 1 \in 1 .. Len(wire[d])
    BY <2>1, <2>2
  <2>4. PICK x \in Past("send", d) : Rank[case][x] + 1 = Cardinality(Past("recv", d)) + 1
    BY <1>1, <2>1, <2>3 DEF TurnInv
  <2>5. /\ x \in On(case, "send", d) /\ Over(x) /\ x \in Ops(case, Traffic)
        /\ x \in Places[case]
    BY <2>4 DEF Past, On, Ops, Traffic
  <2>6. h \in Ops(case, {"flush"})
    BY <1>2, <1>8 DEF Ops
  <2>7. ~Ordered(Waits[case], h, x)
    <3>1. Waits[case] \in SUBSET LinksOf(case) /\ Followed(Waits[case])
      BY <1>1, AwaitedLinks, WaitsFollowed
    <3> QED BY <1>1, <1>2, <2>5, <3>1, OrderedPast
  <2>8. PICK e \in Pairs[case] : e[1] = x /\ level[e[2]] < level[h]
    BY <1>2, <2>5, <2>6, <2>7 DEF Grounded
  <2>9. /\ e[2] \in Ops(case, {"recv"}) /\ e[2][3].at = d
        /\ Rank[case][x] = Rank[case][e[2]]
    BY <1>1, <2>5, <2>8 DEF Pairs, On
  <2>10. e[2] \in Ops(case, Traffic) /\ e[2] \in Ops(case, Syncs) /\ e[2][3].op = "recv"
    BY <2>9 DEF Ops, Traffic, Syncs
  <2>11. Rank[case][e[2]] < Cardinality(Past("recv", d))
    BY <1>1, <2>8, <2>9, <2>10, RankPast
  <2>12. Rank[case][x] \in Nat
    BY <1>1, <2>5, RankIs
  <2> HIDE DEF d, h
  <2> QED BY <1>5, <2>4, <2>9, <2>11, <2>12
<1> QED BY <1>3, <1>6, <1>7, <1>8

LEMMA GoesOnFollows ==
  ASSUME NEW level
  PROVE  OrderInv /\ InLine(case) /\ Matched(case) /\ Grounded(case, level) => GoesOn
<1>1. SUFFICES ASSUME OrderInv, InLine(case), Matched(case), Grounded(case, level),
                      ~AllDone, \A t \in Threads : \A s \in Now(t) : ~Ready(s)
               PROVE  FALSE
  BY DEF GoesOn
<1> DEFINE levels == {n \in Nat : \E t \in Threads : \E s \in Now(t) : n = level[Here(t, s)]}
<1>2. ASSUME NEW t \in Threads, NEW s \in Now(t)
      PROVE  level[Here(t, s)] \in levels
  <2>1. Here(t, s) \in Ops(case, Syncs)
    BY <1>1, Waiting DEF Comes
  <2>2. level[Here(t, s)] \in Nat
    BY <1>1, <2>1 DEF Grounded
  <2> QED BY <2>2
<1>3. levels # {}
  <2>1. PICK t \in Threads : \E s : s \in Now(t)
    BY <1>1 DEF AllDone
  <2> QED BY <1>2, <2>1
<1>4. PICK n \in levels : \A m \in levels : n <= m
  <2>1. levels \in SUBSET Nat
    OBVIOUS
  <2> HIDE DEF levels
  <2> QED BY <1>3, <2>1, Smallest
<1>5. PICK t \in Threads : \E s \in Now(t) : n = level[Here(t, s)]
  OBVIOUS
<1>6. PICK s \in Now(t) : n = level[Here(t, s)]
  BY <1>5
<1>7. ASSUME NEW x \in Ops(case, Syncs), level[x] < n, ~Over(x)
      PROVE  FALSE
  <2>1. PICK u \in Threads : \E v \in Now(u) :
           /\ level[Here(u, v)] \in Nat /\ level[x] \in Nat
           /\ level[Here(u, v)] <= level[x]
    BY <1>1, <1>7, StillToCome
  <2>2. PICK v \in Now(u) :
           /\ level[Here(u, v)] \in Nat /\ level[x] \in Nat
           /\ level[Here(u, v)] <= level[x]
    BY <2>1
  <2>3. level[Here(u, v)] \in levels
    BY <1>2
  <2>4. n <= level[Here(u, v)] /\ n \in Nat
    BY <1>4, <2>3
  <2> HIDE DEF levels
  <2> QED BY <1>7, <2>2, <2>4
<1>8. Ready(s)
  <2>1. \A x \in Ops(case, Syncs) : level[x] < level[Here(t, s)] => Over(x)
    BY <1>6, <1>7
  <2>2. Comes(t, s)
    BY DEF Comes
  <2> QED BY <1>1, <2>1, <2>2, LowestReady
<1> QED BY <1>1, <1>8

-----------------------------------------------------------------------------
(* The theorems                                                            *)

\* The state of the threads, directions and promises has its shape in every
\* run of programs that send no message of a negative length.
THEOREM TypeCorrect == Spec => [](Sized(case) => TypeOK)
<1>1. OrderInv => (Sized(case) => TypeOK)
  BY TypeFollows
<1> QED BY <1>1, Invariance, PTL

\* If the threads that share a direction take turns and the messages of the
\* two sides match one by one, then no interleaving makes a receive take a
\* message that was meant for another one.
THEOREM MessagesRight == Spec => [](InLine(case) /\ Matched(case) => RightMessage)
<1>1. OrderInv => (InLine(case) /\ Matched(case) => RightMessage)
  BY RightFollows
<1> QED BY <1>1, Invariance, PTL

\* If as much is received as sent, in each direction, then nothing is left in
\* the channels for the next protocol once all functions have returned.
THEOREM NothingLeft == Spec => [](Balanced(case) => Drained)
<1>1. OrderInv => (Balanced(case) => Drained)
  BY DrainedFollows
<1> QED BY <1>1, Invariance, PTL

\* If what a challenge is about comes before the challenge by the order of
\* the programs, the answers of the other party included, then it was sent
\* before in every interleaving.
THEOREM ChallengesLast == Spec => [](InLine(case) /\ Committed(case) => ChallengeLast)
<1>1. OrderInv => (InLine(case) /\ Committed(case) => ChallengeLast)
  BY ChallengeFollows
<1> QED BY <1>1, Invariance, PTL

\* If every store to memory that asyncSend was given a pointer to waits for
\* something the receiver does after the receive, then the memory is kept.
THEOREM BuffersSafe == Spec => [](InLine(case) /\ Spared(case) => BuffersKept)
<1>1. OrderInv => (InLine(case) /\ Spared(case) => BuffersKept)
  BY SparedFollows
<1> QED BY <1>1, Invariance, PTL

\* If every read waits for a store, then what is read was computed.
THEOREM ReadsFilled == Spec => [](Supplied(case) => FilledBeforeUse)
<1>1. OrderInv => (Supplied(case) => FilledBeforeUse)
  BY SuppliedFollows
<1> QED BY <1>1, Invariance, PTL

\* If of two conflicting accesses one waits for the other, by the joins and
\* promises of the programs, then no interleaving has a data race.
THEOREM RaceFree == Spec => [](Guarded(case) => NoRace)
<1>1. OrderInv => (Guarded(case) => NoRace)
  BY GuardedFollows
<1> QED BY <1>1, Invariance, PTL

\* If the steps have levels such that everyone waits only for what is at a
\* lower level, then the threads never all wait for each other: until all
\* functions have returned, one of them finds the message, the signals or the
\* empty direction that its next step waits for.
THEOREM NeverStuck ==
  ASSUME NEW CONSTANT level
  PROVE  Spec => [](InLine(case) /\ Matched(case) /\ Grounded(case, level) => GoesOn)
<1>1. OrderInv => (InLine(case) /\ Matched(case) /\ Grounded(case, level) => GoesOn)
  BY GoesOnFollows
<1> QED BY <1>1, Invariance, PTL

\* In programs that are in order but for the exceptions, nobody changes lent
\* memory, except in the cases that lend local variables of init.
THEOREM BuffersSafeElsewhere ==
  ASSUME \A k \in Cases : Orderly(k)
  PROVE  Spec => []BuffersKeptElsewhere
<1>1. OrderInv => BuffersKeptElsewhere
  BY SparedFollows DEF Orderly, OrderInv, TypeInv, BuffersKeptElsewhere
<1> QED BY <1>1, Invariance, PTL

\* ... everything that is read was computed, except where a thread hands out
\* pointers to its local points.
THEOREM ReadsFilledElsewhere ==
  ASSUME \A k \in Cases : Orderly(k)
  PROVE  Spec => []FilledElsewhere
<1>1. OrderInv => FilledElsewhere
  BY SuppliedFollows DEF Orderly, OrderInv, TypeInv, FilledElsewhere
<1> QED BY <1>1, Invariance, PTL

\* ... no two threads race, except there and in the hashing of Rr16.
THEOREM RaceFreeElsewhere ==
  ASSUME \A k \in Cases : Orderly(k)
  PROVE  Spec => []NoRaceElsewhere
<1>1. OrderInv => NoRaceElsewhere
  BY GuardedFollows DEF Orderly, OrderInv, TypeInv, NoRaceElsewhere
<1> QED BY <1>1, Invariance, PTL
=============================================================================
