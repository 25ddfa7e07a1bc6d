----------------------------- MODULE MCSession -----------------------------
(***************************************************************************)
(* Module Session for TLC, with the cases of SessionCases.  TLC evaluates  *)
(* the programs once if their module comes before the one that uses them,  *)
(* and keeps the value of a definition, but not of one that the cfg puts   *)
(* for a constant.                                                         *)
(***************************************************************************)
EXTENDS SessionCases, Orders

MCProgram == OtProgram @@ OprfProgram @@ PartyProgram @@ PsiProgram @@ LentProgram @@ PointProgram
MCCases == DOMAIN MCProgram
MCPrograms == MCProgram

MCLentCases == DOMAIN LentProgram
MCSharedCases == DOMAIN SharedProgram

MCPointProgram == PointProgram
MCPointCases == DOMAIN MCPointProgram
MCPointPrograms == MCPointProgram

(* Levels for the steps of a case: number of rounds that pass before all   *)
(* that the step needs by the links of Orders was possible.                *)
Stages == [k \in Cases |->
  LET links == Direct[k]
      steps == Ops(k, Syncs)
      After(so) == {x \in steps : \A e \in links : NotAfter(e[2], x) => e[1] \in so}
      stages[n \in Nat] ==
        IF n = 0 THEN << After({}) >>
        ELSE LET so == stages[n - 1] IN
             IF so[Len(so)] = steps THEN so ELSE Append(so, After(so[Len(so)]))
  IN stages[Cardinality(links)]]
Level == [k \in Cases |->
  [x \in Ops(k, Syncs) |-> Cardinality({n \in DOMAIN Stages[k] : x \notin Stages[k][n]})]]

Sound == [k \in Cases |-> Orderly(k) /\ Grounded(k, Level[k])]

(* A step is only taken in a case whose programs are in order: but for the *)
(* exceptions of Session they leave no interleaving a chance to go wrong,  *)
(* for what the theorems of Session_proofs ask of a case holds of every    *)
(* pair of protocol functions here, at every number of threads and         *)
(* channels that the cases have.                                           *)
InOrder == [][Sound[case]]_vars
=============================================================================
