------------------------------ MODULE IdealPsi ------------------------------
(***************************************************************************)
(* What the multi-party protocols promise: in every trial the leader       *)
(* outputs exactly the items that all parties hold.  TParty is shown to    *)
(* implement this module.                                                  *)
(***************************************************************************)
EXTENDS Integers, Sequences

CONSTANTS Items,    (* what the sets of the parties are made of            *)
          Trials    (* how many intersections are computed                 *)

VARIABLES sets,     (* sets[p]: the set of party p                         *)
          output    (* the leader's answers, one for each trial            *)

Intersection == {x \in Items : \A p \in DOMAIN sets : x \in sets[p]}

PsiInit == output = << >>

PsiAnswer == /\ Len(output) < Trials
             /\ output' = Append(output, Intersection)
             /\ UNCHANGED sets

PsiSpec == PsiInit /\ [][PsiAnswer]_<<sets, output>>
=============================================================================
