------------------------------ MODULE MCTParty ------------------------------
(* Small instances of TParty: few items, few holders of each item, and all *)
(* the usable thresholds of a given number of parties.                     *)
EXTENDS TParty

CONSTANT a

OneItem == {a}

(* n parties with threshold t, where exactly the parties in h hold a.      *)
Input(n, t, h) == [n |-> n, t |-> t,
                   sets |-> [p \in Parties(n) |-> IF p \in h THEN {a} ELSE {}]]

Pair  == {Input(2, 1, h) : h \in SUBSET Parties(2)}
Three == {Input(3, t, h) : t \in 0..2, h \in SUBSET Parties(3)}

(* Everyone holds a, or all but one do: the cases where it is close.       *)
Close(n, T) == {Input(n, t, h) : t \in T, h \in {g \in SUBSET Parties(n) :
                                                  \E p \in 0..n : g = Parties(n) \ {p}}}

Small == Pair \cup Three \cup {Input(4, 1, Parties(4))}

(* Four parties, or five of which all but one hold a.                      *)
Larger == Close(4, 0..3) \cup {Input(5, 2, Parties(5) \ {1})}
=============================================================================
