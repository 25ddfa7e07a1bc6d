----------------------------- MODULE MCHashing -----------------------------
(* Calls of hashing2Bins with items whose hashes collide.                  *)
EXTENDS Hashing

(* Items in three main bins and two stash bins, so that four or more items *)
(* with these hashes do not fit and items with equal stash bins collide.   *)
Call(threads, opt, rows) ==
  [inputs |-> mN, threads |-> threads, opt |-> opt, cuckoo |-> <<5, 2>>, simple |-> <<5, 2>>,
   hash |-> [x \in Items |-> [k \in Hashes |-> IF k < 3 THEN rows[x][k + 1] ELSE 0]]]

(* Hash values whose bins are: all different; two or three of them equal.  *)
Rows == {<<0, 1, 2>>, <<1, 0, 7>>, <<5, 5, 1>>, <<0, 5, 10>>, <<6, 1, 8>>}

AllRows == [Items -> Rows]

CallSet ==
  {Call(1, 1, rows) : rows \in AllRows}
    \cup {Call(2, opt, rows) : opt \in {0, 1},
            rows \in {r \in AllRows : /\ r[0] = <<0, 1, 2>> /\ r[1] \in {<<1, 0, 7>>, <<0, 5, 10>>}
                                      /\ r[2] = <<5, 5, 1>> /\ r[3] \in {<<0, 5, 10>>, <<6, 1, 8>>}}}
    \cup {[Call(1, 0, [x \in Items |-> <<0, 1, 2>>]) EXCEPT !.inputs = mN + 1],
          [Call(2, 0, [x \in Items |-> <<0, 1, 2>>]) EXCEPT !.simple = <<5, 3>>],
          Call(6, 1, [x \in Items |-> <<x, x + 1, x + 2>>])}

MCCases == CallSet

MCNumHashes == <<3, 2>>
=============================================================================
