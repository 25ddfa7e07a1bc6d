------------------------------- MODULE Steps -------------------------------
(***************************************************************************)
(* The vocabulary in which the protocol functions of the libraries are     *)
(* written down.  What a thread does in such a function is a sequence of   *)
(* steps on a few channels, on memory it shares with other threads of its  *)
(* party, and on the promises and countdowns by which these threads wait   *)
(* for each other.  Every operator below is a sequence of steps, so that a *)
(* function that calls another one is the concatenation of their steps.    *)
(*                                                                         *)
(* A channel is a record of its two directions, [out, in], of the party me *)
(* at this end, and of a tag that tells it from the other channels of that *)
(* party: the other party and a number.  An array is a triple of           *)
(* its owner, its name and numbers that tell it from others of that name;  *)
(* a cell of it has the number of its row, and of its column, behind that. *)
(* A promise, and a thread, is named by a triple of that form as well.     *)
(***************************************************************************)
EXTENDS Integers, Sequences

AnyLength == -1         \* the receiving container takes whatever comes

Step(op, at, kind, len, cells) ==
  << [op |-> op, at |-> at, kind |-> kind, len |-> len, cells |-> cells] >>

\* asyncSend of a container that is moved, or of a copy
Send(c, kind, len) == Step("send", c.out, kind, len, {})

\* asyncSend of a pointer into the cells: the io service reads them later
Lend(c, kind, len, cells) == Step("send", c.out, kind, len, cells)

\* send, which returns once the message was written
SyncSend(c, kind, len) ==
  Step("send", c.out, kind, len, {}) \o Step("flush", c.out, "", 0, {})

\* recv into memory of the given length, or into a container
Recv(c, kind, len) == Step("recv", c.in, kind, len, {})

\* A promise is kept, a countdown goes on, a thread starts or ends ...
Signal(p) == Step("signal", p, "", 0, {})
\* ... and somebody waits until that has happened n times.
Await(p, n) == Step("await", p, "", n, {})

Read(cells)  == Step("read", << >>, "", 0, cells)
Write(cells) == Step("write", << >>, "", 0, cells)
\* A store of a value that is the same whichever thread computes it, and one
\* that is made under a lock
Same(cells)   == Step("same", << >>, "", 0, cells)
Locked(cells) == Same(cells)
\* The end of the life of local objects
Free(cells)  == Step("free", << >>, "", 0, cells)

When(condition, steps) == IF condition THEN steps ELSE << >>

\* The steps of a loop over lo .. hi - 1
Loop(lo, hi, Body(_)) ==
  LET upTo[i \in Int] == IF i <= lo THEN << >> ELSE upTo[i - 1] \o Body(i - 1) IN upTo[hi]

\* ... and of one that works in steps of the given size: Body(from, to)
Chunks(lo, hi, size, Body(_, _)) ==
  Loop(0, (hi - lo + size - 1) \div size, LAMBDA k :
    Body(lo + k * size, IF lo + (k + 1) * size < hi THEN lo + (k + 1) * size ELSE hi))

\* ... and of one over the elements of a sequence
ForEach(s, Body(_)) == Loop(1, Len(s) + 1, LAMBDA i : Body(s[i]))

\* The two ends of channel number i between two parties
End(i, a, b) == [out |-> <<a, b, i>>, in |-> <<b, a, i>>, me |-> a, tag |-> <<b, i>>]

\* close, which waits for the sends that are outstanding
Close(c) == Step("flush", c.out, "", 0, {})

\* The thread that launches others and the ones it launches
Launch(name) == Signal(Append(name, "go"))
Thread(name, steps) ==
  Await(Append(name, "go"), 1) \o steps \o Signal(Append(name, "done"))
Join(name, threads) == When(threads > 0, Await(Append(name, "done"), threads))

\* A cell, a set of cells, and the cells lo .. hi - 1 of an array
Cell(array, row) == array \o <<row, 0>>
CellsAt(array, rows) == {Cell(array, row) : row \in rows}
Cells(array, lo, hi) == CellsAt(array, lo .. hi - 1)

Least(a, b) == IF a < b THEN a ELSE b
RoundUp(n, unit) == ((n + unit - 1) \div unit) * unit
=============================================================================
