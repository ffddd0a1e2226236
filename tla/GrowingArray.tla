----------------------------- MODULE GrowingArray -----------------------------
(***************************************************************************)
(* The array of ex01 in its three stages: a block of memory, two cursors,   *)
(* and a capacity.  In task E the block never grows, in task F it grows but  *)
(* the capacity stays as it was, in task G both grow by one element when     *)
(* the length exceeds them.  The programs only insert; the popping functions *)
(* are there for others.                                                    *)
(***************************************************************************)
EXTENDS Integers, Sequences

CONSTANTS
  Elements,
  Capacity,   \* of a new array
  MaxInserts  \* bound

VARIABLES
  task,
  block,    \* the allocated memory, of any content at first, or NULL
  front, back, capacity,
  b,        \* the copy an iteration works on; its kind, and what it has seen
  elements, \* history: what the array should hold
  inserts,
  crashed   \* the memory after the block, or NULL, has been written to

vars == <<task, block, front, back, capacity, b, elements, inserts, crashed>>

NULL == <<>>
Junk == "junk"
NoIteration == [kind |-> "none", front |-> 0, back |-> 0, seen |-> <<>>]

array_new(n) == [i \in 1..n |-> Junk]

Init ==
  /\ task \in {"E", "F", "G"}
  /\ block = array_new(Capacity)
  /\ front = 0 /\ back = 0 /\ capacity = Capacity
  /\ b = NoIteration
  /\ elements = <<>> /\ inserts = 0 /\ crashed = FALSE

Calling == ~crashed /\ b.kind = "none"

array_empty(f, k) == k <= f
array_length      == back - front
array_front(f)    == block[f + 1]
array_back(k)     == block[k]

(* realloc() keeps what fits, or fails. *)
array_reserve(n) == [i \in 1..n |-> IF i <= Len(block) THEN block[i] ELSE Junk]

newLength    == array_length + 1
Never        == FALSE  \* MUTANT: the block never grows
MustGrow     == newLength > capacity
Grows        == task # "E" /\ MustGrow   \* in task E array_reserve() is not called
NewCapacity  == IF task = "G" /\ MustGrow THEN newLength ELSE capacity

array_insertBack(e) ==
  /\ Calling /\ inserts < MaxInserts
  /\ \E fits \in BOOLEAN :
       LET grown == IF ~Grows THEN block ELSE IF fits THEN array_reserve(newLength) ELSE NULL IN
       /\ block' = IF back < Len(grown) THEN [grown EXCEPT ![back + 1] = e] ELSE grown
       /\ crashed' = (back >= Len(grown))
  /\ capacity' = NewCapacity
  /\ back' = back + 1
  /\ elements' = Append(elements, e)
  /\ inserts' = inserts + 1
  /\ UNCHANGED <<task, front, b>>

(* Elements are taken only from an array that array_empty() says has some. *)
array_popFront ==
  /\ Calling /\ ~array_empty(front, back)
  /\ front' = front + 1
  /\ elements' = Tail(elements)
  /\ UNCHANGED <<task, block, back, capacity, b, inserts, crashed>>

array_popBack ==
  /\ Calling /\ ~array_empty(front, back)
  /\ back' = back - 1
  /\ elements' = SubSeq(elements, 1, Len(elements) - 1)
  /\ UNCHANGED <<task, block, front, capacity, b, inserts, crashed>>

(* array_foreach(), array_foreachReverse(): the loop pops a copy empty.      *)
array_save(kind) ==
  /\ Calling
  /\ b' = [kind |-> kind, front |-> front, back |-> back, seen |-> <<>>]
  /\ UNCHANGED <<task, block, front, back, capacity, elements, inserts, crashed>>

(* Prints and pops the first element of its copy, then iterates forwards.    *)
array_print ==
  LET first == IF array_empty(front, back) THEN <<>> ELSE <<array_front(front)>> IN
  /\ Calling
  /\ b' = [kind |-> "print", front |-> front + Len(first), back |-> back, seen |-> first]
  /\ UNCHANGED <<task, block, front, back, capacity, elements, inserts, crashed>>

Visit ==
  /\ b.kind # "none" /\ ~array_empty(b.front, b.back)
  /\ b' = IF b.kind = "reverse"
          THEN [b EXCEPT !.back = @ - 1, !.seen = <<array_back(b.back)>> \o @]
          ELSE [b EXCEPT !.front = @ + 1, !.seen = Append(@, array_front(b.front))]
  /\ UNCHANGED <<task, block, front, back, capacity, elements, inserts, crashed>>

IterationEnds ==
  /\ b.kind # "none" /\ array_empty(b.front, b.back)
  /\ b' = NoIteration
  /\ UNCHANGED <<task, block, front, back, capacity, elements, inserts, crashed>>

Next ==
  \/ \E e \in Elements : array_insertBack(e)
  \/ array_popFront \/ array_popBack
  \/ \E kind \in {"forward", "reverse"} : array_save(kind)
  \/ array_print \/ Visit \/ IterationEnds

Spec == Init /\ [][Next]_vars

-----------------------------------------------------------------------------
Tell(s) == b.kind # "none" /\ array_empty(b.front, b.back) => b.seen = s

(* The array holds what was put in and not taken out, in order, and both     *)
(* iterations and the print see all of it.  Memory after the block is written to only when *)
(* elements have been taken from the front, where the length says nothing    *)
(* about how far back is, when there is no memory left, or in task E when    *)
(* the array is full.                                                       *)
HoldsItsElements ==
  /\ ~crashed => SubSeq(block, front + 1, back) = elements /\ Tell(elements)
  /\ crashed => front > 0 \/ block = NULL \/ (task = "E" /\ back > Capacity)

=============================================================================
