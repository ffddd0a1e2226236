------------------------- MODULE NeighbourExclusion -------------------------
(***************************************************************************)
(* What a solution of the dining philosophers promises: each philosopher   *)
(* eats now and then, and begins only while neither neighbour eats.        *)
(***************************************************************************)
EXTENDS Integers

CONSTANT N

VARIABLE eating  \* the philosophers that eat

Phil         == 0..(N - 1)
Neighbours(n) == {(n + 1) % N, (n + N - 1) % N}

Init == eating = {}

Begin(n) ==
  /\ n \notin eating /\ Neighbours(n) \cap eating = {}
  /\ eating' = eating \cup {n}

End(n) == n \in eating /\ eating' = eating \ {n}

Next == \E n \in Phil : Begin(n) \/ End(n)

Spec == Init /\ [][Next]_eating

=============================================================================
