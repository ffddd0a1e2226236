------------------------- MODULE PhilosophersProofs -------------------------
(***************************************************************************)
(* Proofs about Philosophers, for every number of philosophers above one.  *)
(***************************************************************************)
EXTENDS Philosophers, TLAPS

HasLeft(n)  == pc[n] \in {"lock_right", "unlock_pickup", "eat", "unlock_left"}
HasRight(n) == pc[n] \in {"unlock_pickup", "eat", "unlock_left", "unlock_right"}

(* The owner of a mutex is the thread whose place says that it holds it.    *)
Owners ==
  /\ \A n \in Phil : pickupMutex = n <=> pc[n] \in PickingUp
  /\ \A c, n \in Phil : chpstcks[c] = n <=>
       (c = n /\ HasLeft(n)) \/ (c = Right(n) /\ HasRight(n))

IInv == TypeOK /\ Owners

-----------------------------------------------------------------------------
(* The ring *)

LEMMA RightInRing ==
  ASSUME NEW n \in Phil
  PROVE  /\ Right(n) \in Phil /\ Right(n) # n
         /\ (n + N - 1) % N \in Phil /\ Right((n + N - 1) % N) = n
<1>. USE PhilosophersAssumption DEF Phil, Right
<1>1. CASE n = 0
  <2>1. (n + N - 1) % N = N - 1
    BY <1>1
  <2>2. Right(n) = 1 \/ N = 1
    BY <1>1
  <2>. QED  BY <1>1, <2>1, <2>2
<1>2. CASE n = N - 1
  <2>1. Right(n) = 0
    BY <1>2
  <2>2. (n + N - 1) % N = N - 2
    BY <1>2
  <2>. QED  BY <1>2, <2>1, <2>2
<1>3. CASE n > 0 /\ n < N - 1
  <2>1. Right(n) = n + 1
    BY <1>3
  <2>2. (n + N - 1) % N = n - 1
    BY <1>3
  <2>. QED  BY <1>3, <2>1, <2>2
<1>. QED  BY <1>1, <1>2, <1>3

LEMMA EatsWithBoth ==
  ASSUME IInv, NEW n \in Eating
  PROVE  n \in Phil /\ chpstcks[n] = n /\ chpstcks[Right(n)] = n
<1>1. n \in Phil /\ Right(n) \in Phil /\ HasLeft(n) /\ HasRight(n)
  BY RightInRing DEF Eating, HasLeft, HasRight
<1>. QED  BY <1>1 DEF IInv, Owners

-----------------------------------------------------------------------------
(* Types and owners *)

LEMMA InitIInv == Init => IInv
  BY PhilosophersAssumption
     DEF Init, IInv, TypeOK, Owners, Phil, NoOne, Locations, PickingUp, HasLeft, HasRight

LEMMA NextIInv == ASSUME IInv, [Next]_vars PROVE IInv'
<1>0. NoOne \notin Phil
  BY PhilosophersAssumption DEF Phil, NoOne
<1>1. CASE pthread_create
  BY <1>1, PhilosophersAssumption
     DEF IInv, TypeOK, Owners, pthread_create, HasLeft, HasRight
<1>2. CASE UNCHANGED vars
  BY <1>2 DEF IInv, TypeOK, Owners, vars, HasLeft, HasRight
<1>3. ASSUME NEW n \in Phil, fn(n) PROVE IInv'
  <2>0. Right(n) \in Phil /\ Right(n) # n
    BY RightInRing
  <2>. USE <1>0, <2>0
       DEF IInv, TypeOK, Owners, At, Goto, Take, Drop, Locations, PickingUp, HasLeft, HasRight
  <2>1. CASE LockPickup(n)
    BY <2>1 DEF LockPickup
  <2>2. CASE LockLeft(n)
    <3>1. TypeOK' /\ \A m \in Phil : (pickupMutex = m <=> pc[m] \in PickingUp)'
      BY <2>2 DEF LockLeft
    <3>2. ASSUME NEW c \in Phil, NEW m \in Phil
          PROVE  (chpstcks[c] = m <=> (c = m /\ HasLeft(m)) \/ (c = Right(m) /\ HasRight(m)))'
      <4>1. CASE m = n
        <5>1. chpstcks'[c] = IF c = n THEN n ELSE chpstcks[c]
          BY <2>2 DEF LockLeft
        <5>2. pc[n] = "lock_left" /\ pc'[n] = "lock_right"
          BY <2>2 DEF LockLeft
        <5>3. CASE c = n
          BY <4>1, <5>1, <5>2, <5>3
        <5>4. CASE c # n
          BY <4>1, <5>1, <5>2, <5>4
        <5>. QED  BY <5>3, <5>4
      <4>2. CASE m # n
        BY <2>2, <4>2 DEF LockLeft
      <4>. QED  BY <4>1, <4>2
    <3>. QED  BY <3>1, <3>2
  <2>3. CASE LockRight(n)
    <3>1. TypeOK' /\ \A m \in Phil : (pickupMutex = m <=> pc[m] \in PickingUp)'
      BY <2>3 DEF LockRight
    <3>2. ASSUME NEW c \in Phil, NEW m \in Phil
          PROVE  (chpstcks[c] = m <=> (c = m /\ HasLeft(m)) \/ (c = Right(m) /\ HasRight(m)))'
      <4>1. CASE m = n
        <5>1. chpstcks'[c] = IF c = Right(n) THEN n ELSE chpstcks[c]
          BY <2>3 DEF LockRight
        <5>2. pc[n] = "lock_right" /\ pc'[n] = "unlock_pickup"
          BY <2>3 DEF LockRight
        <5>3. CASE c = Right(n)
          BY <4>1, <5>1, <5>2, <5>3
        <5>4. CASE c # Right(n)
          BY <4>1, <5>1, <5>2, <5>4
        <5>. QED  BY <5>3, <5>4
      <4>2. CASE m # n
        BY <2>3, <4>2 DEF LockRight
      <4>. QED  BY <4>1, <4>2
    <3>. QED  BY <3>1, <3>2
  <2>4. CASE UnlockPickup(n)
    BY <2>4 DEF UnlockPickup
  <2>5. CASE eatSlowly(n)
    BY <2>5 DEF eatSlowly
  <2>6. CASE UnlockLeft(n)
    BY <2>6 DEF UnlockLeft
  <2>7. CASE UnlockRight(n)
    BY <2>7 DEF UnlockRight
  <2>. QED  BY <1>3, <2>1, <2>2, <2>3, <2>4, <2>5, <2>6, <2>7 DEF fn
<1>. QED  BY <1>1, <1>2, <1>3 DEF Next

LEMMA Invariance == Spec => []IInv
  BY InitIInv, NextIInv, PTL DEF Spec

-----------------------------------------------------------------------------
(* Every mutex has no owner or one of the threads. *)
THEOREM TypeCorrect == Spec => []TypeOK
<1>1. IInv => TypeOK
  BY DEF IInv
<1>. QED  BY <1>1, Invariance, PTL

(* The threads never wait in a circle: a chopstick is held by the owner of  *)
(* pickupMutex or by a thread that waits for nothing.                       *)
THEOREM NoCircularWait == Spec => []NoHoldAndWait
<1>1. IInv => NoHoldAndWait
  BY DEF IInv, TypeOK, Owners, NoHoldAndWait, HasLeft, HasRight, PickingUp, NoOne
<1>. QED  BY <1>1, Invariance, PTL

(* No two neighbours eat at the same time. *)
THEOREM NeighboursAreExcluded == Spec => []NeighboursExcluded
<1>1. ASSUME IInv PROVE NeighboursExcluded
  <2>1. SUFFICES ASSUME NEW n \in Eating, Right(n) \in Eating PROVE FALSE
    BY DEF NeighboursExcluded
  <2>2. Right(n) # n /\ chpstcks[Right(n)] = n /\ chpstcks[Right(n)] = Right(n)
    BY <1>1, <2>1, EatsWithBoth, RightInRing DEF Eating
  <2>. QED  BY <2>2
<1>. QED  BY <1>1, Invariance, PTL

(* The program solves the dining problem: it implements the abstract table. *)
THEOREM DiningIsSolved == Spec => SolvesDining
<1>1. Init => Table!Init
  BY DEF Init, Table!Init, Eating
<1>2. ASSUME IInv, [Next]_vars PROVE [Table!Next]_Eating
  <2>1. CASE pthread_create \/ UNCHANGED vars
    BY <2>1 DEF pthread_create, vars, Eating
  <2>2. ASSUME NEW n \in Phil, fn(n) PROVE [Table!Next]_Eating
    <3>0. n \in Table!Phil
      BY DEF Phil, Table!Phil
    <3>1. CASE LockRight(n)
      <4>1. Eating' = Eating \cup {n} /\ n \notin Eating
        BY <1>2, <3>1 DEF IInv, TypeOK, LockRight, At, Goto, Eating
      <4>2. Right(n) \notin Eating
        <5>1. Right(n) \in Phil /\ chpstcks[Right(n)] # Right(n)
          BY <3>1, RightInRing, PhilosophersAssumption DEF LockRight, Take, Phil, NoOne
        <5>. QED  BY <1>2, <5>1, EatsWithBoth
      <4>3. (n + N - 1) % N \notin Eating
        <5>1. /\ (n + N - 1) % N \in Phil /\ Right((n + N - 1) % N) = n
              /\ Right((n + N - 1) % N) # (n + N - 1) % N
          BY RightInRing
        <5>2. chpstcks[n] = n
          BY <1>2, <3>1 DEF IInv, Owners, LockRight, At, HasLeft
        <5>. QED  BY <1>2, <5>1, <5>2, EatsWithBoth
      <4>. QED
        BY <3>0, <4>1, <4>2, <4>3 DEF Table!Next, Table!Begin, Table!Neighbours, Right
    <3>2. CASE UnlockLeft(n)
      <4>1. n \in Eating /\ Eating' = Eating \ {n}
        BY <1>2, <3>2 DEF IInv, TypeOK, UnlockLeft, At, Goto, Eating
      <4>. QED  BY <3>0, <4>1 DEF Table!Next, Table!End
    <3>3. CASE LockPickup(n) \/ LockLeft(n) \/ UnlockPickup(n) \/ eatSlowly(n) \/ UnlockRight(n)
      BY <1>2, <3>3 DEF IInv, TypeOK, LockPickup, LockLeft, UnlockPickup, eatSlowly,
         UnlockRight, At, Goto, Eating
    <3>. QED  BY <2>2, <3>1, <3>2, <3>3 DEF fn
  <2>. QED  BY <1>2, <2>1, <2>2 DEF Next
<1>. QED  BY <1>1, <1>2, Invariance, PTL DEF Spec, SolvesDining, Table!Spec

=============================================================================
