---------------------------- MODULE Philosophers ----------------------------
(***************************************************************************)
(* The dining philosophers of ex02/src/main.c: one thread for each, one    *)
(* mutex for each chopstick, and a pickupMutex held while both chopsticks  *)
(* of a philosopher are taken.                                             *)
(***************************************************************************)
EXTENDS Integers

CONSTANT N  \* philosophers, and chopsticks

ASSUME PhilosophersAssumption == N \in Nat /\ N > 1

Phil  == 0..(N - 1)
NoOne == N  \* the owner of a mutex that is free

VARIABLES
  created,      \* main has created the threads below this one
  pc,           \* where each thread is
  chpstcks,     \* the owner of each chopstick
  pickupMutex   \* its owner

vars == <<created, pc, chpstcks, pickupMutex>>

Right(n) == (n + 1) % N  \* the other chopstick of philosopher n

Init ==
  /\ created = 0
  /\ pc = [n \in Phil |-> "lock_pickup"]
  /\ chpstcks = [c \in Phil |-> NoOne]
  /\ pickupMutex = NoOne

(* main() creates the threads in a loop and waits for them for ever.        *)
pthread_create ==
  /\ created < N
  /\ created' = created + 1
  /\ UNCHANGED <<pc, chpstcks, pickupMutex>>

Goto(n, loc) == pc' = [pc EXCEPT ![n] = loc]
At(n, loc)   == n < created /\ pc[n] = loc

PickNow(n) ==  \* MUTANT: pickupMutex is not taken
  /\ At(n, "lock_pickup")
  /\ Goto(n, "lock_left")
  /\ UNCHANGED <<created, chpstcks, pickupMutex>>

LockPickup(n) ==
  /\ At(n, "lock_pickup") /\ pickupMutex = NoOne
  /\ pickupMutex' = n
  /\ Goto(n, "lock_left")
  /\ UNCHANGED <<created, chpstcks>>

Take(n, c) == chpstcks[c] = NoOne /\ chpstcks' = [chpstcks EXCEPT ![c] = n]
Drop(c)    == chpstcks' = [chpstcks EXCEPT ![c] = NoOne]

LockLeft(n) ==
  /\ At(n, "lock_left") /\ Take(n, n)
  /\ Goto(n, "lock_right")
  /\ UNCHANGED <<created, pickupMutex>>

LockOnlyLeft(n) ==  \* MUTANT: one chopstick is enough
  /\ At(n, "lock_right")
  /\ Goto(n, "unlock_pickup")
  /\ UNCHANGED <<created, chpstcks, pickupMutex>>

LockRight(n) ==
  /\ At(n, "lock_right") /\ Take(n, Right(n))
  /\ Goto(n, "unlock_pickup")
  /\ UNCHANGED <<created, pickupMutex>>

UnlockPickup(n) ==
  /\ At(n, "unlock_pickup")
  /\ pickupMutex' = NoOne
  /\ Goto(n, "eat")
  /\ UNCHANGED <<created, chpstcks>>

EatForEver(n) == At(n, "eat") /\ UNCHANGED vars  \* MUTANT: the loop does not end

eatSlowly(n) ==
  /\ At(n, "eat")
  /\ Goto(n, "unlock_left")
  /\ UNCHANGED <<created, chpstcks, pickupMutex>>

UnlockLeft(n) ==
  /\ At(n, "unlock_left") /\ Drop(n)
  /\ Goto(n, "unlock_right")
  /\ UNCHANGED <<created, pickupMutex>>

UnlockRight(n) ==
  /\ At(n, "unlock_right") /\ Drop(Right(n))
  /\ Goto(n, "lock_pickup")
  /\ UNCHANGED <<created, pickupMutex>>

fn(n) == \/ LockPickup(n) \/ LockLeft(n) \/ LockRight(n) \/ UnlockPickup(n)
         \/ eatSlowly(n) \/ UnlockLeft(n) \/ UnlockRight(n)

Next == pthread_create \/ \E n \in Phil : fn(n)

(* A thread that can move moves; a mutex has no queue, so that a thread     *)
(* waiting for pickupMutex may be passed by the others for ever.            *)
Fairness == WF_vars(pthread_create) /\ \A n \in Phil : WF_vars(fn(n))

Spec == Init /\ [][Next]_vars /\ Fairness

-----------------------------------------------------------------------------
Locations == {"lock_pickup", "lock_left", "lock_right", "unlock_pickup", "eat",
              "unlock_left", "unlock_right"}

TypeOK ==
  /\ created \in 0..N
  /\ pc \in [Phil -> Locations]
  /\ chpstcks \in [Phil -> Phil \cup {NoOne}]
  /\ pickupMutex \in Phil \cup {NoOne}

PickingUp == {"lock_left", "lock_right", "unlock_pickup"}
Eating    == {n \in Phil : pc[n] \in {"unlock_pickup", "eat", "unlock_left"}}

(* Whoever waits with a chopstick in hand holds pickupMutex, so at most one *)
(* does, and it waits for philosophers that wait for nothing: there is no   *)
(* circle of threads each waiting for the next (the reason for pickupMutex, *)
(* main.c:27-32).                                                           *)
NoHoldAndWait ==
  \A c \in Phil : chpstcks[c] # NoOne =>
    \/ pickupMutex = chpstcks[c]
    \/ pc[chpstcks[c]] \in {"eat", "unlock_left", "unlock_right"}

(* A philosopher eats with both of its chopsticks, and so no two neighbours *)
(* eat at the same time.                                                    *)
NeighboursExcluded == \A n \in Eating : Right(n) \notin Eating

(* The table keeps the promise of the abstract one. *)
Table == INSTANCE NeighbourExclusion WITH eating <- Eating
SolvesDining == Table!Spec

(* pickupMutex is taken and released again and again: no interleaving stops *)
(* the dinner.                                                              *)
DinnerGoesOn == []<>(pickupMutex = NoOne) /\ []<>(pickupMutex # NoOne)

=============================================================================
