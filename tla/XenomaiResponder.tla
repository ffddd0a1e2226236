--------------------------- MODULE XenomaiResponder ---------------------------
(***************************************************************************)
(* ex06's Xenomai program: main starts four responders, one for each CPU    *)
(* and all of the highest priority, which spin until their ten seconds are   *)
(* over and delete themselves; the answers to the pins are commented out.    *)
(* main and the disturbing threads are Linux threads: they get a CPU when no *)
(* responder spins on it.                                                   *)
(***************************************************************************)
EXTENDS Integers

CONSTANTS
  duration,    \* 10 s
  LongModulus, \* an unsigned long is less; rt_timer_read() is not cut
  MaxNow       \* bound

CPUs == 0..3

VARIABLES
  now,     \* rt_timer_read()
  mainCpu, \* the CPU main is on, never left
  task,    \* of each CPU
  endTime,
  ran      \* history: when each began and ended

vars == <<now, mainCpu, task, endTime, ran>>

(* After rt_task_create() and pthread_create(). *)
Init ==
  /\ now = 0 /\ mainCpu \in CPUs
  /\ task = [c \in CPUs |-> "created"]
  /\ endTime = [c \in CPUs |-> 0]
  /\ ran = [c \in CPUs |-> [began |-> 0, ended |-> 0]]

Spins(c) == task[c] \in {"started", "spinning"}
Linux(c) == ~Spins(c)

(* In the order of their CPUs.  The disturbing threads may delay main.      *)
rt_task_start(c) ==
  /\ Linux(mainCpu) /\ task[c] = "created" /\ \A d \in CPUs : d < c => task[d] # "created"
  /\ task' = [task EXCEPT ![c] = "started"]
  /\ UNCHANGED <<now, mainCpu, endTime, ran>>

Cut(n) == n % LongModulus

Begins(c) ==
  /\ task[c] = "started"
  /\ task' = [task EXCEPT ![c] = "spinning"]
  /\ endTime' = [endTime EXCEPT ![c] = Cut(now + Cut(duration))]
  /\ ran' = [ran EXCEPT ![c].began = now]
  /\ UNCHANGED <<now, mainCpu>>

Expired(c) == task[c] = "spinning" /\ now > endTime[c]

rt_task_delete(c) ==
  /\ Expired(c)
  /\ task' = [task EXCEPT ![c] = "deleted"]
  /\ ran' = [ran EXCEPT ![c].ended = now]
  /\ UNCHANGED <<now, mainCpu, endTime>>

brttResponder(c) == Begins(c) \/ rt_task_delete(c)

(* Nothing delays a responder that has its CPU.                             *)
Tick ==
  /\ now < MaxNow /\ \A c \in CPUs : task[c] # "started" /\ ~Expired(c)
  /\ now' = now + 1
  /\ UNCHANGED <<mainCpu, task, endTime, ran>>

Next == Tick \/ \E c \in CPUs : rt_task_start(c) \/ brttResponder(c)

Spec == Init /\ [][Next]_vars

-----------------------------------------------------------------------------
(* A responder spins for its duration and no longer, if a long holds the     *)
(* time at its end; if not it ends no later.  The responder on main's CPU    *)
(* keeps main from starting the rest: they begin when it has ended.          *)
DeletedInTime ==
  \A c \in CPUs :
    /\ task[c] = "spinning" => now <= ran[c].began + duration + 1
    /\ task[c] = "deleted" =>
         ran[c].ended = ran[c].began + duration + 1 \/ ran[c].began + duration >= LongModulus
    /\ c > mainCpu /\ task[c] \in {"spinning", "deleted"} =>
         task[mainCpu] = "deleted" /\ ran[c].began >= ran[mainCpu].ended

=============================================================================
