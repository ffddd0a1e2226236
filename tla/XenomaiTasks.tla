---------------------------- MODULE XenomaiTasks ----------------------------
(***************************************************************************)
(* The Xenomai programs of ex07 on their one CPU: TaskA (broadcast of a    *)
(* semaphore), TaskB (a resource behind a semaphore), TaskC (behind a      *)
(* mutex with priority inheritance) and TaskD, TaskE (two resources with   *)
(* the immediate priority ceiling of resource.h, taken in opposite order). *)
(*                                                                         *)
(* A program is a sequence of calls.  The kernel gives the CPU to a ready  *)
(* task of the highest current priority.  Time is counted in units of 100  *)
(* ms, in which all delays of the programs are given; that a call other    *)
(* than a delay takes as long is a jitter, at most MaxJitter of them.      *)
(***************************************************************************)
EXTENDS Integers, Sequences, FiniteSetsExt

CONSTANT MaxJitter

Tasks     == {"main", "L", "M", "H"}
Exercises == {"TaskA", "TaskB", "TaskC", "TaskD"}
Resources == {"A", "B"}

-----------------------------------------------------------------------------
(* The programs *)

priority == [main |-> 99, L |-> 80, M |-> 81, H |-> 82]
Priority == [A |-> 90, B |-> 85]

main(delay) == <<<<"usleep", 1>>, <<"broadcast">>, <<"usleep", delay>>, <<"delete">>, <<"exit">>>>

NoCeiling(r)     == <<<<"acquire", r>>, <<"inquire", r>>>>                \* MUTANT: not raised
resource_lock(r) == <<<<"acquire", r>>, <<"inquire", r>>, <<"set", r>>>>

resource_release(r) == <<<<"release", r>>, <<"restore", r>>>>

busy_wait(n) == <<<<"busy", n>>>>

thread_fn  == <<<<"p", "sem">>>>
SectionL   == <<<<"acquire", "A">>>> \o busy_wait(3) \o <<<<"release", "A">>>>
thread_m   == <<<<"sleep", 1>>>> \o busy_wait(5)
SectionH   == <<<<"sleep", 2>>, <<"acquire", "A">>>> \o busy_wait(2) \o <<<<"release", "A">>>>
NestedL    == resource_lock("A") \o busy_wait(3) \o resource_lock("B")
              \o resource_release("B") \o resource_release("A") \o busy_wait(1)
NestedH    == <<<<"sleep", 1>>>> \o resource_lock("B") \o busy_wait(1) \o resource_lock("A")
              \o busy_wait(2) \o resource_release("A") \o resource_release("B") \o busy_wait(1)

Program ==
  [TaskA |-> [main |-> main(1), L |-> thread_fn, M |-> thread_fn, H |-> <<>>],
   TaskB |-> [main |-> main(1), L |-> SectionL, M |-> thread_m, H |-> SectionH],
   TaskC |-> [main |-> main(1), L |-> SectionL, M |-> thread_m, H |-> SectionH],
   TaskD |-> [main |-> main(100), L |-> NestedL, M |-> <<>>, H |-> NestedH]]

-----------------------------------------------------------------------------
VARIABLES
  exercise,         \* the program that runs
  pc,               \* the call each task is at
  spent,            \* time it has spent in a busy wait
  wake,             \* until when it sleeps
  secondary,        \* main has made a Linux call and is scheduled by Linux
  waiting,          \* what each task waits for
  owner,            \* who holds each resource
  bprio,            \* base priorities
  RestorePriority,  \* of each Resource_t
  clock, jitter,
  waited,           \* history: how long H has waited for a resource
  late              \* history: time has passed within a resource_lock, before the priority was set

vars == <<exercise, pc, spent, wake, secondary, waiting, owner, bprio,
          RestorePriority, clock, jitter, waited, late>>

Nothing == "nothing"
NoOne   == "nobody"

Init ==
  /\ exercise \in Exercises
  /\ pc = [t \in Tasks |-> 1]
  /\ spent = [t \in Tasks |-> 0]
  /\ wake = [t \in Tasks |-> 0]
  /\ secondary = FALSE
  /\ waiting = [t \in Tasks |-> Nothing]
  /\ owner = [r \in Resources |-> NoOne]
  /\ bprio = [t \in Tasks |-> priority[t]]
  /\ RestorePriority = [r \in Resources |-> 0]
  /\ clock = 0 /\ jitter = 0 /\ waited = 0 /\ late = FALSE

Finished(t) == pc[t] > Len(Program[exercise][t])
Call(t)     == Program[exercise][t][pc[t]]
At(t, call) == ~Finished(t) /\ Call(t)[1] = call
Exited      == Finished("main")

WaitingFor(t) == {u \in Tasks : waiting[u] \in Resources /\ owner[waiting[u]] = t}

NoBoost   == FALSE                            \* MUTANT: mutexes do not inherit
Inherits  == exercise \in {"TaskC", "TaskD"}  \* the locks are RT_MUTEXes
cprio(t)  == IF Inherits THEN Max({bprio[u] : u \in {t} \cup WaitingFor(t)}) ELSE bprio[t]

Ready(t) == ~Finished(t) /\ wake[t] <= clock /\ waiting[t] = Nothing

(* Linux runs only when no Xenomai task does.                               *)
Primary == {t \in Tasks : Ready(t) /\ ~(t = "main" /\ secondary)}
Running(t) == IF Primary = {} THEN t = "main" /\ Ready(t)
              ELSE t \in Primary /\ \A u \in Primary : cprio(u) <= cprio(t)

-----------------------------------------------------------------------------
(* The calls *)

Next1(t) == pc' = [pc EXCEPT ![t] = @ + 1]

Sleep(t) ==
  /\ At(t, "sleep") \/ At(t, "usleep")
  /\ wake' = [wake EXCEPT ![t] = clock + Call(t)[2]]
  /\ secondary' = (secondary \/ At(t, "usleep"))
  /\ Next1(t)
  /\ UNCHANGED <<spent, waiting, owner, bprio, RestorePriority>>

BusyWaitEnds(t) ==
  /\ At(t, "busy") /\ spent[t] = Call(t)[2]
  /\ spent' = [spent EXCEPT ![t] = 0]
  /\ Next1(t)
  /\ UNCHANGED <<wake, secondary, waiting, owner, bprio, RestorePriority>>

Acquire(t) ==
  /\ At(t, "acquire")
  /\ LET r == Call(t)[2]
     IN \/ owner[r] = NoOne /\ owner' = [owner EXCEPT ![r] = t] /\ Next1(t) /\ UNCHANGED waiting
        \/ owner[r] # NoOne /\ waiting' = [waiting EXCEPT ![t] = r] /\ UNCHANGED <<owner, pc>>
  /\ UNCHANGED <<spent, wake, secondary, bprio, RestorePriority>>

(* The resource is handed to the waiting task of the highest priority.      *)
Release(t) ==
  /\ At(t, "release")
  /\ LET r == Call(t)[2]
         waiters == {u \in Tasks : waiting[u] = r}
     IN \/ /\ waiters = {}
           /\ owner' = [owner EXCEPT ![r] = NoOne]
           /\ Next1(t) /\ UNCHANGED waiting
        \/ \E u \in waiters :
             /\ \A v \in waiters : bprio[v] <= bprio[u]
             /\ owner' = [owner EXCEPT ![r] = u]
             /\ waiting' = [waiting EXCEPT ![u] = Nothing]
             /\ pc' = [pc EXCEPT ![t] = @ + 1, ![u] = @ + 1]
  /\ UNCHANGED <<spent, wake, secondary, bprio, RestorePriority>>

Inquire(t) ==
  /\ At(t, "inquire")
  /\ RestorePriority' = [RestorePriority EXCEPT ![Call(t)[2]] = cprio(t)]
  /\ Next1(t)
  /\ UNCHANGED <<spent, wake, secondary, waiting, owner, bprio>>

SetPriority(t) ==
  /\ \/ At(t, "set") /\ bprio' = [bprio EXCEPT ![t] = Priority[Call(t)[2]]]
     \/ At(t, "restore") /\ bprio' = [bprio EXCEPT ![t] = RestorePriority[Call(t)[2]]]
  /\ Next1(t)
  /\ UNCHANGED <<spent, wake, secondary, waiting, owner, RestorePriority>>

SemP(t) ==
  /\ At(t, "p")
  /\ waiting' = [waiting EXCEPT ![t] = "sem"]
  /\ UNCHANGED <<pc, spent, wake, secondary, owner, bprio, RestorePriority>>

(* Both release every task that waits for the semaphore.                    *)
SemBroadcast(t) ==
  /\ At(t, "broadcast") \/ At(t, "delete")
  /\ pc' = [u \in Tasks |-> IF u = t \/ waiting[u] = "sem" THEN pc[u] + 1 ELSE pc[u]]
  /\ waiting' = [u \in Tasks |-> IF waiting[u] = "sem" THEN Nothing ELSE waiting[u]]
  /\ secondary' = FALSE
  /\ UNCHANGED <<spent, wake, owner, bprio, RestorePriority>>

Exit(t) ==
  /\ At(t, "exit")
  /\ Next1(t)
  /\ UNCHANGED <<spent, wake, secondary, waiting, owner, bprio, RestorePriority>>

Step(t) ==
  /\ Running(t)
  /\ \/ Sleep(t) \/ BusyWaitEnds(t) \/ Acquire(t) \/ Release(t) \/ Inquire(t)
     \/ SetPriority(t) \/ SemP(t) \/ SemBroadcast(t) \/ Exit(t)
  /\ UNCHANGED <<exercise, clock, jitter, waited, late>>

(* Time passes in a busy wait, while all tasks sleep or as a jitter.        *)
Spinning(t) == Running(t) /\ At(t, "busy") /\ spent[t] < Call(t)[2]
InWindow(t) == At(t, "inquire") \/ At(t, "set")

Tick ==
  /\ clock' = clock + 1
  /\ \/ \E t \in Tasks : Spinning(t) /\ spent' = [spent EXCEPT ![t] = @ + 1] /\ UNCHANGED jitter
     \/ /\ \A t \in Tasks : ~Running(t)
        /\ \E t \in Tasks : wake[t] > clock
        /\ UNCHANGED <<spent, jitter>>
     \/ /\ \E t \in Tasks : Running(t) /\ ~Spinning(t)
        /\ jitter < MaxJitter /\ jitter' = jitter + 1
        /\ UNCHANGED spent
  /\ waited' = IF waiting["H"] \in Resources THEN waited + 1 ELSE waited
  /\ late' = (late \/ \E t \in Tasks : InWindow(t))
  /\ UNCHANGED <<exercise, pc, wake, secondary, waiting, owner, bprio, RestorePriority>>

Next == ~Exited /\ (Tick \/ \E t \in Tasks : Step(t))

Spec == /\ Init /\ [][Next]_vars
        /\ WF_vars(~Exited /\ Tick) /\ WF_vars(~Exited /\ \E t \in Tasks : Step(t))

-----------------------------------------------------------------------------
(* With priority inheritance H waits no longer than the critical section of *)
(* L lasts; with a semaphore it also waits for M, which wants nothing.      *)
WaitBounded ==
  /\ exercise = "TaskB" => waited <= 3 + 5 + jitter
  /\ exercise = "TaskC" => waited <= 3 + jitter

(* The two tasks take the two locks in opposite order.  With the emulated    *)
(* ceiling neither ever waits for a resource, however late any of the calls  *)
(* comes, except those of resource_lock between rt_mutex_acquire and         *)
(* rt_task_set_priority: only a delay in there (late) can make a task wait,   *)
(* and so only it can lead to the deadlock.  (resource_lock, resource.h:20)  *)
CeilingNeverWaits ==
  exercise = "TaskD" /\ ~late => \A t \in Tasks : waiting[t] \notin Resources

(* RestorePriority survives until it is read, after the mutex is released:  *)
(* a task that holds nothing and is past its calls has its own priority.    *)
PrioritiesRestored == \A t \in Tasks : Finished(t) => bprio[t] = priority[t]

=============================================================================
