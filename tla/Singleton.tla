----------------------------- MODULE Singleton -----------------------------
(***************************************************************************)
(* The double-checked singleton of ex02/lib/double_checked.c.  The object  *)
(* is published as soon as it is allocated and initialized field by field  *)
(* afterwards, while g_singleton is read outside the semaphore.            *)
(*                                                                         *)
(* A pointer is the rank of its object among those allocated, 0 is NULL.   *)
(***************************************************************************)
EXTENDS Integers, Sequences

CONSTANTS
  Threads,  \* the threads main creates
  Fields    \* number of members of struct Singleton

ASSUME SingletonAssumption == Fields \in Nat \ {0}

VARIABLES
  g_singleton,
  g_singletonInitSem,
  heap,     \* for each object, how many of its fields have been assigned
  pc,       \* where each thread is
  s,        \* the pointer each thread got
  waited,   \* history: the threads that passed the semaphore
  crashed   \* the process has dereferenced NULL

vars == <<g_singleton, g_singletonInitSem, heap, pc, s, waited, crashed>>

NULL == 0

Init ==
  /\ g_singleton = NULL
  /\ g_singletonInitSem = 1
  /\ heap = <<>>
  /\ pc = [t \in Threads |-> "check"]
  /\ s = [t \in Threads |-> NULL]
  /\ waited = {}
  /\ crashed = FALSE

Goto(t, loc) == pc' = [pc EXCEPT ![t] = loc]

Check(t) ==
  /\ pc[t] = "check"
  /\ Goto(t, IF g_singleton = NULL THEN "wait" ELSE "return")
  /\ UNCHANGED <<g_singleton, g_singletonInitSem, heap, s, waited, crashed>>

DontWait(t) ==  \* MUTANT: the semaphore is forgotten
  /\ pc[t] = "wait"
  /\ waited' = waited \cup {t}
  /\ Goto(t, "recheck")
  /\ UNCHANGED <<g_singleton, g_singletonInitSem, heap, s, crashed>>

SemWait(t) ==
  /\ pc[t] = "wait" /\ g_singletonInitSem > 0
  /\ g_singletonInitSem' = g_singletonInitSem - 1
  /\ waited' = waited \cup {t}
  /\ Goto(t, "recheck")
  /\ UNCHANGED <<g_singleton, heap, s, crashed>>

CheckOnce(t) ==  \* MUTANT: no second check
  /\ pc[t] = "recheck"
  /\ Goto(t, "malloc")
  /\ UNCHANGED <<g_singleton, g_singletonInitSem, heap, s, waited, crashed>>

Recheck(t) ==
  /\ pc[t] = "recheck"
  /\ Goto(t, IF g_singleton = NULL THEN "malloc" ELSE "post")
  /\ UNCHANGED <<g_singleton, g_singletonInitSem, heap, s, waited, crashed>>

(* malloc() may fail; its result is used unchecked.                         *)
Malloc(t) ==
  /\ pc[t] = "malloc"
  /\ \/ heap' = Append(heap, 0) /\ g_singleton' = Len(heap')
     \/ UNCHANGED heap /\ g_singleton' = NULL
  /\ Goto(t, "init")
  /\ UNCHANGED <<g_singletonInitSem, s, waited, crashed>>

LastButOne == Fields - 1  \* MUTANT: a field is forgotten
LastField  == Fields

(* The assignments g_singleton->a = 1 and so on, one after the other.       *)
AssignField(t) ==
  /\ pc[t] = "init" /\ g_singleton # NULL
  /\ heap' = [heap EXCEPT ![g_singleton] = @ + 1]
  /\ IF heap'[g_singleton] = LastField THEN Goto(t, "post") ELSE UNCHANGED pc
  /\ UNCHANGED <<g_singleton, g_singletonInitSem, s, waited, crashed>>

DereferenceNull(t) ==
  /\ pc[t] = "init" /\ g_singleton = NULL
  /\ crashed' = TRUE
  /\ UNCHANGED <<g_singleton, g_singletonInitSem, heap, pc, s, waited>>

SemPost(t) ==
  /\ pc[t] = "post"
  /\ g_singletonInitSem' = g_singletonInitSem + 1
  /\ Goto(t, "return")
  /\ UNCHANGED <<g_singleton, heap, s, waited, crashed>>

Return(t) ==
  /\ pc[t] = "return"
  /\ s' = [s EXCEPT ![t] = g_singleton]
  /\ Goto(t, "print")
  /\ UNCHANGED <<g_singleton, g_singletonInitSem, heap, waited, crashed>>

(* printf() reads the fields.                                               *)
Printf(t) ==
  /\ pc[t] = "print"
  /\ Goto(t, "done")
  /\ UNCHANGED <<g_singleton, g_singletonInitSem, heap, s, waited, crashed>>

getSingleton(t) ==
  \/ Check(t) \/ SemWait(t) \/ Recheck(t) \/ Malloc(t) \/ AssignField(t)
  \/ DereferenceNull(t) \/ SemPost(t) \/ Return(t)

singletonUser(t) == ~crashed /\ (getSingleton(t) \/ Printf(t))

Next == \E t \in Threads : singletonUser(t)

Spec == Init /\ [][Next]_vars /\ \A t \in Threads : WF_vars(singletonUser(t))

-----------------------------------------------------------------------------
Critical == {"recheck", "malloc", "init", "post"}

TypeOK ==
  /\ heap \in Seq(0..Fields)
  /\ g_singleton \in Nat
  /\ g_singletonInitSem \in {0, 1}
  /\ pc \in [Threads -> {"check", "wait", "return", "print", "done"} \cup Critical]
  /\ s \in [Threads -> Nat]
  /\ waited \subseteq Threads
  /\ crashed \in BOOLEAN

(* However the threads race through the two checks, one object is allocated *)
(* and every thread that returns gets that one.                             *)
OneInstance ==
  /\ Len(heap) <= 1
  /\ \A t \in Threads : pc[t] \in {"print", "done"} => s[t] = 1

Complete == g_singleton # NULL /\ heap[g_singleton] = Fields

(* A thread that took the semaphore gets an object with all its fields      *)
(* assigned, whether it initialized it or found it there.                   *)
WaitersGetComplete ==
  \A t \in waited : pc[t] \in {"return", "print", "done"} => Complete

(* The window of the first check (double_checked.c:32): a thread may print  *)
(* an object whose fields are not all assigned only while another thread is *)
(* between its malloc() and its last assignment.                            *)
IncompleteOnlyMeanwhile ==
  [][\A t \in Threads : pc[t] = "print" /\ pc'[t] = "done" /\ ~Complete =>
       \E u \in Threads \ {t} : pc[u] = "init"]_vars

=============================================================================
