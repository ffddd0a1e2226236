---------------------------- MODULE ThreadsProofs ----------------------------
(***************************************************************************)
(* Proofs about the threads and tasks of MCThreads: the singleton of ex02   *)
(* for any set of threads and any number of fields (theorems about Spec),   *)
(* and the times and the priority ceiling of ex07, and the times of ex06,    *)
(* for any jitter, any duration and any modulus of the clock (about MCSpec). *)
(***************************************************************************)
EXTENDS MCThreads, SequenceTheorems, TLAPS

(* One thread at a time is between sem_wait and sem_post.                   *)
MutualExclusion ==
  /\ \A t, u \in Threads : pc[t] \in Critical /\ pc[u] \in Critical => t = u
  /\ g_singletonInitSem = 1 => \A t \in Threads : pc[t] \notin Critical
  /\ \A t \in Threads : pc[t] \in Critical => t \in waited

(* An object that is not complete has a thread initializing it.             *)
Publication ==
  /\ Len(heap) <= 1 /\ g_singleton = Len(heap)
  /\ \A t \in Threads : pc[t] = "malloc" => g_singleton = NULL
  /\ \A t \in Threads : pc[t] = "init" => ~Complete
  /\ g_singleton = NULL \/ Complete \/ \E t \in Threads : pc[t] = "init"
  /\ \A t \in Threads : pc[t] \in {"post", "return", "print", "done"} => g_singleton # NULL

Results ==
  /\ \A t \in Threads : pc[t] \in {"check", "wait"} => t \notin waited
  /\ \A t \in Threads : pc[t] \in {"print", "done"} => s[t] = 1
  /\ \A t \in waited : pc[t] \in {"post", "return", "print", "done"} => Complete

IInv == TypeOK /\ MutualExclusion /\ Publication /\ Results

-----------------------------------------------------------------------------
LEMMA InitIInv == Init => IInv
<1>. SUFFICES ASSUME Init PROVE IInv
  OBVIOUS
<1>1. TypeOK
  <2>1. heap \in Seq(0..Fields) /\ Len(heap) = 0
    BY EmptySeq DEF Init
  <2>. QED  BY <2>1 DEF Init, TypeOK, NULL, Critical
<1>2. MutualExclusion
  BY DEF Init, MutualExclusion, Critical
<1>3. Publication
  BY EmptySeq DEF Init, Publication, NULL
<1>4. Results
  BY DEF Init, Results
<1>. QED  BY <1>1, <1>2, <1>3, <1>4 DEF IInv

(* A step that leaves the heap alone. *)
LEMMA SameHeap ==
  ASSUME IInv, NEW t \in Threads,
         Check(t) \/ SemWait(t) \/ Recheck(t) \/ SemPost(t) \/ Return(t) \/ Printf(t)
  PROVE  IInv'
<1>. USE DEF Goto, Critical
<1>0. heap' = heap /\ g_singleton' = g_singleton /\ Complete' = Complete
  BY DEF Check, SemWait, Recheck, SemPost, Return, Printf, Complete
<1>1. TypeOK'
  <2>. USE <1>0 DEF IInv, TypeOK
  <2>1. CASE Check(t)
    BY <2>1 DEF Check
  <2>2. CASE SemWait(t)
    BY <2>2 DEF SemWait
  <2>3. CASE Recheck(t)
    BY <2>3 DEF Recheck
  <2>4. CASE SemPost(t)
    BY <2>4 DEF SemPost, MutualExclusion
  <2>5. CASE Return(t)
    BY <2>5 DEF Return
  <2>6. CASE Printf(t)
    BY <2>6 DEF Printf
  <2>. QED  BY <2>1, <2>2, <2>3, <2>4, <2>5, <2>6
<1>2. MutualExclusion'
  <2>. USE <1>0 DEF IInv, TypeOK, MutualExclusion
  <2>1. CASE Check(t)
    BY <2>1 DEF Check
  <2>2. CASE SemWait(t)
    BY <2>2 DEF SemWait
  <2>3. CASE Recheck(t)
    BY <2>3 DEF Recheck
  <2>4. CASE SemPost(t)
    BY <2>4 DEF SemPost
  <2>5. CASE Return(t)
    BY <2>5 DEF Return
  <2>6. CASE Printf(t)
    BY <2>6 DEF Printf
  <2>. QED  BY <2>1, <2>2, <2>3, <2>4, <2>5, <2>6
<1>3. Publication'
  <2>. USE <1>0 DEF IInv, TypeOK, Publication, NULL
  <2>1. CASE Check(t)
    <3>1. CASE g_singleton = NULL
      BY <2>1, <3>1 DEF Check
    <3>2. CASE g_singleton # NULL
      BY <2>1, <3>2 DEF Check
    <3>. QED  BY <3>1, <3>2
  <2>2. CASE SemWait(t)
    BY <2>2 DEF SemWait
  <2>3. CASE Recheck(t)
    BY <2>3 DEF Recheck
  <2>4. CASE SemPost(t)
    BY <2>4 DEF SemPost
  <2>5. CASE Return(t)
    BY <2>5 DEF Return
  <2>6. CASE Printf(t)
    BY <2>6 DEF Printf
  <2>. QED  BY <2>1, <2>2, <2>3, <2>4, <2>5, <2>6
<1>4. Results'
  <2>. USE <1>0 DEF IInv, TypeOK, Results, NULL, Publication, MutualExclusion
  <2>1. CASE Check(t)
    BY <2>1 DEF Check
  <2>2. CASE SemWait(t)
    BY <2>2 DEF SemWait
  <2>3. CASE Recheck(t)
    BY <2>3 DEF Recheck
  <2>4. CASE SemPost(t)
    BY <2>4 DEF SemPost
  <2>5. CASE Return(t)
    BY <2>5 DEF Return
  <2>6. CASE Printf(t)
    BY <2>6 DEF Printf
  <2>. QED  BY <2>1, <2>2, <2>3, <2>4, <2>5, <2>6
<1>. QED  BY <1>1, <1>2, <1>3, <1>4 DEF IInv

LEMMA NextIInv == ASSUME IInv, [Next]_vars PROVE IInv'
<1>1. CASE UNCHANGED vars
  BY <1>1 DEF vars, IInv, TypeOK, MutualExclusion, Publication, Results, Complete
<1>2. ASSUME NEW t \in Threads, singletonUser(t) PROVE IInv'
  <2>1. CASE Malloc(t)
    <3>. USE DEF Goto, Critical, IInv, TypeOK
    <3>0. g_singleton = 0 /\ Len(heap) = 0
      BY <2>1 DEF Malloc, Publication, NULL
    <3>1. \/ heap' = heap /\ g_singleton' = 0
          \/ /\ heap' = Append(heap, 0) /\ heap' \in Seq(0..Fields)
             /\ Len(heap') = 1 /\ heap'[1] = 0 /\ g_singleton' = 1
      <4>1. 0 \in 0..Fields
        BY SingletonAssumption
      <4>2. CASE UNCHANGED heap /\ g_singleton' = NULL
        BY <4>2 DEF NULL
      <4>3. CASE heap' = Append(heap, 0) /\ g_singleton' = Len(heap')
        BY <3>0, <4>1, <4>3, AppendProperties
      <4>. QED  BY <2>1, <4>2, <4>3 DEF Malloc
    <3>2. ~Complete'
      BY <3>1, SingletonAssumption DEF Complete, NULL
    <3>3. TypeOK'
      <4>1. heap' \in Seq(0..Fields) /\ g_singleton' \in Nat
        BY <3>1
      <4>. QED  BY <2>1, <4>1 DEF Malloc
    <3>4. MutualExclusion'
      BY <2>1 DEF Malloc, MutualExclusion
    <3>5. \A u \in Threads : pc[u] \notin {"post", "return", "print", "done"}
      BY <3>0 DEF Publication, NULL
    <3>6. pc' = [pc EXCEPT ![t] = "init"]
      BY <2>1 DEF Malloc
    <3>7. Publication'
      <4>1. CASE g_singleton' = 0
        BY <2>1, <3>0, <3>1, <3>2, <3>5, <3>6, <4>1 DEF Publication, NULL
      <4>2. CASE g_singleton' = 1
        <5>1. \A u \in Threads : pc'[u] = "malloc" => FALSE
          BY <2>1, <3>6 DEF Malloc, MutualExclusion
        <5>2. pc'[t] = "init" /\ Len(heap') = 1
          BY <3>1, <3>6, <4>2
        <5>. QED  BY <3>2, <4>2, <5>1, <5>2 DEF Publication, NULL
      <4>. QED  BY <3>1, <4>1, <4>2
    <3>8. Results'
      BY <2>1, <3>5, <3>6 DEF Malloc, Results
    <3>. QED  BY <3>3, <3>4, <3>7, <3>8
  <2>2. CASE AssignField(t)
    <3>. USE DEF Goto, Critical, IInv, TypeOK
    <3>0. /\ Len(heap) = 1 /\ g_singleton = 1
          /\ heap[1] \in 0..Fields /\ heap[1] # Fields
      <4>1. Len(heap) = 1 /\ g_singleton = 1
        BY <2>2 DEF AssignField, NULL, Publication
      <4>2. heap[1] \in 0..Fields
        <5>1. 1 \in 1..Len(heap)
          BY <4>1
        <5>. QED  BY <5>1, ElementOfSeq
      <4>. QED  BY <2>2, <4>1, <4>2 DEF AssignField, Publication, Complete
    <3>1. heap' \in Seq(0..Fields) /\ Len(heap') = 1 /\ heap'[1] = heap[1] + 1
      <4>1. heap[1] + 1 \in 0..Fields
        BY <3>0, SingletonAssumption
      <4>2. heap' = [heap EXCEPT ![1] = heap[1] + 1]
        BY <2>2, <3>0 DEF AssignField
      <4>. QED  BY <3>0, <4>1, <4>2, ExceptSeq
    <3>2. /\ heap'[1] = Fields => pc' = [pc EXCEPT ![t] = "post"]
          /\ heap'[1] # Fields => pc' = pc
          /\ UNCHANGED <<g_singleton, g_singletonInitSem, s, waited, crashed>>
      BY <2>2, <3>0 DEF AssignField, LastField
    <3>. HIDE <2>2
    <3>3. TypeOK'
      BY <3>0, <3>1, <3>2
    <3>4. MutualExclusion'
      BY <2>2, <3>2 DEF AssignField, MutualExclusion
    <3>5. Complete' <=> heap'[1] = Fields
      BY <3>0, <3>2 DEF Complete, NULL
    <3>6. Publication'
      BY <2>2, <3>0, <3>1, <3>2, <3>5 DEF AssignField, Publication, MutualExclusion, NULL
    <3>7. \A u \in waited : pc[u] \notin {"post", "return", "print", "done"}
      BY <3>0 DEF Results, Complete
    <3>8. Results'
      BY <2>2, <3>2, <3>5, <3>7 DEF AssignField, Results
    <3>. QED  BY <3>3, <3>4, <3>6, <3>8
  <2>3. CASE DereferenceNull(t)
    BY <2>3 DEF DereferenceNull, IInv, TypeOK, MutualExclusion, Publication, Results, Complete
  <2>. QED
    BY <1>2, <2>1, <2>2, <2>3, SameHeap DEF singletonUser, getSingleton
<1>. QED  BY <1>1, <1>2 DEF Next

LEMMA Invariance == Spec => []IInv
  BY InitIInv, NextIInv, PTL DEF Spec

-----------------------------------------------------------------------------
(* One object is allocated, and every thread that returns gets it.          *)
THEOREM OneInstanceForAll == Spec => []OneInstance
<1>1. IInv => OneInstance
  BY DEF IInv, Publication, Results, OneInstance
<1>. QED  BY <1>1, Invariance, PTL

(* A thread that took the semaphore gets a complete object.                 *)
THEOREM WaitersAlwaysGetComplete == Spec => []WaitersGetComplete
<1>1. IInv => WaitersGetComplete
  BY DEF IInv, Results, WaitersGetComplete
<1>. QED  BY <1>1, Invariance, PTL

(* A thread that did not take it can print an incomplete object, but only   *)
(* while another one is initializing it.                                    *)
THEOREM WindowOfFirstCheck == Spec => IncompleteOnlyMeanwhile
<1>. DEFINE Step == \A t \in Threads : pc[t] = "print" /\ pc'[t] = "done" /\ ~Complete =>
                      \E u \in Threads \ {t} : pc[u] = "init"
<1>1. IInv => Step
  BY DEF IInv, TypeOK, Publication
<1>. QED  BY <1>1, Invariance, PTL DEF Spec, IncompleteOnlyMeanwhile

-----------------------------------------------------------------------------
(* The responders of ex06 (XenomaiResponder) *)

MCNext == ThreadStep \/ TaskStep \/ ResponderStep

LEMMA ResponderSteps == [MCNext]_programVars => [Responders!Next]_responderVars
  BY DEF MCNext, ThreadStep, TaskStep, ResponderStep, programVars

Cpus == 0..3
Ran  == [began : Nat, ended : Nat]

ResponderType ==
  /\ now \in Nat /\ mainCpu \in Cpus
  /\ task \in [Cpus -> {"created", "started", "spinning", "deleted"}]
  /\ endTime \in [Cpus -> Nat] /\ ran \in [Cpus -> Ran]

(* A responder that has not just begun spins at most one tick beyond its     *)
(* end, which is that of its duration unless a long does not hold it.        *)
InTimeSoFar(c) ==
  /\ ran[c].began <= now /\ ran[c].ended <= now
  /\ task[c] = "spinning" =>
       /\ now = ran[c].began \/ now <= endTime[c] + 1
       /\ endTime[c] <= ran[c].began + duration
       /\ ran[c].began + duration < LongModulus => endTime[c] = ran[c].began + duration
  /\ task[c] = "deleted" =>
       ran[c].ended = ran[c].began + duration + 1 \/ ran[c].began + duration >= LongModulus

AfterMain(c) ==
  c > mainCpu /\ task[c] # "created" =>
    /\ task[mainCpu] = "deleted"
    /\ task[c] # "started" => ran[c].began >= ran[mainCpu].ended

ResponderInv == ResponderType /\ \A c \in Cpus : InTimeSoFar(c) /\ AfterMain(c)

(* What is cut to the width of a long.                                      *)
LEMMA CutFacts ==
  ASSUME NEW n \in Nat
  PROVE  Responders!Cut(n) \in Nat /\ Responders!Cut(n) <= n /\ (n < LongModulus => Responders!Cut(n) = n)
  BY ThreadsAssumption DEF Responders!Cut

LEMMA ResponderNext == ResponderInv /\ [Responders!Next]_responderVars => ResponderInv'
<1>. SUFFICES ASSUME ResponderInv, [Responders!Next]_responderVars PROVE ResponderInv'
  OBVIOUS
<1>t. ResponderType
  BY DEF ResponderInv
<1>. USE DEF Cpus, Responders!CPUs
<1>1. ASSUME NEW c \in Cpus, Responders!rt_task_start(c) PROVE ResponderInv'
  <2>1. task' = [task EXCEPT ![c] = "started"] /\ task[c] = "created" /\ UNCHANGED <<now, mainCpu, endTime, ran>>
    BY <1>1 DEF Responders!rt_task_start
  <2>2. ResponderType'
    BY <1>t, <2>1 DEF ResponderType
  <2>3. \A d \in Cpus : InTimeSoFar(d)'
    BY <1>t, <2>1 DEF ResponderInv, ResponderType, InTimeSoFar
  <2>4. c > mainCpu => task[mainCpu] = "deleted"
    BY <1>1, <1>t DEF ResponderType, Responders!rt_task_start, Responders!Linux, Responders!Spins
  <2>5. \A d \in Cpus : AfterMain(d)'
    BY <1>t, <2>1, <2>4 DEF ResponderInv, ResponderType, AfterMain
  <2>. QED  BY <2>2, <2>3, <2>5 DEF ResponderInv
<1>2. ASSUME NEW c \in Cpus, Responders!Begins(c) PROVE ResponderInv'
  <2>. DEFINE end == Responders!Cut(now + Responders!Cut(duration))
  <2>1. /\ task' = [task EXCEPT ![c] = "spinning"] /\ task[c] = "started" /\ UNCHANGED <<now, mainCpu>>
        /\ endTime' = [endTime EXCEPT ![c] = end] /\ ran' = [ran EXCEPT ![c].began = now]
    BY <1>2 DEF Responders!Begins
  <2>2. end \in Nat /\ end <= now + duration /\ (now + duration < LongModulus => end = now + duration)
    <3>. DEFINE d == Responders!Cut(duration)
    <3>1. d \in Nat /\ d <= duration /\ (duration < LongModulus => d = duration) /\ duration \in Nat /\ now \in Nat
      BY <1>t, CutFacts, ThreadsAssumption DEF ResponderType
    <3>2. now + d \in Nat
      BY <3>1
    <3>. HIDE DEF d
    <3>3. end \in Nat /\ end <= now + d /\ (now + d < LongModulus => end = now + d)
      BY <3>2, CutFacts DEF d
    <3>. HIDE DEF end
    <3>. QED  BY <3>1, <3>3, ThreadsAssumption
  <2>. HIDE DEF end
  <2>3. /\ ran'[c].began = now /\ ran'[c].ended = ran[c].ended /\ ran' \in [Cpus -> Ran]
        /\ \A d \in Cpus \ {c} : ran'[d] = ran[d]
    BY <1>t, <2>1 DEF ResponderType, Ran
  <2>4. ResponderType'
    BY <1>t, <2>1, <2>2, <2>3 DEF ResponderType
  <2>5. \A d \in Cpus : InTimeSoFar(d)'
    <3>1. InTimeSoFar(c)'
      BY <1>t, <2>1, <2>2, <2>3 DEF ResponderInv, ResponderType, InTimeSoFar
    <3>2. \A d \in Cpus \ {c} : InTimeSoFar(d)'
      BY <1>t, <2>1, <2>3 DEF ResponderInv, ResponderType, InTimeSoFar
    <3>. QED  BY <3>1, <3>2
  <2>6. \A d \in Cpus : AfterMain(d)'
    BY <1>t, <2>1, <2>3 DEF ResponderInv, ResponderType, AfterMain, InTimeSoFar
  <2>. QED  BY <2>4, <2>5, <2>6 DEF ResponderInv
<1>3. ASSUME NEW c \in Cpus, Responders!rt_task_delete(c) PROVE ResponderInv'
  <2>1. /\ task' = [task EXCEPT ![c] = "deleted"] /\ task[c] = "spinning" /\ now > endTime[c]
        /\ UNCHANGED <<now, mainCpu, endTime>> /\ ran' = [ran EXCEPT ![c].ended = now]
    BY <1>3 DEF Responders!rt_task_delete, Responders!Expired
  <2>3. /\ ran'[c].ended = now /\ ran'[c].began = ran[c].began /\ ran' \in [Cpus -> Ran]
        /\ \A d \in Cpus \ {c} : ran'[d] = ran[d]
    BY <1>t, <2>1 DEF ResponderType, Ran
  <2>4. ResponderType'
    BY <1>t, <2>1, <2>3 DEF ResponderType
  <2>5. \A d \in Cpus : InTimeSoFar(d)'
    <3>1. InTimeSoFar(c)'
      <4>1. ran[c].began \in Nat /\ endTime[c] \in Nat /\ now \in Nat
        BY <1>t DEF ResponderType, Ran
      <4>. QED  BY <1>t, <2>1, <2>3, <4>1, ThreadsAssumption DEF ResponderInv, ResponderType, InTimeSoFar
    <3>2. \A d \in Cpus \ {c} : InTimeSoFar(d)'
      BY <1>t, <2>1, <2>3 DEF ResponderInv, ResponderType, InTimeSoFar
    <3>. QED  BY <3>1, <3>2
  <2>6. \A d \in Cpus : AfterMain(d)'
    BY <1>t, <2>1, <2>3 DEF ResponderInv, ResponderType, AfterMain
  <2>. QED  BY <2>4, <2>5, <2>6 DEF ResponderInv
<1>4. CASE Responders!Tick
  <2>1. now' = now + 1 /\ UNCHANGED <<mainCpu, task, endTime, ran>>
        /\ \A c \in Cpus : task[c] = "spinning" => now <= endTime[c]
    BY <1>4, <1>t DEF Responders!Tick, Responders!Expired, ResponderType
  <2>2. ResponderType'
    BY <1>t, <2>1 DEF ResponderType
  <2>3. \A c \in Cpus : InTimeSoFar(c)'
    BY <1>t, <2>1 DEF ResponderInv, ResponderType, InTimeSoFar, Ran
  <2>4. \A c \in Cpus : AfterMain(c)'
    BY <2>1 DEF ResponderInv, AfterMain
  <2>. QED  BY <2>2, <2>3, <2>4 DEF ResponderInv
<1>5. CASE UNCHANGED responderVars
  BY <1>5 DEF responderVars, ResponderInv, ResponderType, InTimeSoFar, AfterMain
<1>. QED  BY <1>1, <1>2, <1>3, <1>4, <1>5 DEF Responders!Next, Responders!brttResponder

LEMMA ResponderInit == Responders!Init => ResponderInv
<1>. SUFFICES ASSUME Responders!Init PROVE ResponderInv
  OBVIOUS
<1>. USE DEF Responders!Init, Cpus, Responders!CPUs
<1>1. ran \in [Cpus -> Ran] /\ \A c \in Cpus : ran[c].began = 0 /\ ran[c].ended = 0
  BY DEF Ran
<1>. QED  BY <1>1 DEF ResponderInv, ResponderType, InTimeSoFar, AfterMain

LEMMA RespondersInTime == ResponderInv => Responders!DeletedInTime
<1>. SUFFICES ASSUME ResponderInv, NEW c \in Cpus
              PROVE  /\ task[c] = "spinning" => now <= ran[c].began + duration + 1
                     /\ task[c] = "deleted" =>
                          ran[c].ended = ran[c].began + duration + 1 \/ ran[c].began + duration >= LongModulus
                     /\ c > mainCpu /\ task[c] \in {"spinning", "deleted"} =>
                          task[mainCpu] = "deleted" /\ ran[c].began >= ran[mainCpu].ended
  BY DEF Responders!DeletedInTime, Cpus, Responders!CPUs
<1>1. ran[c].began \in Nat /\ endTime[c] \in Nat /\ now \in Nat /\ duration \in Nat
  BY ThreadsAssumption DEF ResponderInv, ResponderType, Ran
<1>2. InTimeSoFar(c) /\ AfterMain(c)
  BY DEF ResponderInv
<1>. QED  BY <1>1, <1>2 DEF InTimeSoFar, AfterMain

-----------------------------------------------------------------------------
(* The tasks of ex07 (XenomaiTasks) with one resource *)


LEMMA TaskSteps == [MCNext]_programVars => [Xenomai!Next]_taskVars
  BY DEF MCNext, ThreadStep, TaskStep, ResponderStep, programVars

Tasks     == {"main", "L", "M", "H"}
Exclusive == {"TaskB", "TaskC"}   \* the exercises with one resource

LEMMA Appended ==
  ASSUME NEW S, NEW q \in Seq(S), NEW c \in S, NEW r \in Seq(S), Len(r) = Len(q) + 1,
         \A i \in 1..Len(q) : r[i] = q[i], r[Len(r)] = c
  PROVE  q \o <<c>> = r
<1>1. <<c>> \in Seq(S) /\ Len(<<c>>) = 1 /\ <<c>>[1] = c /\ Len(q) \in Nat
  BY LenProperties
<1>2. /\ q \o <<c>> \in Seq(S) /\ Len(q \o <<c>>) = Len(q) + 1
      /\ \A i \in 1..(Len(q) + 1) : (q \o <<c>>)[i] = IF i <= Len(q) THEN q[i] ELSE <<c>>[i - Len(q)]
  BY <1>1, ConcatProperties
<1>3. \A i \in 1..Len(q \o <<c>>) : (q \o <<c>>)[i] = r[i]
  BY <1>1, <1>2
<1>. QED  BY <1>1, <1>2, <1>3, SeqEqual

LEMMA Concat2 == ASSUME NEW a, NEW c PROVE <<a>> \o <<c>> = <<a, c>>
<1>. DEFINE S == {a, c}  q == <<a>>  r == <<a, c>>
<1>1. q \in Seq(S) /\ r \in Seq(S) /\ Len(q) = 1 /\ Len(r) = 2 /\ q[1] = a /\ r[1] = a /\ r[2] = c /\ c \in S
  OBVIOUS
<1>. HIDE DEF S, q, r
<1>2. q \o <<c>> = r
  <2>1. Len(r) = Len(q) + 1 /\ (\A i \in 1..Len(q) : r[i] = q[i]) /\ r[Len(r)] = c
    BY <1>1
  <2>2. q \in Seq(S) /\ r \in Seq(S) /\ c \in S
    BY <1>1
  <2>. QED  BY <2>1, <2>2, Appended
<1>. QED  BY <1>2 DEF q, r

LEMMA Concat3 == ASSUME NEW a, NEW c, NEW d PROVE (<<a>> \o <<c>>) \o <<d>> = <<a, c, d>>
<1>. DEFINE S == {a, c, d}  q == <<a, c>>  r == <<a, c, d>>
<1>1. /\ q \in Seq(S) /\ r \in Seq(S) /\ Len(q) = 2 /\ Len(r) = 3 /\ d \in S
      /\ q[1] = a /\ q[2] = c /\ r[1] = a /\ r[2] = c /\ r[3] = d
  OBVIOUS
<1>. HIDE DEF S, q, r
<1>2. q \o <<d>> = r
  <2>1. Len(r) = Len(q) + 1 /\ (\A i \in 1..Len(q) : r[i] = q[i]) /\ r[Len(r)] = d
    BY <1>1
  <2>2. q \in Seq(S) /\ r \in Seq(S) /\ d \in S
    BY <1>1
  <2>. QED  BY <2>1, <2>2, Appended
<1>. QED  BY <1>2, Concat2 DEF q, r

LEMMA Concat4 == ASSUME NEW a, NEW c, NEW d, NEW e PROVE (<<a, c>> \o <<d>>) \o <<e>> = <<a, c, d, e>>
<1>. DEFINE S == {a, c, d, e}  q == <<a, c, d>>  r == <<a, c, d, e>>
<1>1. /\ q \in Seq(S) /\ r \in Seq(S) /\ Len(q) = 3 /\ Len(r) = 4 /\ e \in S
      /\ q[1] = a /\ q[2] = c /\ q[3] = d /\ r[1] = a /\ r[2] = c /\ r[3] = d /\ r[4] = e
  OBVIOUS
<1>. HIDE DEF S, q, r
<1>2. q \o <<e>> = r
  <2>1. Len(r) = Len(q) + 1 /\ (\A i \in 1..Len(q) : r[i] = q[i]) /\ r[Len(r)] = e
    BY <1>1
  <2>2. q \in Seq(S) /\ r \in Seq(S) /\ e \in S
    BY <1>1
  <2>. QED  BY <2>1, <2>2, Appended
<1>3. <<a, c>> \o <<d>> = <<a, c, d>>
  BY Concat2, Concat3, ZenonT(60)
<1>. QED  BY <1>2, <1>3 DEF q, r

(* The calls of the two exercises, which differ in what guards the resource. *)
LEMMA Programs ==
  ASSUME NEW e \in Exclusive
  PROVE  /\ Xenomai!Program[e]["main"] = <<<<"usleep", 1>>, <<"broadcast">>, <<"usleep", 1>>, <<"delete">>, <<"exit">>>>
         /\ Xenomai!Program[e]["L"] = <<<<"acquire", "A">>, <<"busy", 3>>, <<"release", "A">>>>
         /\ Xenomai!Program[e]["M"] = <<<<"sleep", 1>>, <<"busy", 5>>>>
         /\ Xenomai!Program[e]["H"] = <<<<"sleep", 2>>, <<"acquire", "A">>, <<"busy", 2>>, <<"release", "A">>>>
<1>1. Xenomai!SectionL = <<<<"acquire", "A">>, <<"busy", 3>>, <<"release", "A">>>>
  BY Concat3 DEF Xenomai!SectionL, Xenomai!busy_wait
<1>2. Xenomai!thread_m = <<<<"sleep", 1>>, <<"busy", 5>>>>
  BY Concat2 DEF Xenomai!thread_m, Xenomai!busy_wait
<1>3. Xenomai!SectionH = <<<<"sleep", 2>>, <<"acquire", "A">>, <<"busy", 2>>, <<"release", "A">>>>
  BY Concat4 DEF Xenomai!SectionH, Xenomai!busy_wait
<1>4. Xenomai!main(1) = <<<<"usleep", 1>>, <<"broadcast">>, <<"usleep", 1>>, <<"delete">>, <<"exit">>>>
  BY DEF Xenomai!main
<1>5. Xenomai!Program[e] = [main |-> Xenomai!main(1), L |-> Xenomai!SectionL,
                            M |-> Xenomai!thread_m, H |-> Xenomai!SectionH]
  BY DEF Xenomai!Program, Exclusive
<1>. QED  BY <1>1, <1>2, <1>3, <1>4, <1>5

(* Who may be at which call.                                                *)
Where(t) ==
  /\ Xenomai!At(t, "acquire") <=> (t = "L" /\ calls[t] = 1) \/ (t = "H" /\ calls[t] = 2)
  /\ Xenomai!At(t, "busy")    <=> (t \in {"L", "M"} /\ calls[t] = 2) \/ (t = "H" /\ calls[t] = 3)
  /\ Xenomai!At(t, "release") <=> (t = "L" /\ calls[t] = 3) \/ (t = "H" /\ calls[t] = 4)
  /\ Xenomai!At(t, "sleep")   <=> t \in {"M", "H"} /\ calls[t] = 1
  /\ Xenomai!At(t, "usleep")  <=> t = "main" /\ calls[t] \in {1, 3}
  /\ Xenomai!At(t, "broadcast") \/ Xenomai!At(t, "delete") <=> t = "main" /\ calls[t] \in {2, 4}
  /\ Xenomai!At(t, "exit")    <=> t = "main" /\ calls[t] = 5
  /\ ~Xenomai!At(t, "inquire") /\ ~Xenomai!At(t, "set") /\ ~Xenomai!At(t, "restore") /\ ~Xenomai!At(t, "p")
  /\ Xenomai!At(t, "acquire") \/ Xenomai!At(t, "release") => Xenomai!Call(t)[2] = "A"
  /\ Xenomai!At(t, "busy") => Xenomai!Call(t)[2] = (IF t = "L" THEN 3 ELSE IF t = "M" THEN 5 ELSE 2)
  /\ Xenomai!At(t, "sleep") \/ Xenomai!At(t, "usleep") => Xenomai!Call(t)[2] \in Nat

LEMMA WhereTasksAre ==
  ASSUME exercise \in Exclusive, NEW t \in Tasks, calls[t] \in 1..6
  PROVE  Where(t)
<1>. USE DEF Xenomai!At, Xenomai!Call, Xenomai!Finished, Where
<1>1. CASE t = "main"
  <2>. DEFINE P == <<<<"usleep", 1>>, <<"broadcast">>, <<"usleep", 1>>, <<"delete">>, <<"exit">>>>
  <2>1. Xenomai!Program[exercise][t] = P
    BY <1>1, Programs
  <2>2. /\ Len(P) = 5 /\ P[1] = <<"usleep", 1>> /\ P[2] = <<"broadcast">> /\ P[3] = <<"usleep", 1>>
        /\ P[4] = <<"delete">> /\ P[5] = <<"exit">>
    OBVIOUS
  <2>. HIDE DEF P
  <2>. QED  BY <1>1, <2>1, <2>2
<1>2. CASE t = "L"
  <2>. DEFINE P == <<<<"acquire", "A">>, <<"busy", 3>>, <<"release", "A">>>>
  <2>1. Xenomai!Program[exercise][t] = P
    BY <1>2, Programs
  <2>2. Len(P) = 3 /\ P[1] = <<"acquire", "A">> /\ P[2] = <<"busy", 3>> /\ P[3] = <<"release", "A">>
    OBVIOUS
  <2>. HIDE DEF P
  <2>. QED  BY <1>2, <2>1, <2>2
<1>3. CASE t = "M"
  <2>. DEFINE P == <<<<"sleep", 1>>, <<"busy", 5>>>>
  <2>1. Xenomai!Program[exercise][t] = P
    BY <1>3, Programs
  <2>2. Len(P) = 2 /\ P[1] = <<"sleep", 1>> /\ P[2] = <<"busy", 5>>
    OBVIOUS
  <2>. HIDE DEF P
  <2>. QED  BY <1>3, <2>1, <2>2
<1>4. CASE t = "H"
  <2>. DEFINE P == <<<<"sleep", 2>>, <<"acquire", "A">>, <<"busy", 2>>, <<"release", "A">>>>
  <2>1. Xenomai!Program[exercise][t] = P
    BY <1>4, Programs
  <2>2. Len(P) = 4 /\ P[1] = <<"sleep", 2>> /\ P[2] = <<"acquire", "A">> /\ P[3] = <<"busy", 2>>
        /\ P[4] = <<"release", "A">>
    OBVIOUS
  <2>. HIDE DEF P
  <2>. QED  BY <1>4, <2>1, <2>2
<1>. QED  BY <1>1, <1>2, <1>3, <1>4 DEF Tasks

(* The calls of a task that are behind it have taken their time.            *)
Section == IF calls["L"] = 1 THEN 0 ELSE IF calls["L"] = 2 THEN spent["L"] ELSE 3
Disturb == IF calls["M"] = 1 THEN 0 ELSE IF calls["M"] = 2 THEN spent["M"] ELSE 5

TaskType ==
  /\ calls \in [Tasks -> 1..6] /\ spent \in [Tasks -> Nat] /\ wake \in [Tasks -> Nat]
  /\ secondary \in BOOLEAN /\ waiting \in [Tasks -> {"nothing", "A"}]
  /\ owner \in [Xenomai!Resources -> Tasks \cup {"nobody"}]
  /\ clock \in Nat /\ jitter \in Nat /\ waitedH \in Nat

(* L and H alone take the resource, and hold it just between their calls;   *)
(* who waits for it waits for the other.                                    *)
Ownership ==
  /\ owner["A"] \in {"nobody", "L", "H"}
  /\ owner["A"] = "L" <=> calls["L"] \in {2, 3}
  /\ owner["A"] = "H" <=> calls["H"] \in {3, 4}
  /\ waiting["main"] = "nothing" /\ waiting["M"] = "nothing"
  /\ waiting["L"] = "A" => calls["L"] = 1 /\ owner["A"] = "H"
  /\ waiting["H"] = "A" => calls["H"] = 2 /\ owner["A"] = "L"

(* L never sleeps; nobody changes a priority.                               *)
Undisturbed ==
  /\ wake["L"] = 0 /\ \A t \in Tasks : bprio[t] = Xenomai!priority[t]
  /\ (calls["L"] = 1 => spent["L"] = 0) /\ (calls["L"] = 2 => spent["L"] <= 3)
  /\ (calls["M"] = 1 => spent["M"] = 0) /\ (calls["M"] = 2 => spent["M"] <= 5)

(* H has waited for what L and M spent meanwhile, M behind a semaphore only. *)
Bounded ==
  /\ exercise = "TaskC" => waitedH <= Section + jitter
  /\ exercise = "TaskB" => waitedH <= Section + Disturb + jitter

Kept    == TaskType /\ Ownership /\ Undisturbed /\ Bounded
TaskInv == exercise \in Exclusive => Kept

LEMMA CallNext ==
  ASSUME TaskType, NEW t \in Tasks, Xenomai!Next1(t), calls[t] \in 1..5
  PROVE  calls' \in [Tasks -> 1..6] /\ \A u \in Tasks : calls'[u] = IF u = t THEN calls[u] + 1 ELSE calls[u]
<1>1. calls \in [Tasks -> 1..6]
  BY DEF TaskType
<1>2. calls' = [calls EXCEPT ![t] = calls[t] + 1]
  BY DEF Xenomai!Next1
<1>3. calls[t] + 1 \in 1..6
  OBVIOUS
<1>. QED  BY <1>1, <1>2, <1>3

(* What a task does that leaves the resource alone: L comes out of its      *)
(* section after 3 units, M after 5.                                        *)
Goes(t) ==
  /\ UNCHANGED <<exercise, waiting, owner, bprio, clock, jitter, waitedH>>
  /\ calls' \in [Tasks -> 1..6] /\ spent' \in [Tasks -> Nat] /\ wake' \in [Tasks -> Nat] /\ secondary' \in BOOLEAN
  /\ wake'["L"] = wake["L"]
  /\ \A u \in Tasks : calls'[u] = IF u = t THEN calls[u] + 1 ELSE calls[u]
  /\ \A u \in Tasks \ {t} : spent'[u] = spent[u]
  /\ \/ t = "main"
     \/ t = "L" /\ calls["L"] = 2 /\ spent["L"] = 3
     \/ t = "M" /\ calls["M"] = 1 /\ spent'["M"] = spent["M"]
     \/ t = "M" /\ calls["M"] = 2 /\ spent["M"] = 5
     \/ t = "H" /\ calls["H"] \in {1, 3}

(* The bound holds on when nobody has spent less.                           *)
LEMMA BoundKept ==
  ASSUME Bounded, Section \in Nat, Section' \in Nat, Disturb \in Nat, Disturb' \in Nat,
         Section' >= Section, Disturb' >= Disturb, jitter \in Nat, waitedH \in Nat,
         exercise' = exercise, jitter' = jitter, waitedH' = waitedH
  PROVE  Bounded'
<1>. DEFINE S == Section  SS == Section'  D == Disturb  DD == Disturb'
<1>1. /\ exercise = "TaskC" => waitedH <= S + jitter
      /\ exercise = "TaskB" => waitedH <= S + D + jitter
      /\ S \in Nat /\ SS \in Nat /\ D \in Nat /\ DD \in Nat /\ SS >= S /\ DD >= D
  BY DEF Bounded
<1>2. Bounded' <=> /\ exercise = "TaskC" => waitedH <= SS + jitter
                   /\ exercise = "TaskB" => waitedH <= SS + DD + jitter
  BY DEF Bounded
<1>. HIDE DEF S, SS, D, DD
<1>. QED  BY <1>1, <1>2

LEMMA GoesKeep ==
  ASSUME Kept, NEW t \in Tasks, Goes(t)
  PROVE  Kept'
<1>1. TaskType'
  BY DEF Kept, TaskType, Goes
<1>2. /\ calls["L"] \in 1..6 /\ calls["M"] \in 1..6 /\ calls["H"] \in 1..6
      /\ spent["L"] \in Nat /\ spent["M"] \in Nat /\ jitter \in Nat /\ waitedH \in Nat
  BY DEF Kept, TaskType, Tasks
<1>3. /\ calls'["L"] = IF t = "L" THEN calls["L"] + 1 ELSE calls["L"]
      /\ calls'["M"] = IF t = "M" THEN calls["M"] + 1 ELSE calls["M"]
      /\ calls'["H"] = IF t = "H" THEN calls["H"] + 1 ELSE calls["H"]
  BY DEF Tasks, Goes
<1>4. Ownership /\ Undisturbed /\ Bounded
  BY DEF Kept
<1>5. /\ t # "L" => spent'["L"] = spent["L"]
      /\ t # "M" => spent'["M"] = spent["M"]
  BY DEF Tasks, Goes
<1>6. /\ t = "L" => calls["L"] = 2 /\ spent["L"] = 3
      /\ t = "M" => \/ calls["M"] = 1 /\ spent'["M"] = spent["M"]
                    \/ calls["M"] = 2 /\ spent["M"] = 5
      /\ t = "H" => calls["H"] \in {1, 3}
      /\ wake'["L"] = wake["L"] /\ bprio' = bprio
      /\ exercise' = exercise /\ jitter' = jitter /\ waitedH' = waitedH
  BY DEF Goes
<1>7. Ownership'
  <2>1. owner'["A"] = owner["A"] /\ waiting' = waiting
    BY DEF Goes
  <2>2. (calls["L"] \in {2, 3} <=> calls'["L"] \in {2, 3}) /\ (calls["L"] = 1 => calls'["L"] = 1)
    BY <1>2, <1>3, <1>6
  <2>3. /\ calls["H"] = 3 \/ calls["H"] = 4 <=> calls'["H"] = 3 \/ calls'["H"] = 4
        /\ calls["H"] = 2 => calls'["H"] = 2
    BY <1>2, <1>3, <1>6
  <2>. QED  BY <1>4, <2>1, <2>2, <2>3 DEF Ownership
<1>8. Undisturbed'
  <2>1. wake'["L"] = 0 /\ \A u \in Tasks : bprio'[u] = Xenomai!priority[u]
    BY <1>4, <1>6 DEF Undisturbed
  <2>2. (calls'["L"] = 1 => spent'["L"] = 0) /\ (calls'["L"] = 2 => spent'["L"] <= 3)
    BY <1>2, <1>3, <1>4, <1>5, <1>6 DEF Undisturbed
  <2>3. (calls'["M"] = 1 => spent'["M"] = 0) /\ (calls'["M"] = 2 => spent'["M"] <= 5)
    BY <1>2, <1>3, <1>4, <1>5, <1>6 DEF Undisturbed
  <2>. QED  BY <2>1, <2>2, <2>3 DEF Undisturbed
<1>9. Section' >= Section /\ Section \in Nat /\ Section' \in Nat
  BY <1>2, <1>3, <1>4, <1>5, <1>6 DEF Section, Undisturbed
<1>10. Disturb' >= Disturb /\ Disturb \in Nat /\ Disturb' \in Nat
  BY <1>2, <1>3, <1>4, <1>5, <1>6 DEF Disturb, Undisturbed
<1>11. Bounded'
  BY <1>2, <1>4, <1>6, <1>9, <1>10, BoundKept
<1>. QED  BY <1>1, <1>7, <1>8, <1>11 DEF Kept

(* The calls that go on in that way, and those that these programs lack.    *)
LEMMA CallsKeep ==
  ASSUME Kept, exercise \in Exclusive, UNCHANGED exercise, NEW t \in Tasks,
         UNCHANGED <<clock, jitter, waitedH>>,
         \/ Xenomai!Sleep(t) \/ Xenomai!BusyWaitEnds(t) \/ Xenomai!Inquire(t) \/ Xenomai!SetPriority(t)
         \/ Xenomai!SemP(t) \/ Xenomai!SemBroadcast(t) \/ Xenomai!Exit(t)
  PROVE  Kept'
<1>1. TaskType /\ calls[t] \in 1..6
  BY DEF Kept, TaskType
<1>2. Where(t)
  BY <1>1, WhereTasksAre
<1>3. CASE Xenomai!Sleep(t)
  <2>1. /\ Xenomai!At(t, "sleep") \/ Xenomai!At(t, "usleep")
        /\ wake' = [wake EXCEPT ![t] = clock + Xenomai!Call(t)[2]]
        /\ Xenomai!Next1(t)
        /\ UNCHANGED <<spent, waiting, owner, bprio, RestorePriority>>
    BY <1>3 DEF Xenomai!Sleep
  <2>2. secondary' \in BOOLEAN
    BY <1>1, <1>3 DEF Xenomai!Sleep, TaskType
  <2>3. /\ (t \in {"M", "H"} /\ calls[t] = 1) \/ (t = "main" /\ calls[t] \in {1, 3})
        /\ Xenomai!Call(t)[2] \in Nat
    BY <1>2, <2>1 DEF Where
  <2>4. calls' \in [Tasks -> 1..6] /\ \A u \in Tasks : calls'[u] = IF u = t THEN calls[u] + 1 ELSE calls[u]
    BY <1>1, <2>1, <2>3, CallNext
  <2>5. wake' \in [Tasks -> Nat] /\ wake'["L"] = wake["L"]
    <3>. DEFINE d == Xenomai!Call(t)[2]
    <3>1. wake \in [Tasks -> Nat] /\ clock \in Nat /\ d \in Nat /\ wake' = [wake EXCEPT ![t] = clock + d]
      BY <1>1, <2>1, <2>3 DEF TaskType
    <3>2. t # "L"
      BY <2>3
    <3>. HIDE DEF d
    <3>. QED  BY <3>1, <3>2 DEF Tasks
  <2>6. spent' \in [Tasks -> Nat]
    BY <1>1, <2>1 DEF TaskType
  <2>. QED  BY <2>1, <2>2, <2>3, <2>4, <2>5, <2>6, GoesKeep DEF Goes
<1>4. CASE Xenomai!BusyWaitEnds(t)
  <2>1. /\ Xenomai!At(t, "busy") /\ spent[t] = Xenomai!Call(t)[2] /\ spent' = [spent EXCEPT ![t] = 0]
        /\ Xenomai!Next1(t) /\ UNCHANGED <<wake, secondary, waiting, owner, bprio, RestorePriority>>
    BY <1>4 DEF Xenomai!BusyWaitEnds
  <2>2. \/ t = "L" /\ calls["L"] = 2 /\ spent["L"] = 3
        \/ t = "M" /\ calls["M"] = 2 /\ spent["M"] = 5
        \/ t = "H" /\ calls["H"] = 3
    BY <1>2, <2>1 DEF Where
  <2>3. calls' \in [Tasks -> 1..6] /\ \A u \in Tasks : calls'[u] = IF u = t THEN calls[u] + 1 ELSE calls[u]
    BY <1>1, <2>1, <2>2, CallNext
  <2>4. spent' \in [Tasks -> Nat] /\ \A u \in Tasks \ {t} : spent'[u] = spent[u]
    BY <1>1, <2>1 DEF TaskType
  <2>5. wake' \in [Tasks -> Nat] /\ secondary' \in BOOLEAN
    BY <1>1, <2>1 DEF TaskType
  <2>. QED  BY <2>1, <2>2, <2>3, <2>4, <2>5, GoesKeep DEF Goes
<1>5. CASE Xenomai!SemBroadcast(t)
  <2>1. t = "main" /\ calls[t] \in {2, 4}
    BY <1>2, <1>5 DEF Xenomai!SemBroadcast, Where
  <2>2. /\ secondary' = FALSE
        /\ calls' = [u \in Tasks |-> IF u = t \/ waiting[u] = "sem" THEN calls[u] + 1 ELSE calls[u]]
        /\ waiting' = [u \in Tasks |-> IF waiting[u] = "sem" THEN "nothing" ELSE waiting[u]]
        /\ UNCHANGED <<spent, wake, owner, bprio, RestorePriority>>
    BY <1>5 DEF Xenomai!SemBroadcast, Tasks, Xenomai!Tasks, Xenomai!Nothing
  <2>3. \A u \in Tasks : waiting[u] # "sem"
    BY <1>1 DEF TaskType
  <2>4. waiting' = waiting
    BY <1>1, <2>2, <2>3 DEF TaskType
  <2>5. \A u \in Tasks : calls'[u] = IF u = t THEN calls[u] + 1 ELSE calls[u]
    BY <2>2, <2>3
  <2>6. calls' \in [Tasks -> 1..6]
    <3>1. calls' = [u \in Tasks |-> IF u = t THEN calls[u] + 1 ELSE calls[u]]
      BY <2>2, <2>3
    <3>2. \A u \in Tasks : calls[u] \in 1..6
      BY <1>1 DEF TaskType
    <3>3. \A u \in Tasks : (IF u = t THEN calls[u] + 1 ELSE calls[u]) \in 1..6
      BY <2>1, <3>2
    <3>. QED  BY <3>1, <3>3
  <2>7. spent' \in [Tasks -> Nat] /\ wake' \in [Tasks -> Nat]
    BY <1>1, <2>2 DEF TaskType
  <2>. QED  BY <2>1, <2>2, <2>4, <2>5, <2>6, <2>7, GoesKeep DEF Goes
<1>6. CASE Xenomai!Exit(t)
  <2>1. /\ t = "main" /\ calls[t] = 5 /\ Xenomai!Next1(t)
        /\ UNCHANGED <<spent, wake, secondary, waiting, owner, bprio, RestorePriority>>
    BY <1>2, <1>6 DEF Xenomai!Exit, Where
  <2>2. calls' \in [Tasks -> 1..6] /\ \A u \in Tasks : calls'[u] = IF u = t THEN calls[u] + 1 ELSE calls[u]
    BY <1>1, <2>1, CallNext
  <2>3. spent' \in [Tasks -> Nat] /\ wake' \in [Tasks -> Nat] /\ secondary' \in BOOLEAN
    BY <1>1, <2>1 DEF TaskType
  <2>. QED  BY <2>1, <2>2, <2>3, GoesKeep DEF Goes
<1>7. ~Xenomai!Inquire(t) /\ ~Xenomai!SetPriority(t) /\ ~Xenomai!SemP(t)
  BY <1>2 DEF Where, Xenomai!Inquire, Xenomai!SetPriority, Xenomai!SemP
<1>. QED  BY <1>3, <1>4, <1>5, <1>6, <1>7

(* What takes the resource, waits for it or hands it over spends nothing,   *)
(* and L is not taken out of its busy wait.                                 *)
Takes ==
  /\ UNCHANGED <<exercise, spent, wake, secondary, bprio, clock, jitter, waitedH>>
  /\ calls' \in [Tasks -> 1..6] /\ waiting' \in [Tasks -> {"nothing", "A"}]
  /\ owner' \in [Xenomai!Resources -> Tasks \cup {"nobody"}]
  /\ \A u \in {"main", "M"} : calls'[u] = calls[u] /\ waiting'[u] = waiting[u]
  /\ calls'["L"] = calls["L"] \/ calls'["L"] = calls["L"] + 1
  /\ calls["L"] = 2 => calls'["L"] = 2
  /\ Ownership'

LEMMA TakesKeep ==
  ASSUME Kept, Takes
  PROVE  Kept'
<1>1. TaskType'
  BY DEF Kept, TaskType, Takes
<1>2. /\ calls["L"] \in 1..6 /\ calls["M"] \in 1..6 /\ calls["H"] \in 1..6
      /\ spent["L"] \in Nat /\ spent["M"] \in Nat /\ jitter \in Nat /\ waitedH \in Nat
  BY DEF Kept, TaskType, Tasks
<1>3. Ownership /\ Undisturbed /\ Bounded
  BY DEF Kept
<1>4. /\ calls'["M"] = calls["M"] /\ (calls'["L"] = calls["L"] \/ calls'["L"] = calls["L"] + 1)
      /\ calls["L"] = 2 => calls'["L"] = 2
      /\ spent' = spent /\ wake' = wake /\ bprio' = bprio
      /\ exercise' = exercise /\ jitter' = jitter /\ waitedH' = waitedH
  BY DEF Takes
<1>5. Undisturbed'
  BY <1>2, <1>3, <1>4 DEF Undisturbed
<1>6. Section' >= Section /\ Section \in Nat /\ Section' \in Nat
  BY <1>2, <1>3, <1>4 DEF Section, Undisturbed
<1>7. Disturb' >= Disturb /\ Disturb \in Nat /\ Disturb' \in Nat
  BY <1>2, <1>3, <1>4 DEF Disturb, Undisturbed
<1>8. Bounded'
  BY <1>2, <1>3, <1>4, <1>6, <1>7, BoundKept
<1>. QED  BY <1>1, <1>5, <1>8 DEF Kept, Takes

LEMMA AcquireKeeps ==
  ASSUME Kept, exercise \in Exclusive, UNCHANGED exercise, NEW t \in Tasks, waiting[t] = "nothing",
         UNCHANGED <<clock, jitter, waitedH>>, Xenomai!Acquire(t)
  PROVE  Kept'
<1>1. TaskType /\ Ownership /\ calls[t] \in 1..6
  BY DEF Kept, TaskType
<1>2. Where(t)
  BY <1>1, WhereTasksAre
<1>3. (t = "L" /\ calls["L"] = 1) \/ (t = "H" /\ calls["H"] = 2)
  BY <1>2 DEF Xenomai!Acquire, Where
<1>4. Xenomai!Call(t)[2] = "A"
  BY <1>2 DEF Xenomai!Acquire, Where
<1>5. UNCHANGED <<spent, wake, secondary, bprio, RestorePriority>>
  BY DEF Xenomai!Acquire
<1>6. \/ /\ owner["A"] = "nobody" /\ owner' = [owner EXCEPT !["A"] = t]
         /\ Xenomai!Next1(t) /\ waiting' = waiting
      \/ /\ owner["A"] # "nobody" /\ waiting' = [waiting EXCEPT ![t] = "A"]
         /\ owner' = owner /\ calls' = calls
  BY <1>4 DEF Xenomai!Acquire, Xenomai!NoOne
<1>7. owner \in [Xenomai!Resources -> Tasks \cup {"nobody"}] /\ "A" \in Xenomai!Resources
  BY <1>1 DEF TaskType, Xenomai!Resources
<1>8. waiting \in [Tasks -> {"nothing", "A"}] /\ calls \in [Tasks -> 1..6]
  BY <1>1 DEF TaskType
<1>9. CASE owner["A"] = "nobody"
  <2>1. owner' = [owner EXCEPT !["A"] = t] /\ Xenomai!Next1(t) /\ waiting' = waiting
    BY <1>6, <1>9
  <2>2. calls' \in [Tasks -> 1..6] /\ \A u \in Tasks : calls'[u] = IF u = t THEN calls[u] + 1 ELSE calls[u]
    BY <1>1, <1>3, <2>1, CallNext
  <2>3. /\ calls'["L"] = IF t = "L" THEN calls["L"] + 1 ELSE calls["L"]
        /\ calls'["M"] = calls["M"] /\ calls'["main"] = calls["main"]
        /\ calls'["H"] = IF t = "H" THEN calls["H"] + 1 ELSE calls["H"]
    BY <1>3, <2>2 DEF Tasks
  <2>4. owner' \in [Xenomai!Resources -> Tasks \cup {"nobody"}] /\ owner'["A"] = t
    BY <1>7, <2>1
  <2>5. Ownership'
    <3>0. calls["L"] \notin {2, 3} /\ calls["H"] \notin {3, 4} /\ waiting["L"] # "A" /\ waiting["H"] # "A"
      BY <1>1, <1>9 DEF Ownership
    <3>1. CASE t = "L"
      <4>1. calls'["L"] = 2 /\ calls'["H"] = calls["H"]
        BY <1>3, <2>3, <3>1
      <4>2. owner'["A"] = "L" /\ waiting' = waiting
        BY <2>1, <2>4, <3>1
      <4>. QED  BY <1>1, <3>0, <4>1, <4>2 DEF Ownership
    <3>2. CASE t = "H"
      <4>1. calls'["H"] = 3 /\ calls'["L"] = calls["L"]
        BY <1>3, <2>3, <3>2
      <4>2. owner'["A"] = "H" /\ waiting' = waiting
        BY <2>1, <2>4, <3>2
      <4>. QED  BY <1>1, <3>0, <4>1, <4>2 DEF Ownership
    <3>. QED  BY <1>3, <3>1, <3>2
  <2>6. /\ calls'["L"] = calls["L"] \/ calls'["L"] = calls["L"] + 1
        /\ calls["L"] = 2 => calls'["L"] = 2
    BY <1>3, <2>3
  <2>. QED  BY <1>5, <1>8, <2>1, <2>2, <2>3, <2>4, <2>5, <2>6, TakesKeep DEF Takes
<1>10. CASE owner["A"] # "nobody"
  <2>1. waiting' = [waiting EXCEPT ![t] = "A"] /\ owner' = owner /\ calls' = calls
    BY <1>6, <1>10
  <2>2. waiting' \in [Tasks -> {"nothing", "A"}] /\ \A u \in Tasks \ {t} : waiting'[u] = waiting[u]
    BY <1>8, <2>1
  <2>3. \A u \in {"main", "M"} : u \in Tasks \ {t}
    BY <1>3 DEF Tasks
  <2>4. Ownership'
    <3>1. CASE t = "L"
      <4>1. waiting'["H"] = waiting["H"] /\ waiting'["M"] = waiting["M"] /\ waiting'["main"] = waiting["main"]
        BY <2>2, <3>1 DEF Tasks
      <4>2. calls["L"] = 1 /\ calls["H"] \in {3, 4} /\ owner["A"] = "H"
        BY <1>1, <1>3, <1>10, <3>1 DEF Ownership
      <4>3. owner' = owner /\ calls' = calls
        BY <2>1
      <4>. QED  BY <1>1, <4>1, <4>2, <4>3 DEF Ownership
    <3>2. CASE t = "H"
      <4>1. waiting'["L"] = waiting["L"] /\ waiting'["M"] = waiting["M"] /\ waiting'["main"] = waiting["main"]
        BY <2>2, <3>2 DEF Tasks
      <4>2. calls["H"] = 2 /\ calls["L"] \in {2, 3} /\ owner["A"] = "L"
        BY <1>1, <1>3, <1>10, <3>2 DEF Ownership
      <4>3. owner' = owner /\ calls' = calls
        BY <2>1
      <4>. QED  BY <1>1, <4>1, <4>2, <4>3 DEF Ownership
    <3>. QED  BY <1>3, <3>1, <3>2
  <2>. QED  BY <1>5, <1>7, <1>8, <2>1, <2>2, <2>3, <2>4, TakesKeep DEF Takes
<1>. QED  BY <1>9, <1>10

LEMMA ReleaseKeeps ==
  ASSUME Kept, exercise \in Exclusive, UNCHANGED exercise, NEW t \in Tasks,
         UNCHANGED <<clock, jitter, waitedH>>, Xenomai!Release(t)
  PROVE  Kept'
<1>1. TaskType /\ Ownership /\ calls[t] \in 1..6
  BY DEF Kept, TaskType
<1>2. Where(t)
  BY <1>1, WhereTasksAre
<1>3. (t = "L" /\ calls["L"] = 3) \/ (t = "H" /\ calls["H"] = 4)
  BY <1>2 DEF Xenomai!Release, Where
<1>4. Xenomai!Call(t)[2] = "A"
  BY <1>2 DEF Xenomai!Release, Where
<1>5. UNCHANGED <<spent, wake, secondary, bprio, RestorePriority>>
  BY DEF Xenomai!Release
<1>6. owner \in [Xenomai!Resources -> Tasks \cup {"nobody"}] /\ "A" \in Xenomai!Resources
  BY <1>1 DEF TaskType, Xenomai!Resources
<1>7. waiting \in [Tasks -> {"nothing", "A"}] /\ calls \in [Tasks -> 1..6]
  BY <1>1 DEF TaskType
<1>8. CASE /\ \A u \in Tasks : waiting[u] # "A"
           /\ owner' = [owner EXCEPT !["A"] = "nobody"] /\ Xenomai!Next1(t) /\ waiting' = waiting
  <2>1. calls[t] \in 1..5
    BY <1>3
  <2>2. calls' \in [Tasks -> 1..6] /\ \A u \in Tasks : calls'[u] = IF u = t THEN calls[u] + 1 ELSE calls[u]
    BY <1>1, <1>8, <2>1, CallNext
  <2>3. /\ calls'["L"] = IF t = "L" THEN calls["L"] + 1 ELSE calls["L"]
        /\ calls'["M"] = calls["M"] /\ calls'["main"] = calls["main"]
        /\ calls'["H"] = IF t = "H" THEN calls["H"] + 1 ELSE calls["H"]
    BY <1>3, <2>2 DEF Tasks
  <2>4. owner' \in [Xenomai!Resources -> Tasks \cup {"nobody"}] /\ owner'["A"] = "nobody"
    BY <1>6, <1>8
  <2>5. waiting["L"] # "A" /\ waiting["H"] # "A" /\ waiting' = waiting
    BY <1>8 DEF Tasks
  <2>6. Ownership'
    <3>1. CASE t = "L"
      <4>1. calls'["L"] = 4 /\ calls'["H"] = calls["H"]
        BY <1>3, <2>3, <3>1
      <4>2. calls["H"] \notin {3, 4}
        BY <1>1, <1>3, <3>1 DEF Ownership
      <4>3. owner'["A"] = "nobody"
        BY <2>4
      <4>. QED  BY <1>1, <2>5, <4>1, <4>2, <4>3 DEF Ownership
    <3>2. CASE t = "H"
      <4>1. calls'["H"] = 5 /\ calls'["L"] = calls["L"]
        BY <1>3, <2>3, <3>2
      <4>2. calls["L"] \notin {2, 3}
        BY <1>1, <1>3, <3>2 DEF Ownership
      <4>3. owner'["A"] = "nobody"
        BY <2>4
      <4>. QED  BY <1>1, <2>5, <4>1, <4>2, <4>3 DEF Ownership
    <3>. QED  BY <1>3, <3>1, <3>2
  <2>7. /\ calls'["L"] = calls["L"] \/ calls'["L"] = calls["L"] + 1
        /\ calls["L"] = 2 => calls'["L"] = 2
    BY <1>3, <2>3
  <2>. QED  BY <1>5, <1>7, <2>2, <2>3, <2>4, <2>5, <2>6, <2>7, TakesKeep DEF Takes
<1>9. ASSUME NEW u \in Tasks, waiting[u] = "A", owner' = [owner EXCEPT !["A"] = u],
             waiting' = [waiting EXCEPT ![u] = "nothing"], calls' = [calls EXCEPT ![t] = @ + 1, ![u] = @ + 1]
      PROVE  Kept'
  <2>1. \/ t = "L" /\ u = "H" /\ calls["L"] = 3 /\ calls["H"] = 2
        \/ t = "H" /\ u = "L" /\ calls["H"] = 4 /\ calls["L"] = 1
    BY <1>1, <1>3, <1>9 DEF Ownership, Tasks
  <2>2. /\ calls'["L"] = calls["L"] + 1 /\ calls'["H"] = calls["H"] + 1
        /\ calls'["main"] = calls["main"] /\ calls'["M"] = calls["M"]
    <3>1. CASE t = "L" /\ u = "H"
      BY <1>7, <1>9, <3>1 DEF Tasks
    <3>2. CASE t = "H" /\ u = "L"
      BY <1>7, <1>9, <3>2 DEF Tasks
    <3>. QED  BY <2>1, <3>1, <3>2
  <2>3. calls' \in [Tasks -> 1..6]
    <3>1. calls' = [v \in Tasks |-> calls'[v]]
      BY <1>7, <1>9
    <3>2. \A v \in Tasks : calls'[v] \in 1..6
      BY <1>7, <2>1, <2>2 DEF Tasks
    <3>. QED  BY <3>1, <3>2
  <2>4. owner' \in [Xenomai!Resources -> Tasks \cup {"nobody"}] /\ owner'["A"] = u
    BY <1>6, <1>9
  <2>5. /\ waiting' \in [Tasks -> {"nothing", "A"}] /\ waiting'[u] = "nothing"
        /\ \A v \in Tasks \ {u} : waiting'[v] = waiting[v]
    BY <1>7, <1>9
  <2>6. waiting'["M"] = waiting["M"] /\ waiting'["main"] = waiting["main"] /\ waiting'[t] = waiting[t]
    BY <2>1, <2>5 DEF Tasks
  <2>7. waiting[t] # "A"
    BY <1>1, <2>1, <1>9 DEF Ownership
  <2>8. Ownership'
    <3>1. CASE t = "L" /\ u = "H"
      <4>1. calls'["L"] = 4 /\ calls'["H"] = 3
        BY <2>1, <2>2, <3>1
      <4>2. owner'["A"] = "H" /\ waiting'["L"] # "A" /\ waiting'["H"] # "A"
        BY <2>4, <2>5, <2>6, <2>7, <3>1
      <4>. QED  BY <1>1, <2>6, <4>1, <4>2 DEF Ownership
    <3>2. CASE t = "H" /\ u = "L"
      <4>1. calls'["L"] = 2 /\ calls'["H"] = 5
        BY <2>1, <2>2, <3>2
      <4>2. owner'["A"] = "L" /\ waiting'["L"] # "A" /\ waiting'["H"] # "A"
        BY <2>4, <2>5, <2>6, <2>7, <3>2
      <4>. QED  BY <1>1, <2>6, <4>1, <4>2 DEF Ownership
    <3>. QED  BY <2>1, <3>1, <3>2
  <2>9. calls["L"] = 2 => calls'["L"] = 2
    BY <2>1
  <2>10. waiting' \in [Tasks -> {"nothing", "A"}] /\ \A v \in {"main", "M"} : calls'[v] = calls[v] /\ waiting'[v] = waiting[v]
    BY <2>2, <2>5, <2>6
  <2>11. calls'["L"] = calls["L"] \/ calls'["L"] = calls["L"] + 1
    BY <2>2
  <2>12. owner' \in [Xenomai!Resources -> Tasks \cup {"nobody"}]
    BY <2>4
  <2>. QED  BY <1>5, <2>3, <2>8, <2>9, <2>10, <2>11, <2>12, TakesKeep DEF Takes
<1>10. \/ /\ \A u \in Tasks : waiting[u] # "A"
          /\ owner' = [owner EXCEPT !["A"] = "nobody"] /\ Xenomai!Next1(t) /\ waiting' = waiting
       \/ \E u \in Tasks :
            /\ waiting[u] = "A" /\ owner' = [owner EXCEPT !["A"] = u]
            /\ waiting' = [waiting EXCEPT ![u] = "nothing"]
            /\ calls' = [calls EXCEPT ![t] = @ + 1, ![u] = @ + 1]
  BY <1>4 DEF Xenomai!Release, Xenomai!NoOne, Xenomai!Nothing, Tasks, Xenomai!Tasks
<1>. QED  BY <1>8, <1>9, <1>10

-----------------------------------------------------------------------------
(* Time passes *)

LEMMA MaxIs ==
  ASSUME NEW S \in SUBSET Int, NEW x \in S, \A y \in S : y <= x
  PROVE  Xenomai!Max(S) = x
<1>1. \E m \in S : \A y \in S : m >= y
  BY DEF Xenomai!Max
<1>. DEFINE m == Xenomai!Max(S)
<1>2. m \in S /\ \A y \in S : m >= y
  BY <1>1 DEF Xenomai!Max
<1>. HIDE DEF m
<1>3. m \in Int /\ x \in Int /\ m >= x /\ m <= x
  BY <1>2
<1>4. m = x
  BY <1>3
<1>. QED  BY <1>4 DEF m

(* While H waits for L, L has the priority of H if the lock is a mutex; the *)
(* others keep theirs.                                                      *)
LEMMA CurrentPriorities ==
  ASSUME Kept, exercise \in Exclusive, waiting["H"] = "A"
  PROVE  /\ Xenomai!cprio("main") = 99 /\ Xenomai!cprio("M") = 81
         /\ exercise = "TaskB" => Xenomai!cprio("L") = 80
         /\ exercise = "TaskC" => Xenomai!cprio("L") = 82
<1>1. TaskType /\ Ownership /\ Undisturbed
  BY DEF Kept
<1>2. bprio["main"] = 99 /\ bprio["L"] = 80 /\ bprio["M"] = 81 /\ bprio["H"] = 82
  BY <1>1 DEF Undisturbed, Tasks, Xenomai!priority
<1>3. /\ owner["A"] = "L" /\ waiting["main"] = "nothing" /\ waiting["M"] = "nothing"
      /\ waiting["L"] = "nothing"
  <2>1. owner["A"] = "L" /\ waiting["main"] = "nothing" /\ waiting["M"] = "nothing" /\ waiting["L"] # "A"
    BY <1>1 DEF Ownership
  <2>. QED  BY <1>1, <2>1 DEF TaskType, Tasks
<1>4. /\ Xenomai!WaitingFor("main") = {} /\ Xenomai!WaitingFor("M") = {}
      /\ Xenomai!WaitingFor("L") = {"H"}
  BY <1>3 DEF Xenomai!WaitingFor, Xenomai!Tasks, Xenomai!Resources
<1>5. CASE exercise = "TaskB"
  BY <1>2, <1>5 DEF Xenomai!cprio, Xenomai!Inherits
<1>6. CASE exercise = "TaskC"
  <2>1. Xenomai!Inherits
    BY <1>6 DEF Xenomai!Inherits
  <2>2. Xenomai!cprio("main") = 99
    <3>1. {bprio[u] : u \in {"main"} \cup Xenomai!WaitingFor("main")} = {99}
      BY <1>2, <1>4
    <3>. QED  BY <2>1, <3>1, MaxIs DEF Xenomai!cprio
  <2>3. Xenomai!cprio("M") = 81
    <3>1. {bprio[u] : u \in {"M"} \cup Xenomai!WaitingFor("M")} = {81}
      BY <1>2, <1>4
    <3>. QED  BY <2>1, <3>1, MaxIs DEF Xenomai!cprio
  <2>4. Xenomai!cprio("L") = 82
    <3>1. {bprio[u] : u \in {"L"} \cup Xenomai!WaitingFor("L")} = {80, 82}
      BY <1>2, <1>4
    <3>2. Xenomai!Max({80, 82}) = 82
      BY MaxIs
    <3>. QED  BY <2>1, <3>1, <3>2 DEF Xenomai!cprio
  <2>. QED  BY <1>6, <2>2, <2>3, <2>4
<1>. QED  BY <1>5, <1>6 DEF Exclusive

(* While H waits, L is ready, and nobody but main, L and M can run.         *)
LEMMA WhoRuns ==
  ASSUME Kept, exercise \in Exclusive, waiting["H"] = "A"
  PROVE  /\ \E t \in Tasks : Xenomai!Running(t)
         /\ ~Xenomai!Running("H")
         /\ exercise = "TaskC" => ~Xenomai!Running("M")
<1>1. TaskType /\ Ownership /\ Undisturbed
  BY DEF Kept
<1>2. /\ wake["L"] = 0 /\ clock \in Nat /\ calls["L"] \in {2, 3}
      /\ waiting["L"] = "nothing"
  <2>1. owner["A"] = "L" /\ calls["L"] \in {2, 3} /\ waiting["L"] # "A" /\ wake["L"] = 0
    BY <1>1 DEF Ownership, Undisturbed
  <2>. QED  BY <1>1, <2>1 DEF TaskType, Tasks
<1>3. ~Xenomai!Finished("L")
  <2>. DEFINE P == <<<<"acquire", "A">>, <<"busy", 3>>, <<"release", "A">>>>
  <2>1. Xenomai!Program[exercise]["L"] = P
    BY Programs
  <2>2. Len(P) = 3
    OBVIOUS
  <2>. HIDE DEF P
  <2>. QED  BY <1>2, <2>1, <2>2 DEF Xenomai!Finished
<1>4. "L" \in Xenomai!Primary /\ "H" \notin Xenomai!Primary /\ Xenomai!Primary \subseteq Tasks
  <2>1. Xenomai!Ready("L") /\ ~Xenomai!Ready("H")
    BY <1>2, <1>3 DEF Xenomai!Ready, Xenomai!Nothing
  <2>. QED  BY <2>1 DEF Xenomai!Primary, Tasks, Xenomai!Tasks
<1>5. \A t : Xenomai!Running(t) <=> t \in Xenomai!Primary
                                    /\ \A u \in Xenomai!Primary : Xenomai!cprio(u) <= Xenomai!cprio(t)
  BY <1>4 DEF Xenomai!Running
<1>. DEFINE R(t) == Xenomai!Running(t)  P == Xenomai!Primary  c(t) == Xenomai!cprio(t)
<1>6. /\ c("main") = 99 /\ c("M") = 81
      /\ exercise = "TaskB" => c("L") = 80
      /\ exercise = "TaskC" => c("L") = 82
  BY CurrentPriorities
<1>7. "L" \in P /\ "H" \notin P /\ P \subseteq Tasks /\ \A t : R(t) <=> t \in P /\ \A u \in P : c(u) <= c(t)
  BY <1>4, <1>5
<1>. HIDE DEF R, P, c
<1>8. ~R("H")
  BY <1>7
<1>9. exercise = "TaskC" => ~R("M")
  BY <1>6, <1>7
<1>10. \E t \in Tasks : R(t)
  <2>1. CASE "main" \in P
    <3>1. \A u \in P : c(u) <= c("main")
      BY <1>6, <1>7 DEF Tasks, Exclusive
    <3>. QED  BY <1>7, <2>1, <3>1 DEF Tasks
  <2>2. CASE "main" \notin P /\ "M" \in P /\ exercise = "TaskB"
    <3>1. \A u \in P : c(u) <= c("M")
      BY <1>6, <1>7, <2>2 DEF Tasks
    <3>. QED  BY <1>7, <2>2, <3>1 DEF Tasks
  <2>3. CASE "main" \notin P /\ ("M" \notin P \/ exercise = "TaskC")
    <3>1. \A u \in P : c(u) <= c("L")
      BY <1>6, <1>7, <2>3 DEF Tasks, Exclusive
    <3>. QED  BY <1>7, <3>1 DEF Tasks
  <2>. QED  BY <2>1, <2>2, <2>3 DEF Exclusive
<1>. QED  BY <1>8, <1>9, <1>10 DEF R

LEMMA TickKeeps ==
  ASSUME Kept, exercise \in Exclusive, Xenomai!Tick
  PROVE  Kept'
<1>1. TaskType /\ Ownership /\ Undisturbed /\ Bounded
  BY DEF Kept
<1>2. /\ clock' = clock + 1
      /\ waitedH' = IF waiting["H"] = "A" THEN waitedH + 1 ELSE waitedH
      /\ UNCHANGED <<exercise, calls, wake, secondary, waiting, owner, bprio>>
  <2>1. waiting["H"] \in {"nothing", "A"}
    BY <1>1 DEF TaskType, Tasks
  <2>. QED  BY <2>1 DEF Xenomai!Tick, Xenomai!Resources
<1>3. \/ \E t \in Tasks : Xenomai!Spinning(t) /\ spent' = [spent EXCEPT ![t] = @ + 1] /\ jitter' = jitter
      \/ /\ \A t \in Tasks : ~Xenomai!Running(t)
         /\ UNCHANGED <<spent, jitter>>
      \/ jitter' = jitter + 1 /\ spent' = spent
  BY DEF Xenomai!Tick, Xenomai!Tasks, Tasks
<1>4. /\ calls["L"] \in 1..6 /\ calls["M"] \in 1..6 /\ calls["H"] \in 1..6
      /\ spent["L"] \in Nat /\ spent["M"] \in Nat /\ jitter \in Nat /\ waitedH \in Nat
  BY <1>1 DEF TaskType, Tasks
<1>5. ASSUME NEW t \in Tasks, Xenomai!Spinning(t)
      PROVE  /\ t = "L" => calls["L"] = 2 /\ spent["L"] < 3
             /\ t = "M" => calls["M"] = 2 /\ spent["M"] < 5
             /\ t # "main"
  <2>1. Where(t)
    BY <1>1, WhereTasksAre DEF TaskType
  <2>. QED  BY <1>5, <2>1 DEF Xenomai!Spinning, Where
<1>6. spent' \in [Tasks -> Nat] /\ jitter' \in Nat
  BY <1>1, <1>3 DEF TaskType
<1>7. TaskType'
  BY <1>1, <1>2, <1>6 DEF TaskType
<1>8. Ownership'
  BY <1>1, <1>2 DEF Ownership
(* Who spends the time: M in front of a mutex for which H waits does not.   *)
<1>9. \/ /\ calls["L"] = 2 /\ spent["L"] < 3 /\ spent'["L"] = spent["L"] + 1 /\ spent'["M"] = spent["M"]
         /\ jitter' = jitter
      \/ /\ calls["M"] = 2 /\ spent["M"] < 5 /\ spent'["M"] = spent["M"] + 1 /\ spent'["L"] = spent["L"]
         /\ jitter' = jitter /\ (waiting["H"] = "A" => exercise # "TaskC")
      \/ /\ spent'["L"] = spent["L"] /\ spent'["M"] = spent["M"]
         /\ jitter' = jitter /\ waiting["H"] # "A"
      \/ spent' = spent /\ jitter' = jitter + 1
  <2>1. ASSUME NEW t \in Tasks, Xenomai!Spinning(t), spent' = [spent EXCEPT ![t] = @ + 1], jitter' = jitter
        PROVE  \/ /\ calls["L"] = 2 /\ spent["L"] < 3 /\ spent'["L"] = spent["L"] + 1 /\ spent'["M"] = spent["M"]
                  /\ jitter' = jitter
               \/ /\ calls["M"] = 2 /\ spent["M"] < 5 /\ spent'["M"] = spent["M"] + 1 /\ spent'["L"] = spent["L"]
                  /\ jitter' = jitter /\ (waiting["H"] = "A" => exercise # "TaskC")
               \/ /\ spent'["L"] = spent["L"] /\ spent'["M"] = spent["M"]
                  /\ jitter' = jitter /\ waiting["H"] # "A"
    <3>1. spent \in [Tasks -> Nat] /\ \A u \in Tasks : spent'[u] = IF u = t THEN spent[u] + 1 ELSE spent[u]
      BY <1>1, <2>1 DEF TaskType
    <3>2. /\ spent'["L"] = (IF t = "L" THEN spent["L"] + 1 ELSE spent["L"])
          /\ spent'["M"] = (IF t = "M" THEN spent["M"] + 1 ELSE spent["M"])
      BY <3>1 DEF Tasks
    <3>3. Xenomai!Running(t) /\ t # "main"
      BY <1>5, <2>1 DEF Xenomai!Spinning
    <3>4. CASE t = "L"
      BY <1>5, <2>1, <3>2, <3>4
    <3>5. CASE t = "M"
      <4>1. waiting["H"] = "A" => exercise # "TaskC"
        BY <3>3, <3>5, WhoRuns
      <4>2. calls["M"] = 2 /\ spent["M"] < 5
        BY <1>5, <2>1, <3>5
      <4>. QED  BY <2>1, <3>2, <3>5, <4>1, <4>2
    <3>6. CASE t = "H"
      <4>1. waiting["H"] # "A"
        BY <3>3, <3>6, WhoRuns
      <4>. QED  BY <2>1, <3>2, <3>6, <4>1
    <3>. QED  BY <3>3, <3>4, <3>5, <3>6 DEF Tasks
  <2>2. CASE (\A t \in Tasks : ~Xenomai!Running(t)) /\ UNCHANGED <<spent, jitter>>
    BY <2>2, WhoRuns
  <2>. QED  BY <1>3, <2>1, <2>2
<1>10. Undisturbed'
  <2>1. wake' = wake /\ bprio' = bprio /\ calls' = calls
    BY <1>2
  <2>2. (calls["L"] = 2 => spent'["L"] <= 3) /\ (calls["M"] = 2 => spent'["M"] <= 5)
    BY <1>1, <1>4, <1>9 DEF Undisturbed
  <2>3. (calls["L"] = 1 => spent'["L"] = 0) /\ (calls["M"] = 1 => spent'["M"] = 0)
    BY <1>1, <1>4, <1>9 DEF Undisturbed
  <2>. QED  BY <1>1, <2>1, <2>2, <2>3 DEF Undisturbed
<1>11. Bounded'
  <2>. DEFINE S == Section  SS == Section'  D == Disturb  DD == Disturb'
  <2>1. waiting["H"] = "A" => calls["L"] \in {2, 3}
    BY <1>1 DEF Ownership
  <2>2. S \in Nat /\ D \in Nat
    BY <1>4 DEF Section, Disturb
  <2>3. calls' = calls /\ exercise' = exercise
    BY <1>2
  <2>4. \/ SS = S + 1 /\ DD = D /\ jitter' = jitter
        \/ SS = S /\ DD = D + 1 /\ jitter' = jitter /\ (waiting["H"] = "A" => exercise # "TaskC")
        \/ SS = S /\ DD = D /\ jitter' = jitter /\ waiting["H"] # "A"
        \/ SS = S /\ DD = D /\ jitter' = jitter + 1
    BY <1>4, <1>9, <2>3 DEF Section, Disturb
  <2>5. /\ exercise = "TaskC" => waitedH <= S + jitter
        /\ exercise = "TaskB" => waitedH <= S + D + jitter
    BY <1>1 DEF Bounded
  <2>6. waitedH' <= waitedH + 1 /\ waitedH' \in Nat /\ (waiting["H"] # "A" => waitedH' = waitedH)
    BY <1>2, <1>4
  <2>7. Bounded' <=> /\ exercise = "TaskC" => waitedH' <= SS + jitter'
                     /\ exercise = "TaskB" => waitedH' <= SS + DD + jitter'
    BY <2>3 DEF Bounded
  <2>. HIDE DEF S, SS, D, DD
  <2>8. exercise = "TaskC" => waitedH' <= SS + jitter'
    BY <1>4, <2>2, <2>4, <2>5, <2>6
  <2>9. exercise = "TaskB" => waitedH' <= SS + DD + jitter'
    BY <1>4, <2>2, <2>4, <2>5, <2>6
  <2>. QED  BY <2>7, <2>8, <2>9
<1>. QED  BY <1>7, <1>8, <1>10, <1>11 DEF Kept

LEMMA TaskInit == Xenomai!Init => TaskInv
<1>. SUFFICES ASSUME Xenomai!Init, exercise \in Exclusive PROVE Kept
  BY DEF TaskInv
<1>1. /\ calls = [t \in Tasks |-> 1] /\ spent = [t \in Tasks |-> 0] /\ wake = [t \in Tasks |-> 0]
      /\ secondary = FALSE /\ waiting = [t \in Tasks |-> "nothing"]
      /\ owner = [r \in Xenomai!Resources |-> "nobody"] /\ bprio = [t \in Tasks |-> Xenomai!priority[t]]
      /\ clock = 0 /\ jitter = 0 /\ waitedH = 0
  BY DEF Xenomai!Init, Tasks, Xenomai!Tasks, Xenomai!Nothing, Xenomai!NoOne
<1>2. TaskType
  <2>1. owner \in [Xenomai!Resources -> Tasks \cup {"nobody"}] /\ waiting \in [Tasks -> {"nothing", "A"}]
    BY <1>1
  <2>2. calls \in [Tasks -> 1..6] /\ spent \in [Tasks -> Nat] /\ wake \in [Tasks -> Nat]
    BY <1>1
  <2>. QED  BY <1>1, <2>1, <2>2 DEF TaskType
<1>3. Ownership
  BY <1>1 DEF Ownership, Tasks, Xenomai!Resources
<1>4. Undisturbed
  BY <1>1 DEF Undisturbed, Tasks
<1>5. Bounded
  <2>1. Section = 0 /\ Disturb = 0
    BY <1>1 DEF Section, Disturb, Tasks
  <2>. QED  BY <1>1, <2>1 DEF Bounded
<1>. QED  BY <1>2, <1>3, <1>4, <1>5 DEF Kept

LEMMA TaskNext == TaskInv /\ [Xenomai!Next]_taskVars => TaskInv'
<1>. SUFFICES ASSUME TaskInv, [Xenomai!Next]_taskVars, exercise' \in Exclusive PROVE Kept'
  BY DEF TaskInv
<1>1. exercise' = exercise /\ Kept
  BY DEF TaskInv, taskVars, Xenomai!Next, Xenomai!Tick, Xenomai!Step
<1>2. CASE Xenomai!Tick
  BY <1>1, <1>2, TickKeeps
<1>3. ASSUME NEW t \in Xenomai!Tasks, Xenomai!Step(t) PROVE Kept'
  <2>1. t \in Tasks /\ UNCHANGED <<exercise, clock, jitter, waitedH>> /\ exercise \in Exclusive /\ Xenomai!Running(t)
    BY <1>1, <1>3 DEF Tasks, Xenomai!Tasks, Xenomai!Step
  <2>2. waiting[t] = "nothing"
    BY <2>1 DEF Xenomai!Running, Xenomai!Primary, Xenomai!Ready, Xenomai!Nothing
  <2>3. CASE Xenomai!Acquire(t)
    BY <1>1, <2>1, <2>2, <2>3, AcquireKeeps
  <2>4. CASE Xenomai!Release(t)
    BY <1>1, <2>1, <2>4, ReleaseKeeps
  <2>5. CASE \/ Xenomai!Sleep(t) \/ Xenomai!BusyWaitEnds(t) \/ Xenomai!Inquire(t) \/ Xenomai!SetPriority(t)
             \/ Xenomai!SemP(t) \/ Xenomai!SemBroadcast(t) \/ Xenomai!Exit(t)
    BY <1>1, <2>1, <2>5, CallsKeep
  <2>. QED  BY <1>3, <2>3, <2>4, <2>5 DEF Xenomai!Step
<1>4. CASE UNCHANGED taskVars
  <2>1. UNCHANGED <<exercise, calls, spent, wake, secondary, waiting, owner, bprio, clock, jitter, waitedH>>
    BY <1>4 DEF taskVars
  <2>2. TaskType' /\ Ownership' /\ Undisturbed'
    BY <1>1, <2>1 DEF Kept, TaskType, Ownership, Undisturbed
  <2>3. Section' = Section /\ Disturb' = Disturb
    BY <2>1 DEF Section, Disturb
  <2>4. Bounded'
    BY <1>1, <2>1, <2>3 DEF Kept, Bounded
  <2>. QED  BY <2>2, <2>4 DEF Kept
<1>. QED  BY <1>2, <1>3, <1>4 DEF Xenomai!Next

LEMMA WaitIsBounded == TaskInv => Xenomai!WaitBounded
<1>. SUFFICES ASSUME TaskInv PROVE Xenomai!WaitBounded
  OBVIOUS
<1>1. CASE exercise \notin Exclusive
  BY <1>1 DEF Exclusive, Xenomai!WaitBounded
<1>2. CASE exercise \in Exclusive
  <2>1. Kept
    BY <1>2 DEF TaskInv
  <2>2. /\ calls["L"] \in 1..6 /\ calls["M"] \in 1..6 /\ spent["L"] \in Nat /\ spent["M"] \in Nat
        /\ jitter \in Nat /\ waitedH \in Nat
    BY <2>1 DEF Kept, TaskType, Tasks
  <2>3. Section \in Nat /\ Section <= 3 /\ Disturb \in Nat /\ Disturb <= 5
    BY <2>1, <2>2 DEF Kept, Undisturbed, Section, Disturb
  <2>. DEFINE S == Section  D == Disturb
  <2>4. /\ exercise = "TaskC" => waitedH <= S + jitter
        /\ exercise = "TaskB" => waitedH <= S + D + jitter
        /\ S \in Nat /\ S <= 3 /\ D \in Nat /\ D <= 5
    BY <2>1, <2>3 DEF Kept, Bounded
  <2>. HIDE DEF S, D
  <2>. QED  BY <2>2, <2>4 DEF Xenomai!WaitBounded
<1>. QED  BY <1>1, <1>2

(* In ex07 H waits for its resource no longer than the section of L and the  *)
(* jitter, behind a semaphore also for the busy wait of M; in ex06 a         *)
(* responder is deleted just after its duration, unless a long does not hold *)
(* its end: for any jitter, duration and modulus.                            *)
THEOREM AlwaysInTime == MCSpec => []InTime
<1>1. MCInit => TaskInv /\ ResponderInv
  BY TaskInit, ResponderInit DEF MCInit
<1>2. TaskInv /\ [MCNext]_programVars => TaskInv'
  BY TaskSteps, TaskNext
<1>3. ResponderInv /\ [MCNext]_programVars => ResponderInv'
  BY ResponderSteps, ResponderNext
<1>4. TaskInv /\ ResponderInv => InTime
  BY WaitIsBounded, RespondersInTime DEF InTime
<1>. QED  BY <1>1, <1>2, <1>3, <1>4, PTL DEF MCSpec, MCNext

-----------------------------------------------------------------------------
(* The programs of TaskD *)

Joins(r, p, q) ==
  /\ Len(r) = Len(p) + Len(q)
  /\ \A i \in 1..Len(p) : r[i] = p[i]
  /\ \A i \in 1..Len(q) : r[Len(p) + i] = q[i]

LEMMA Joined ==
  ASSUME NEW S, NEW p \in Seq(S), NEW q \in Seq(S)
  PROVE  p \o q \in Seq(S) /\ Joins(p \o q, p, q)
<1>. DEFINE r == p \o q
<1>1. Len(p) \in Nat /\ Len(q) \in Nat
  BY LenProperties
<1>2. /\ r \in Seq(S) /\ Len(r) = Len(p) + Len(q)
      /\ \A i \in 1..(Len(p) + Len(q)) : r[i] = IF i <= Len(p) THEN p[i] ELSE q[i - Len(p)]
  BY ConcatProperties
<1>. HIDE DEF r
<1>3. \A i \in 1..Len(p) : r[i] = p[i]
  BY <1>1, <1>2
<1>4. ASSUME NEW i \in 1..Len(q) PROVE r[Len(p) + i] = q[i]
  <2>1. Len(p) + i \in 1..(Len(p) + Len(q)) /\ ~(Len(p) + i <= Len(p)) /\ Len(p) + i - Len(p) = i
    BY <1>1
  <2>. QED  BY <1>2, <2>1
<1>5. r \in Seq(S) /\ Joins(r, p, q)
  BY <1>2, <1>3, <1>4 DEF Joins
<1>. QED  BY <1>5 DEF r

(* The parts of a program and the lengths of the parts of each *)
SixPart(S, r, a, b, c, d, e, f) ==
  /\ a \in Seq(S) /\ b \in Seq(S) /\ c \in Seq(S) /\ d \in Seq(S) /\ e \in Seq(S) /\ f \in Seq(S)
  /\ Len(a) = 3 /\ Len(b) = 1 /\ Len(c) = 3 /\ Len(d) = 2 /\ Len(e) = 2 /\ Len(f) = 1
  /\ r = a \o b \o c \o d \o e \o f

EightPart(S, r, a, b, c, d, e, f, g, h) ==
  /\ a \in Seq(S) /\ b \in Seq(S) /\ c \in Seq(S) /\ d \in Seq(S) /\ e \in Seq(S) /\ f \in Seq(S)
  /\ g \in Seq(S) /\ h \in Seq(S)
  /\ Len(a) = 1 /\ Len(b) = 3 /\ Len(c) = 1 /\ Len(d) = 3 /\ Len(e) = 1 /\ Len(f) = 2 /\ Len(g) = 2 /\ Len(h) = 1
  /\ r = a \o b \o c \o d \o e \o f \o g \o h

LEMMA SixParts ==
  ASSUME NEW S, NEW r, NEW a, NEW b, NEW c, NEW d, NEW e, NEW f, SixPart(S, r, a, b, c, d, e, f)
  PROVE  /\ Len(r) = 12
         /\ r[1] = a[1] /\ r[2] = a[2] /\ r[3] = a[3] /\ r[4] = b[1] /\ r[5] = c[1]
         /\ r[6] = c[2] /\ r[7] = c[3] /\ r[8] = d[1] /\ r[9] = d[2] /\ r[10] = e[1]
         /\ r[11] = e[2] /\ r[12] = f[1]
<1>0. /\ a \in Seq(S) /\ b \in Seq(S) /\ c \in Seq(S) /\ d \in Seq(S) /\ e \in Seq(S) /\ f \in Seq(S)
      /\ Len(a) = 3 /\ Len(b) = 1 /\ Len(c) = 3 /\ Len(d) = 2 /\ Len(e) = 2 /\ Len(f) = 1
      /\ r = a \o b \o c \o d \o e \o f
  BY DEF SixPart
<1>. DEFINE p1 == a \o b  p2 == p1 \o c  p3 == p2 \o d  p4 == p3 \o e
            p5 == p4 \o f
<1>1. p1 \in Seq(S) /\ Joins(p1, a, b)
  BY <1>0, Joined
<1>. HIDE DEF p1
<1>2. p2 \in Seq(S) /\ Joins(p2, p1, c)
  BY <1>0, <1>1, Joined
<1>. HIDE DEF p2
<1>3. p3 \in Seq(S) /\ Joins(p3, p2, d)
  BY <1>0, <1>2, Joined
<1>. HIDE DEF p3
<1>4. p4 \in Seq(S) /\ Joins(p4, p3, e)
  BY <1>0, <1>3, Joined
<1>. HIDE DEF p4
<1>5. p5 \in Seq(S) /\ Joins(p5, p4, f)
  BY <1>0, <1>4, Joined
<1>. HIDE DEF p5
<1>6. Len(p1) = 4 /\ p1[4] = b[1] /\ \A i \in 1..3 : p1[i] = a[i]
  BY <1>0, <1>1 DEF Joins
<1>7. Len(p2) = 7 /\ p2[5] = c[1] /\ p2[6] = c[2] /\ p2[7] = c[3] /\ \A i \in 1..4 : p2[i] = p1[i]
  BY <1>0, <1>2, <1>6 DEF Joins
<1>8. Len(p3) = 9 /\ p3[8] = d[1] /\ p3[9] = d[2] /\ \A i \in 1..7 : p3[i] = p2[i]
  BY <1>0, <1>3, <1>7 DEF Joins
<1>9. Len(p4) = 11 /\ p4[10] = e[1] /\ p4[11] = e[2] /\ \A i \in 1..9 : p4[i] = p3[i]
  BY <1>0, <1>4, <1>8 DEF Joins
<1>10. Len(p5) = 12 /\ p5[12] = f[1] /\ \A i \in 1..11 : p5[i] = p4[i]
  BY <1>0, <1>5, <1>9 DEF Joins
<1>11. /\ Len(p5) = 12
       /\ p5[1] = a[1] /\ p5[2] = a[2] /\ p5[3] = a[3] /\ p5[4] = b[1] /\ p5[5] = c[1]
       /\ p5[6] = c[2] /\ p5[7] = c[3] /\ p5[8] = d[1] /\ p5[9] = d[2] /\ p5[10] = e[1]
       /\ p5[11] = e[2] /\ p5[12] = f[1]
  BY <1>6, <1>7, <1>8, <1>9, <1>10
<1>. QED  BY <1>0, <1>11 DEF p1, p2, p3, p4, p5

LEMMA EightParts ==
  ASSUME NEW S, NEW r, NEW a, NEW b, NEW c, NEW d, NEW e, NEW f, NEW g, NEW h,
         EightPart(S, r, a, b, c, d, e, f, g, h)
  PROVE  /\ Len(r) = 14
         /\ r[1] = a[1] /\ r[2] = b[1] /\ r[3] = b[2] /\ r[4] = b[3] /\ r[5] = c[1]
         /\ r[6] = d[1] /\ r[7] = d[2] /\ r[8] = d[3] /\ r[9] = e[1] /\ r[10] = f[1]
         /\ r[11] = f[2] /\ r[12] = g[1] /\ r[13] = g[2] /\ r[14] = h[1]
<1>0. /\ a \in Seq(S) /\ b \in Seq(S) /\ c \in Seq(S) /\ d \in Seq(S) /\ e \in Seq(S) /\ f \in Seq(S)
      /\ g \in Seq(S) /\ h \in Seq(S)
      /\ Len(a) = 1 /\ Len(b) = 3 /\ Len(c) = 1 /\ Len(d) = 3 /\ Len(e) = 1 /\ Len(f) = 2 /\ Len(g) = 2
      /\ Len(h) = 1
      /\ r = a \o b \o c \o d \o e \o f \o g \o h
  BY DEF EightPart
<1>. DEFINE p1 == a \o b  p2 == p1 \o c  p3 == p2 \o d  p4 == p3 \o e
            p5 == p4 \o f  p6 == p5 \o g  p7 == p6 \o h
<1>1. p1 \in Seq(S) /\ Joins(p1, a, b)
  BY <1>0, Joined
<1>. HIDE DEF p1
<1>2. p2 \in Seq(S) /\ Joins(p2, p1, c)
  BY <1>0, <1>1, Joined
<1>. HIDE DEF p2
<1>3. p3 \in Seq(S) /\ Joins(p3, p2, d)
  BY <1>0, <1>2, Joined
<1>. HIDE DEF p3
<1>4. p4 \in Seq(S) /\ Joins(p4, p3, e)
  BY <1>0, <1>3, Joined
<1>. HIDE DEF p4
<1>5. p5 \in Seq(S) /\ Joins(p5, p4, f)
  BY <1>0, <1>4, Joined
<1>. HIDE DEF p5
<1>6. p6 \in Seq(S) /\ Joins(p6, p5, g)
  BY <1>0, <1>5, Joined
<1>. HIDE DEF p6
<1>7. p7 \in Seq(S) /\ Joins(p7, p6, h)
  BY <1>0, <1>6, Joined
<1>. HIDE DEF p7
<1>8. Len(p1) = 4 /\ p1[2] = b[1] /\ p1[3] = b[2] /\ p1[4] = b[3] /\ \A i \in 1..1 : p1[i] = a[i]
  BY <1>0, <1>1 DEF Joins
<1>9. Len(p2) = 5 /\ p2[5] = c[1] /\ \A i \in 1..4 : p2[i] = p1[i]
  BY <1>0, <1>2, <1>8 DEF Joins
<1>10. Len(p3) = 8 /\ p3[6] = d[1] /\ p3[7] = d[2] /\ p3[8] = d[3] /\ \A i \in 1..5 : p3[i] = p2[i]
  BY <1>0, <1>3, <1>9 DEF Joins
<1>11. Len(p4) = 9 /\ p4[9] = e[1] /\ \A i \in 1..8 : p4[i] = p3[i]
  BY <1>0, <1>4, <1>10 DEF Joins
<1>12. Len(p5) = 11 /\ p5[10] = f[1] /\ p5[11] = f[2] /\ \A i \in 1..9 : p5[i] = p4[i]
  BY <1>0, <1>5, <1>11 DEF Joins
<1>13. Len(p6) = 13 /\ p6[12] = g[1] /\ p6[13] = g[2] /\ \A i \in 1..11 : p6[i] = p5[i]
  BY <1>0, <1>6, <1>12 DEF Joins
<1>14. Len(p7) = 14 /\ p7[14] = h[1] /\ \A i \in 1..13 : p7[i] = p6[i]
  BY <1>0, <1>7, <1>13 DEF Joins
<1>15. /\ Len(p7) = 14
       /\ p7[1] = a[1] /\ p7[2] = b[1] /\ p7[3] = b[2] /\ p7[4] = b[3] /\ p7[5] = c[1]
       /\ p7[6] = d[1] /\ p7[7] = d[2] /\ p7[8] = d[3] /\ p7[9] = e[1] /\ p7[10] = f[1]
       /\ p7[11] = f[2] /\ p7[12] = g[1] /\ p7[13] = g[2] /\ p7[14] = h[1]
  BY <1>8, <1>9, <1>10, <1>11, <1>12, <1>13, <1>14
<1>. QED  BY <1>0, <1>15 DEF p1, p2, p3, p4, p5, p6, p7

LEMMA ShortSequences ==
  ASSUME NEW S, NEW a \in S, NEW b \in S, NEW c \in S
  PROVE  /\ <<a>> \in Seq(S) /\ Len(<<a>>) = 1 /\ <<a>>[1] = a
         /\ <<a, b>> \in Seq(S) /\ Len(<<a, b>>) = 2 /\ <<a, b>>[1] = a /\ <<a, b>>[2] = b
         /\ <<a, b, c>> \in Seq(S) /\ Len(<<a, b, c>>) = 3
         /\ <<a, b, c>>[1] = a /\ <<a, b, c>>[2] = b /\ <<a, b, c>>[3] = c
  OBVIOUS

LEMMA NestedPrograms ==
  /\ LET P == Xenomai!NestedL
     IN  /\ Len(P) = 12
         /\ P[1] = <<"acquire", "A">> /\ P[2] = <<"inquire", "A">> /\ P[3] = <<"set", "A">> /\ P[4] = <<"busy", 3>>
         /\ P[5] = <<"acquire", "B">> /\ P[6] = <<"inquire", "B">> /\ P[7] = <<"set", "B">>
         /\ P[8] = <<"release", "B">> /\ P[9] = <<"restore", "B">>
         /\ P[10] = <<"release", "A">> /\ P[11] = <<"restore", "A">> /\ P[12] = <<"busy", 1>>
  /\ LET P == Xenomai!NestedH
     IN  /\ Len(P) = 14 /\ P[1] = <<"sleep", 1>>
         /\ P[2] = <<"acquire", "B">> /\ P[3] = <<"inquire", "B">> /\ P[4] = <<"set", "B">> /\ P[5] = <<"busy", 1>>
         /\ P[6] = <<"acquire", "A">> /\ P[7] = <<"inquire", "A">> /\ P[8] = <<"set", "A">> /\ P[9] = <<"busy", 2>>
         /\ P[10] = <<"release", "A">> /\ P[11] = <<"restore", "A">>
         /\ P[12] = <<"release", "B">> /\ P[13] = <<"restore", "B">> /\ P[14] = <<"busy", 1>>
<1>. DEFINE s1 == <<"sleep", 1>>  b1 == <<"busy", 1>>  b2 == <<"busy", 2>>  b3 == <<"busy", 3>>
            aA == <<"acquire", "A">>  iA == <<"inquire", "A">>  tA == <<"set", "A">>
            aB == <<"acquire", "B">>  iB == <<"inquire", "B">>  tB == <<"set", "B">>
            rA == <<"release", "A">>  oA == <<"restore", "A">>  rB == <<"release", "B">>  oB == <<"restore", "B">>
            lockA == <<aA, iA, tA>>  lockB == <<aB, iB, tB>>  freeA == <<rA, oA>>  freeB == <<rB, oB>>
<1>1. /\ Xenomai!NestedL = lockA \o <<b3>> \o lockB \o freeB \o freeA \o <<b1>>
      /\ Xenomai!NestedH = <<s1>> \o lockB \o <<b1>> \o lockA \o <<b2>> \o freeA \o freeB \o <<b1>>
  BY Zenon DEF Xenomai!NestedL, Xenomai!NestedH, Xenomai!resource_lock, Xenomai!resource_release, Xenomai!busy_wait
<1>. DEFINE S == {s1, b1, b2, b3, aA, iA, tA, aB, iB, tB, rA, oA, rB, oB}
            low == lockA \o <<b3>> \o lockB \o freeB \o freeA \o <<b1>>
            high == <<s1>> \o lockB \o <<b1>> \o lockA \o <<b2>> \o freeA \o freeB \o <<b1>>
<1>. HIDE DEF s1, b1, b2, b3, aA, iA, tA, aB, iB, tB, rA, oA, rB, oB
<1>2. /\ s1 \in S /\ b1 \in S /\ b2 \in S /\ b3 \in S /\ aA \in S /\ iA \in S /\ tA \in S
      /\ aB \in S /\ iB \in S /\ tB \in S /\ rA \in S /\ oA \in S /\ rB \in S /\ oB \in S
  OBVIOUS
<1>. HIDE DEF S
<1>3. /\ lockA \in Seq(S) /\ Len(lockA) = 3 /\ lockA[1] = aA /\ lockA[2] = iA /\ lockA[3] = tA
      /\ lockB \in Seq(S) /\ Len(lockB) = 3 /\ lockB[1] = aB /\ lockB[2] = iB /\ lockB[3] = tB
      /\ freeA \in Seq(S) /\ Len(freeA) = 2 /\ freeA[1] = rA /\ freeA[2] = oA
      /\ freeB \in Seq(S) /\ Len(freeB) = 2 /\ freeB[1] = rB /\ freeB[2] = oB
  BY <1>2, ShortSequences
<1>4. /\ <<b1>> \in Seq(S) /\ Len(<<b1>>) = 1 /\ <<b1>>[1] = b1
      /\ <<b2>> \in Seq(S) /\ Len(<<b2>>) = 1 /\ <<b2>>[1] = b2
      /\ <<b3>> \in Seq(S) /\ Len(<<b3>>) = 1 /\ <<b3>>[1] = b3
      /\ <<s1>> \in Seq(S) /\ Len(<<s1>>) = 1 /\ <<s1>>[1] = s1
  BY <1>2, ShortSequences
<1>. DEFINE q1 == <<b1>>  q2 == <<b2>>  q3 == <<b3>>  qs == <<s1>>
<1>5. /\ q1 \in Seq(S) /\ Len(q1) = 1 /\ q1[1] = b1 /\ q2 \in Seq(S) /\ Len(q2) = 1 /\ q2[1] = b2
      /\ q3 \in Seq(S) /\ Len(q3) = 1 /\ q3[1] = b3 /\ qs \in Seq(S) /\ Len(qs) = 1 /\ qs[1] = s1
      /\ low = lockA \o q3 \o lockB \o freeB \o freeA \o q1
      /\ high = qs \o lockB \o q1 \o lockA \o q2 \o freeA \o freeB \o q1
  BY <1>4
<1>. HIDE DEF lockA, lockB, freeA, freeB, q1, q2, q3, qs, low, high
<1>6. /\ Len(low) = 12
      /\ low[1] = lockA[1] /\ low[2] = lockA[2] /\ low[3] = lockA[3] /\ low[4] = q3[1] /\ low[5] = lockB[1]
      /\ low[6] = lockB[2] /\ low[7] = lockB[3] /\ low[8] = freeB[1] /\ low[9] = freeB[2] /\ low[10] = freeA[1]
      /\ low[11] = freeA[2] /\ low[12] = q1[1]
  <2>1. SixPart(S, low, lockA, q3, lockB, freeB, freeA, q1)
    BY <1>3, <1>5, Zenon DEF SixPart
  <2>. QED  BY <2>1, SixParts
<1>7. /\ Len(high) = 14
      /\ high[1] = qs[1] /\ high[2] = lockB[1] /\ high[3] = lockB[2] /\ high[4] = lockB[3] /\ high[5] = q1[1]
      /\ high[6] = lockA[1] /\ high[7] = lockA[2] /\ high[8] = lockA[3] /\ high[9] = q2[1] /\ high[10] = freeA[1]
      /\ high[11] = freeA[2] /\ high[12] = freeB[1] /\ high[13] = freeB[2] /\ high[14] = q1[1]
  <2>1. EightPart(S, high, qs, lockB, q1, lockA, q2, freeA, freeB, q1)
    BY <1>3, <1>5, Zenon DEF EightPart
  <2>. QED  BY <2>1, EightParts
<1>8. Xenomai!NestedL = low /\ Xenomai!NestedH = high
  BY <1>1 DEF low, high
<1>9. /\ Len(low) = 12
      /\ low[1] = aA /\ low[2] = iA /\ low[3] = tA /\ low[4] = b3 /\ low[5] = aB /\ low[6] = iB /\ low[7] = tB
      /\ low[8] = rB /\ low[9] = oB /\ low[10] = rA /\ low[11] = oA /\ low[12] = b1
  BY <1>3, <1>5, <1>6
<1>10. /\ Len(high) = 14
       /\ high[1] = s1 /\ high[2] = aB /\ high[3] = iB /\ high[4] = tB /\ high[5] = b1 /\ high[6] = aA
       /\ high[7] = iA /\ high[8] = tA /\ high[9] = b2 /\ high[10] = rA /\ high[11] = oA /\ high[12] = rB
       /\ high[13] = oB /\ high[14] = b1
  BY <1>3, <1>5, <1>7
<1>. QED
  BY <1>8, <1>9, <1>10, Zenon DEF s1, b1, b2, b3, aA, iA, tA, aB, iB, tB, rA, oA, rB, oB


-----------------------------------------------------------------------------
(* Who may be at which call of TaskD, and with which resource.              *)
RestOfA(t) == (t = "L" /\ calls[t] \in {1, 2, 3, 10, 11}) \/ (t = "H" /\ calls[t] \in {6, 7, 8, 10, 11})

NestedWhere(t) ==
  /\ Xenomai!Finished(t) <=> t = "M" \/ (t = "main" /\ calls[t] > 5) \/ (t = "L" /\ calls[t] > 12) \/ (t = "H" /\ calls[t] > 14)
  /\ Xenomai!At(t, "acquire") <=> (t = "L" /\ calls[t] \in {1, 5}) \/ (t = "H" /\ calls[t] \in {2, 6})
  /\ Xenomai!At(t, "inquire") <=> (t = "L" /\ calls[t] \in {2, 6}) \/ (t = "H" /\ calls[t] \in {3, 7})
  /\ Xenomai!At(t, "set")     <=> (t = "L" /\ calls[t] \in {3, 7}) \/ (t = "H" /\ calls[t] \in {4, 8})
  /\ Xenomai!At(t, "release") <=> (t = "L" /\ calls[t] \in {8, 10}) \/ (t = "H" /\ calls[t] \in {10, 12})
  /\ Xenomai!At(t, "restore") <=> (t = "L" /\ calls[t] \in {9, 11}) \/ (t = "H" /\ calls[t] \in {11, 13})
  /\ Xenomai!At(t, "busy")    <=> (t = "L" /\ calls[t] \in {4, 12}) \/ (t = "H" /\ calls[t] \in {5, 9, 14})
  /\ Xenomai!At(t, "sleep")   <=> t = "H" /\ calls[t] = 1
  /\ Xenomai!At(t, "usleep")  <=> t = "main" /\ calls[t] \in {1, 3}
  /\ Xenomai!At(t, "broadcast") \/ Xenomai!At(t, "delete") <=> t = "main" /\ calls[t] \in {2, 4}
  /\ Xenomai!At(t, "exit")    <=> t = "main" /\ calls[t] = 5
  /\ ~Xenomai!At(t, "p")

NestedWith(t) ==
  /\ \/ Xenomai!At(t, "acquire") \/ Xenomai!At(t, "inquire") \/ Xenomai!At(t, "set")
     \/ Xenomai!At(t, "release") \/ Xenomai!At(t, "restore")
     => Xenomai!Call(t)[2] = IF RestOfA(t) THEN "A" ELSE "B"
  /\ Xenomai!At(t, "sleep") \/ Xenomai!At(t, "usleep") => Xenomai!Call(t)[2] \in Nat /\ (t = "H" => Xenomai!Call(t)[2] = 1)

LEMMA WhereNestedAre ==
  ASSUME exercise = "TaskD", NEW t \in Tasks, calls[t] \in 1..15
  PROVE  NestedWhere(t) /\ NestedWith(t)
<1>. USE DEF Xenomai!At, Xenomai!Call, Xenomai!Finished, NestedWhere, NestedWith, RestOfA
<1>0. Xenomai!Program["TaskD"] = [main |-> Xenomai!main(100), L |-> Xenomai!NestedL, M |-> <<>>, H |-> Xenomai!NestedH]
  BY DEF Xenomai!Program
<1>1. CASE t = "main"
  <2>. DEFINE P == <<<<"usleep", 1>>, <<"broadcast">>, <<"usleep", 100>>, <<"delete">>, <<"exit">>>>
  <2>1. Xenomai!Program[exercise][t] = P
    BY <1>0, <1>1 DEF Xenomai!main
  <2>2. /\ Len(P) = 5 /\ P[1] = <<"usleep", 1>> /\ P[2] = <<"broadcast">> /\ P[3] = <<"usleep", 100>>
        /\ P[4] = <<"delete">> /\ P[5] = <<"exit">>
    OBVIOUS
  <2>. HIDE DEF P
  <2>. QED  BY <1>1, <2>1, <2>2
<1>2. CASE t = "L"
  <2>. DEFINE P == Xenomai!NestedL
  <2>1. Xenomai!Program[exercise][t] = P
    BY <1>0, <1>2
  <2>2. /\ Len(P) = 12
        /\ P[1] = <<"acquire", "A">> /\ P[2] = <<"inquire", "A">> /\ P[3] = <<"set", "A">> /\ P[4] = <<"busy", 3>>
        /\ P[5] = <<"acquire", "B">> /\ P[6] = <<"inquire", "B">> /\ P[7] = <<"set", "B">>
        /\ P[8] = <<"release", "B">> /\ P[9] = <<"restore", "B">>
        /\ P[10] = <<"release", "A">> /\ P[11] = <<"restore", "A">> /\ P[12] = <<"busy", 1>>
    BY NestedPrograms
  <2>. HIDE DEF P
  <2>3. NestedWhere(t)
    BY <1>2, <2>1, <2>2
  <2>4. NestedWith(t)
    BY <1>2, <2>1, <2>2
  <2>. QED  BY <2>3, <2>4
<1>3. CASE t = "M"
  <2>1. Len(Xenomai!Program[exercise][t]) = 0
    BY <1>0, <1>3
  <2>. QED  BY <1>3, <2>1
<1>4. CASE t = "H"
  <2>. DEFINE P == Xenomai!NestedH
  <2>1. Xenomai!Program[exercise][t] = P
    BY <1>0, <1>4
  <2>2. /\ Len(P) = 14 /\ P[1] = <<"sleep", 1>>
        /\ P[2] = <<"acquire", "B">> /\ P[3] = <<"inquire", "B">> /\ P[4] = <<"set", "B">> /\ P[5] = <<"busy", 1>>
        /\ P[6] = <<"acquire", "A">> /\ P[7] = <<"inquire", "A">> /\ P[8] = <<"set", "A">> /\ P[9] = <<"busy", 2>>
        /\ P[10] = <<"release", "A">> /\ P[11] = <<"restore", "A">>
        /\ P[12] = <<"release", "B">> /\ P[13] = <<"restore", "B">> /\ P[14] = <<"busy", 1>>
    BY NestedPrograms
  <2>. HIDE DEF P
  <2>3. NestedWhere(t)
    BY <1>4, <2>1, <2>2
  <2>4. NestedWith(t)
    BY <1>4, <2>1, <2>2
  <2>. QED  BY <2>3, <2>4
<1>. QED  BY <1>1, <1>2, <1>3, <1>4 DEF Tasks

-----------------------------------------------------------------------------
(* The tasks of ex07 with two resources (TaskD).  L and H hold a resource   *)
(* between their calls and wait for one that the other holds.               *)
lowCall == calls["L"]
highCall == calls["H"]

NestedType ==
  /\ calls \in [Tasks -> 1..15] /\ wake \in [Tasks -> Nat] /\ waiting \in [Tasks -> {"nothing", "A", "B"}]
  /\ owner \in [Xenomai!Resources -> Tasks \cup {"nobody"}]
  /\ bprio \in [Tasks -> Nat] /\ RestorePriority \in [Xenomai!Resources -> Nat]
  /\ clock \in Nat /\ late \in BOOLEAN

Held ==
  /\ owner["A"] \in {"nobody", "L", "H"} /\ owner["B"] \in {"nobody", "L", "H"}
  /\ (owner["A"] = "L" <=> lowCall \in 2..10) /\ (owner["A"] = "H" <=> highCall \in 7..10)
  /\ (owner["B"] = "L" <=> lowCall \in 6..8) /\ (owner["B"] = "H" <=> highCall \in 3..12)
  /\ waiting["main"] = "nothing" /\ waiting["M"] = "nothing"
  /\ waiting["L"] = "A" => lowCall = 1 /\ owner["A"] = "H"
  /\ waiting["L"] = "B" => lowCall = 5 /\ owner["B"] = "H"
  /\ waiting["H"] = "A" => highCall = 6 /\ owner["A"] = "L"
  /\ waiting["H"] = "B" => highCall = 2 /\ owner["B"] = "L"

(* The base priorities at each call, and the priorities to be restored.  One *)
(* that is not the task's own was inquired while the other waits for it; it  *)
(* is never read, as the two then block each other.                         *)
Lifted ==
  /\ bprio["main"] = 99 /\ bprio["M"] = 81
  /\ bprio["L"] = IF lowCall \in 4..7 \/ lowCall \in 10..11 THEN 90 ELSE IF lowCall \in 8..9 THEN 85 ELSE 80
  /\ bprio["H"] = IF highCall \in 9..11 THEN 90 ELSE IF highCall \in 5..8 \/ highCall \in 12..13 THEN 85 ELSE 82

Saved ==
  /\ lowCall \in 3..11 => RestorePriority["A"] = 80 \/ (waiting["H"] = "A" /\ lowCall <= 5)
  /\ lowCall \in 7..9  => RestorePriority["B"] = 90
  /\ highCall \in 4..13 => RestorePriority["B"] = 82 \/ (waiting["L"] = "B" /\ highCall <= 6)
  /\ highCall \in 8..11 => RestorePriority["A"] = 85

(* While one still has to restore a priority, the other does not run.       *)
Apart ==
  /\ lowCall \in 9..11  => highCall <= 3 \/ highCall >= 14
  /\ highCall \in 11..13 => lowCall <= 2 \/ lowCall >= 12

Awake ==
  /\ wake["L"] = 0 /\ (highCall = 1 => wake["H"] = 0)
  /\ highCall >= 3 \/ waiting["H"] # "nothing" => wake["H"] <= clock

(* Unless time passes before L has its ceiling, H sleeps on until it has, and *)
(* comes after it.                                                          *)
Prompt ==
  ~late => /\ waiting["L"] = "nothing" /\ waiting["H"] = "nothing"
           /\ lowCall \in 2..11 => highCall \in {2, 15}
           /\ lowCall \in 2..3 /\ highCall = 2 => clock < wake["H"]

Nested == NestedType /\ Held /\ Lifted /\ Saved /\ Apart /\ Awake /\ Prompt

-----------------------------------------------------------------------------
(* Who waits for whom, with which priority each goes on, and who runs       *)

LEMMA NestedValues ==
  ASSUME NestedType
  PROVE  /\ lowCall \in 1..15 /\ highCall \in 1..15 /\ clock \in Nat /\ late \in BOOLEAN
         /\ waiting["L"] \in {"nothing", "A", "B"} /\ waiting["H"] \in {"nothing", "A", "B"}
         /\ bprio["main"] \in Nat /\ bprio["L"] \in Nat /\ bprio["M"] \in Nat /\ bprio["H"] \in Nat
         /\ wake["L"] \in Nat /\ wake["H"] \in Nat
         /\ RestorePriority["A"] \in Nat /\ RestorePriority["B"] \in Nat
  BY DEF NestedType, Tasks, lowCall, highCall, Xenomai!Resources

LEMMA NestedWaiting ==
  ASSUME Nested
  PROVE  /\ Xenomai!WaitingFor("main") = {} /\ Xenomai!WaitingFor("M") = {}
         /\ waiting["H"] = "nothing" => Xenomai!WaitingFor("L") = {}
         /\ waiting["H"] # "nothing" => Xenomai!WaitingFor("L") = {"H"}
         /\ waiting["L"] = "nothing" => Xenomai!WaitingFor("H") = {}
         /\ waiting["L"] # "nothing" => Xenomai!WaitingFor("H") = {"L"}
<1>1. /\ waiting["main"] = "nothing" /\ waiting["M"] = "nothing"
      /\ waiting["L"] # "nothing" => waiting["L"] \in {"A", "B"} /\ owner[waiting["L"]] = "H"
      /\ waiting["H"] # "nothing" => waiting["H"] \in {"A", "B"} /\ owner[waiting["H"]] = "L"
  BY NestedValues DEF Nested, Held
<1>. QED  BY <1>1 DEF Xenomai!WaitingFor, Xenomai!Tasks, Xenomai!Resources

LEMMA NestedPriorities ==
  ASSUME Nested, exercise = "TaskD"
  PROVE  /\ Xenomai!cprio("main") = 99 /\ Xenomai!cprio("M") = 81
         /\ waiting["H"] = "nothing" \/ bprio["H"] <= bprio["L"] => Xenomai!cprio("L") = bprio["L"]
         /\ waiting["H"] # "nothing" /\ bprio["H"] > bprio["L"] => Xenomai!cprio("L") = bprio["H"]
         /\ waiting["L"] = "nothing" \/ bprio["L"] <= bprio["H"] => Xenomai!cprio("H") = bprio["H"]
         /\ waiting["L"] # "nothing" /\ bprio["L"] > bprio["H"] => Xenomai!cprio("H") = bprio["L"]
<1>. DEFINE l == bprio["L"]  h == bprio["H"]
<1>1. l \in Nat /\ h \in Nat /\ bprio["main"] = 99 /\ bprio["M"] = 81
  BY NestedValues DEF Nested, Lifted
<1>2. \A t : Xenomai!cprio(t) = Xenomai!Max({bprio[u] : u \in {t} \cup Xenomai!WaitingFor(t)})
  BY DEF Xenomai!cprio, Xenomai!Inherits
<1>3. {bprio[u] : u \in {"main"} \cup {}} = {99} /\ {bprio[u] : u \in {"M"} \cup {}} = {81}
  BY <1>1
<1>4. /\ {bprio[u] : u \in {"L"} \cup {}} = {l} /\ {bprio[u] : u \in {"L"} \cup {"H"}} = {l, h}
      /\ {bprio[u] : u \in {"H"} \cup {}} = {h} /\ {bprio[u] : u \in {"H"} \cup {"L"}} = {h, l}
  OBVIOUS
<1>. HIDE DEF l, h
<1>5. Xenomai!Max({99}) = 99 /\ Xenomai!Max({81}) = 81 /\ Xenomai!Max({l}) = l /\ Xenomai!Max({h}) = h
  BY <1>1, MaxIs
<1>6. /\ h <= l => Xenomai!Max({l, h}) = l /\ Xenomai!Max({h, l}) = l
      /\ l <= h => Xenomai!Max({l, h}) = h /\ Xenomai!Max({h, l}) = h
  BY <1>1, MaxIs
<1>7. Xenomai!cprio("main") = 99 /\ Xenomai!cprio("M") = 81
  BY <1>2, <1>3, <1>5, NestedWaiting
<1>8. /\ waiting["H"] = "nothing" => Xenomai!cprio("L") = l
      /\ waiting["H"] # "nothing" => Xenomai!cprio("L") = Xenomai!Max({l, h})
      /\ waiting["L"] = "nothing" => Xenomai!cprio("H") = h
      /\ waiting["L"] # "nothing" => Xenomai!cprio("H") = Xenomai!Max({h, l})
  BY <1>2, <1>4, <1>5, NestedWaiting
<1>9. h <= l \/ l <= h
  BY <1>1
<1>10. h > l <=> ~(h <= l)
  BY <1>1
<1>11. l > h <=> ~(l <= h)
  BY <1>1
<1>. QED  BY <1>6, <1>7, <1>8, <1>9, <1>10, <1>11 DEF l, h

LEMMA NestedRuns ==
  ASSUME Nested, exercise = "TaskD"
  PROVE  /\ \A t \in Tasks : Xenomai!Running(t) =>
              ~Xenomai!Finished(t) /\ wake[t] <= clock /\ waiting[t] = "nothing"
         /\ lowCall \in 4..11 /\ highCall <= 3 /\ waiting["L"] = "nothing" => ~Xenomai!Running("H")
         /\ highCall \in 11..13 /\ lowCall = 2 => ~Xenomai!Running("L")
         /\ lowCall = 1 /\ highCall <= 14 /\ wake["H"] <= clock /\ waiting["H"] = "nothing" /\ waiting["L"] = "nothing"
              => ~Xenomai!Running("L")
<1>. DEFINE R(t) == Xenomai!Running(t)  P == Xenomai!Primary  c(t) == Xenomai!cprio(t)
<1>1. NestedType /\ Held /\ Lifted /\ Awake /\ Prompt
  BY DEF Nested
<1>2. \A t \in Tasks : t \in P => Xenomai!Ready(t)
  BY DEF Xenomai!Primary
<1>3. ASSUME NEW t \in Tasks, R(t) PROVE Xenomai!Ready(t)
  BY <1>2, <1>3 DEF Xenomai!Running
<1>4. \A t \in Tasks : R(t) => ~Xenomai!Finished(t) /\ wake[t] <= clock /\ waiting[t] = "nothing"
  BY <1>3 DEF Xenomai!Ready, Xenomai!Nothing
<1>5. P \subseteq Tasks
  BY DEF Xenomai!Primary, Tasks, Xenomai!Tasks
<1>6. ASSUME NEW t \in Tasks, t # "main", ~Xenomai!Finished(t), wake[t] <= clock, waiting[t] = "nothing"
      PROVE  t \in P
  BY <1>6 DEF Xenomai!Primary, Xenomai!Ready, Xenomai!Nothing, Tasks, Xenomai!Tasks
<1>7. P # {} => \A t : R(t) <=> t \in P /\ \A u \in P : c(u) <= c(t)
  BY DEF Xenomai!Running
<1>8. NestedWhere("L") /\ NestedWhere("H") /\ NestedWhere("M")
  BY <1>1, WhereNestedAre DEF NestedType, Tasks
<1>9. /\ ~Xenomai!Finished("L") <=> lowCall <= 12
      /\ ~Xenomai!Finished("H") <=> highCall <= 14
      /\ Xenomai!Finished("M")
  BY <1>1, <1>8, NestedValues DEF NestedWhere, lowCall, highCall
<1>10. "M" \notin P
  BY <1>2, <1>9 DEF Xenomai!Ready, Tasks
<1>11. lowCall <= 12 /\ waiting["L"] = "nothing" => "L" \in P
  BY <1>1, <1>6, <1>9, NestedValues DEF Awake, Tasks
<1>12. highCall \in 3..14 /\ waiting["H"] = "nothing" => "H" \in P
  <2>1. highCall \in 3..14 => wake["H"] <= clock
    BY <1>1 DEF Awake
  <2>. QED  BY <1>6, <1>9, <2>1 DEF Tasks
<1>13. /\ c("main") = 99 /\ bprio["L"] \in Nat /\ bprio["H"] \in Nat /\ lowCall \in 1..15 /\ highCall \in 1..15
       /\ waiting["H"] = "nothing" => c("L") = bprio["L"]
       /\ waiting["L"] = "nothing" => c("H") = bprio["H"]
       /\ c("L") = bprio["L"] \/ (c("L") = bprio["H"] /\ bprio["H"] > bprio["L"])
       /\ c("H") = bprio["H"] \/ (c("H") = bprio["L"] /\ bprio["L"] > bprio["H"])
  <2>1. NestedType
    BY <1>1
  <2>2. bprio["L"] <= bprio["H"] \/ bprio["L"] > bprio["H"]
    BY <2>1, NestedValues
  <2>3. bprio["H"] <= bprio["L"] \/ bprio["H"] > bprio["L"]
    BY <2>1, NestedValues
  <2>. QED  BY <2>1, <2>2, <2>3, NestedPriorities, NestedValues
<1>. HIDE DEF R, P, c
<1>14. lowCall \in 4..11 /\ highCall <= 3 /\ waiting["L"] = "nothing" => ~R("H")
  <2>. SUFFICES ASSUME lowCall \in 4..11, highCall <= 3, waiting["L"] = "nothing" PROVE ~R("H")
    OBVIOUS
  <2>1. bprio["L"] >= 85 /\ bprio["H"] = 82
    BY <1>1, <1>13 DEF Lifted
  <2>2. c("L") >= 85 /\ c("H") = 82 /\ c("L") \in Nat
    BY <1>13, <2>1
  <2>3. ~(c("L") <= c("H"))
    BY <2>2
  <2>. QED  BY <1>7, <1>11, <2>3
<1>15. highCall \in 11..13 /\ lowCall = 2 => ~R("L")
  <2>. SUFFICES ASSUME highCall \in 11..13, lowCall = 2 PROVE ~R("L")
    OBVIOUS
  <2>1. bprio["H"] >= 85 /\ bprio["L"] = 80
    BY <1>1, <1>13 DEF Lifted
  <2>2. waiting["H"] = "nothing"
    BY <1>1, NestedValues DEF Held
  <2>3. c("H") >= 85 /\ c("L") = 80 /\ c("H") \in Nat
    BY <1>13, <2>1, <2>2
  <2>4. ~(c("H") <= c("L"))
    BY <2>3
  <2>. QED  BY <1>7, <1>12, <2>2, <2>4
<1>16. lowCall = 1 /\ highCall <= 14 /\ wake["H"] <= clock /\ waiting["H"] = "nothing" /\ waiting["L"] = "nothing"
         => ~R("L")
  <2>. SUFFICES ASSUME lowCall = 1, highCall <= 14, wake["H"] <= clock, waiting["H"] = "nothing", waiting["L"] = "nothing"
                PROVE  ~R("L")
    OBVIOUS
  <2>1. bprio["H"] >= 82 /\ bprio["L"] = 80
    BY <1>1, <1>13 DEF Lifted
  <2>2. c("H") >= 82 /\ c("L") = 80 /\ c("H") \in Nat
    BY <1>13, <2>1
  <2>3. ~(c("H") <= c("L"))
    BY <2>2
  <2>4. "H" \in P
    BY <1>6, <1>9 DEF Tasks
  <2>. QED  BY <1>7, <2>3, <2>4
<1>. QED  BY <1>4, <1>14, <1>15, <1>16 DEF R

-----------------------------------------------------------------------------
(* What the calls change                                                   *)

(* t goes on to its next call, and nothing else changes that the other sees. *)
Advances(t) ==
  /\ UNCHANGED <<waiting, owner, bprio, RestorePriority, clock, late>>
  /\ wake' \in [Tasks -> Nat] /\ wake'["L"] = wake["L"] /\ (highCall # 1 \/ t # "H" => wake'["H"] = wake["H"])
  /\ calls' = [calls EXCEPT ![t] = calls[t] + 1] /\ calls[t] <= 14
  /\ t = "L" => lowCall \in {4, 12}
  /\ t = "H" => highCall \in {5, 9, 14} \/ (highCall = 1 /\ wake'["H"] = clock + 1)

LEMMA NestedCalls ==
  ASSUME NestedType, NEW t \in Tasks, calls' = [calls EXCEPT ![t] = calls[t] + 1], calls[t] <= 14
  PROVE  /\ calls' \in [Tasks -> 1..15]
         /\ lowCall' = (IF t = "L" THEN lowCall + 1 ELSE lowCall)
         /\ highCall' = (IF t = "H" THEN highCall + 1 ELSE highCall)
<1>1. calls \in [Tasks -> 1..15] /\ calls[t] + 1 \in 1..15
  BY DEF NestedType
<1>. QED  BY <1>1 DEF Tasks, lowCall, highCall

LEMMA AdvancesKeep ==
  ASSUME Nested, NEW t \in Tasks, Advances(t)
  PROVE  Nested'
<1>1. NestedType /\ Held /\ Lifted /\ Saved /\ Apart /\ Awake /\ Prompt
  BY DEF Nested
<1>2. /\ calls' \in [Tasks -> 1..15]
      /\ lowCall' = (IF t = "L" THEN lowCall + 1 ELSE lowCall)
      /\ highCall' = (IF t = "H" THEN highCall + 1 ELSE highCall)
  BY <1>1, NestedCalls DEF Advances
<1>3. NestedType'
  BY <1>1, <1>2 DEF NestedType, Advances
<1>4. /\ t = "L" => lowCall \in {4, 12}
      /\ t = "H" => highCall \in {1, 5, 9, 14} /\ (highCall = 1 => wake'["H"] = clock + 1)
      /\ wake'["L"] = wake["L"] /\ (highCall # 1 \/ t # "H" => wake'["H"] = wake["H"])
      /\ waiting' = waiting /\ owner' = owner /\ bprio' = bprio /\ RestorePriority' = RestorePriority
      /\ clock' = clock /\ late' = late
  BY DEF Advances
<1>. HIDE DEF lowCall, highCall
<1>5. /\ lowCall \in 1..15 /\ highCall \in 1..15 /\ clock \in Nat /\ late \in BOOLEAN /\ wake["H"] \in Nat
      /\ waiting["H"] \in {"nothing", "A", "B"}
  BY <1>1, NestedValues
<1>6. Held'
  BY <1>1, <1>2, <1>4, <1>5 DEF Held
<1>7. Lifted'
  BY <1>1, <1>2, <1>4, <1>5 DEF Lifted
<1>8. Saved'
  BY <1>1, <1>2, <1>4, <1>5 DEF Saved
<1>9. Apart'
  BY <1>1, <1>2, <1>4, <1>5 DEF Apart
<1>10. Awake'
  <2>1. highCall = 1 => waiting["H"] = "nothing"
    BY <1>1, <1>5 DEF Held
  <2>. QED  BY <1>1, <1>2, <1>4, <1>5, <2>1 DEF Awake
<1>11. Prompt'
  BY <1>1, <1>2, <1>4, <1>5 DEF Prompt
<1>. QED  BY <1>3, <1>6, <1>7, <1>8, <1>9, <1>10, <1>11 DEF Nested

LEMMA NestedAcquire ==
  ASSUME Nested, exercise = "TaskD", NEW t \in Tasks, Xenomai!Running(t), Xenomai!Acquire(t), UNCHANGED <<clock, late>>
  PROVE  Nested'
<1>1. NestedType /\ Held /\ Lifted /\ Saved /\ Apart /\ Awake /\ Prompt
  BY DEF Nested
<1>2. /\ wake[t] <= clock /\ waiting[t] = "nothing"
      /\ lowCall \in 4..11 /\ highCall <= 3 /\ waiting["L"] = "nothing" => t # "H"
      /\ lowCall = 1 /\ highCall <= 14 /\ wake["H"] <= clock /\ waiting["H"] = "nothing" /\ waiting["L"] = "nothing"
           => t # "L"
  BY NestedRuns
<1>3. NestedWhere(t) /\ NestedWith(t)
  BY <1>1, WhereNestedAre DEF NestedType
<1>. DEFINE r == Xenomai!Call(t)[2]
<1>4. /\ Xenomai!At(t, "acquire")
      /\ \/ owner[r] = "nobody" /\ owner' = [owner EXCEPT ![r] = t] /\ calls' = [calls EXCEPT ![t] = calls[t] + 1]
            /\ waiting' = waiting
         \/ owner[r] # "nobody" /\ waiting' = [waiting EXCEPT ![t] = r] /\ owner' = owner /\ calls' = calls
      /\ wake' = wake /\ bprio' = bprio /\ RestorePriority' = RestorePriority /\ clock' = clock /\ late' = late
  BY DEF Xenomai!Acquire, Xenomai!Next1, Xenomai!NoOne
<1>5. /\ t = "L" => lowCall \in {1, 5} /\ r = (IF lowCall = 1 THEN "A" ELSE "B")
      /\ t = "H" => highCall \in {2, 6} /\ r = (IF highCall = 6 THEN "A" ELSE "B")
      /\ t \in {"L", "H"} /\ r \in {"A", "B"} /\ calls[t] <= 14
  BY <1>3, <1>4 DEF NestedWhere, NestedWith, RestOfA, lowCall, highCall
<1>. HIDE DEF r
<1>6. /\ lowCall \in 1..15 /\ highCall \in 1..15 /\ clock \in Nat /\ late \in BOOLEAN /\ wake["H"] \in Nat
      /\ waiting["L"] \in {"nothing", "A", "B"} /\ waiting["H"] \in {"nothing", "A", "B"}
  BY <1>1, NestedValues
<1>7. CASE owner[r] = "nobody"
  <2>1. /\ calls' \in [Tasks -> 1..15]
        /\ lowCall' = (IF t = "L" THEN lowCall + 1 ELSE lowCall)
        /\ highCall' = (IF t = "H" THEN highCall + 1 ELSE highCall)
    BY <1>1, <1>4, <1>5, <1>7, NestedCalls
  <2>2. /\ owner' \in [Xenomai!Resources -> Tasks \cup {"nobody"}]
        /\ owner'["A"] = (IF r = "A" THEN t ELSE owner["A"])
        /\ owner'["B"] = (IF r = "B" THEN t ELSE owner["B"])
        /\ waiting' = waiting
    BY <1>1, <1>4, <1>5, <1>7 DEF NestedType, Xenomai!Resources
  <2>3. NestedType'
    BY <1>1, <1>4, <2>1, <2>2 DEF NestedType
  <2>4. t = "H" => wake["H"] <= clock /\ waiting["H"] = "nothing"
    BY <1>2
  <2>5. t = "L" => waiting["L"] = "nothing"
    BY <1>2
  <2>. HIDE DEF lowCall, highCall
  <2>6. Held'
    BY <1>1, <1>5, <1>6, <1>7, <2>1, <2>2, <2>4, <2>5 DEF Held
  <2>7. Lifted'
    BY <1>1, <1>4, <1>5, <1>6, <2>1 DEF Lifted
  <2>8. Saved'
    BY <1>1, <1>4, <1>5, <1>6, <1>7, <2>1, <2>2 DEF Saved, Held
  <2>9. Apart'
    BY <1>1, <1>5, <1>6, <2>1 DEF Apart
  <2>10. Awake'
    BY <1>1, <1>4, <1>5, <1>6, <2>1, <2>2, <2>4 DEF Awake
  <2>11. Prompt'
    <3>1. t = "L" /\ lowCall = 1 /\ ~late => highCall = 15 \/ (highCall = 2 /\ clock < wake["H"])
      BY <1>1, <1>2, <1>6 DEF Prompt, Awake
    <3>. QED  BY <1>1, <1>2, <1>4, <1>5, <1>6, <2>1, <2>2, <2>4, <3>1 DEF Prompt
  <2>. QED  BY <2>3, <2>6, <2>7, <2>8, <2>9, <2>10, <2>11 DEF Nested
<1>8. CASE owner[r] # "nobody"
  <2>1. lowCall' = lowCall /\ highCall' = highCall /\ owner' = owner /\ calls' = calls
    BY <1>4, <1>8 DEF lowCall, highCall
  <2>2. /\ waiting' \in [Tasks -> {"nothing", "A", "B"}]
        /\ waiting'["main"] = (IF t = "main" THEN r ELSE waiting["main"])
        /\ waiting'["M"] = (IF t = "M" THEN r ELSE waiting["M"])
        /\ waiting'["L"] = (IF t = "L" THEN r ELSE waiting["L"])
        /\ waiting'["H"] = (IF t = "H" THEN r ELSE waiting["H"])
    BY <1>1, <1>4, <1>5, <1>8 DEF NestedType, Tasks
  <2>3. NestedType'
    BY <1>1, <1>4, <2>1, <2>2 DEF NestedType
  <2>4. t = "H" => wake["H"] <= clock /\ waiting["H"] = "nothing"
    BY <1>2
  <2>5. t = "L" => waiting["L"] = "nothing"
    BY <1>2
  <2>. HIDE DEF lowCall, highCall
  <2>6. Held'
    BY <1>1, <1>5, <1>6, <1>8, <2>1, <2>2, <2>4, <2>5 DEF Held
  <2>7. Lifted'
    BY <1>1, <1>4, <2>1 DEF Lifted
  <2>8. Saved'
    BY <1>1, <1>4, <1>5, <1>6, <2>1, <2>2, <2>4, <2>5 DEF Saved
  <2>9. Apart'
    BY <1>1, <2>1 DEF Apart
  <2>10. Awake'
    BY <1>1, <1>4, <1>5, <1>6, <2>1, <2>2, <2>4 DEF Awake
  <2>11. late
    <3>1. t = "L" /\ lowCall = 1 /\ ~late => highCall = 15 \/ highCall = 2
      BY <1>1, <1>2, <1>6 DEF Prompt, Awake
    <3>. QED  BY <1>1, <1>2, <1>5, <1>6, <1>8, <2>4, <3>1 DEF Prompt, Held
  <2>12. Prompt'
    BY <1>4, <2>11 DEF Prompt
  <2>. QED  BY <2>3, <2>6, <2>7, <2>8, <2>9, <2>10, <2>12 DEF Nested
<1>. QED  BY <1>7, <1>8

LEMMA NestedRelease ==
  ASSUME Nested, exercise = "TaskD", NEW t \in Tasks, Xenomai!Running(t), Xenomai!Release(t), UNCHANGED <<clock, late>>
  PROVE  Nested'
<1>1. NestedType /\ Held /\ Lifted /\ Saved /\ Apart /\ Awake /\ Prompt
  BY DEF Nested
<1>3. NestedWhere(t) /\ NestedWith(t)
  BY <1>1, WhereNestedAre DEF NestedType
<1>. DEFINE r == Xenomai!Call(t)[2]
<1>4. /\ Xenomai!At(t, "release")
      /\ \/ /\ \A u \in Tasks : waiting[u] # r
            /\ owner' = [owner EXCEPT ![r] = "nobody"] /\ calls' = [calls EXCEPT ![t] = calls[t] + 1] /\ waiting' = waiting
         \/ \E u \in Tasks : /\ waiting[u] = r
                             /\ owner' = [owner EXCEPT ![r] = u] /\ waiting' = [waiting EXCEPT ![u] = "nothing"]
                             /\ calls' = [calls EXCEPT ![t] = @ + 1, ![u] = @ + 1]
      /\ wake' = wake /\ bprio' = bprio /\ RestorePriority' = RestorePriority /\ clock' = clock /\ late' = late
  BY DEF Xenomai!Release, Xenomai!Next1, Xenomai!NoOne, Xenomai!Nothing, Tasks, Xenomai!Tasks
<1>5. /\ t = "L" => lowCall \in {8, 10} /\ r = (IF lowCall = 10 THEN "A" ELSE "B")
      /\ t = "H" => highCall \in {10, 12} /\ r = (IF highCall = 10 THEN "A" ELSE "B")
      /\ t \in {"L", "H"} /\ r \in {"A", "B"} /\ calls[t] <= 14
  BY <1>3, <1>4 DEF NestedWhere, NestedWith, RestOfA, lowCall, highCall
<1>. HIDE DEF r
<1>6. /\ lowCall \in 1..15 /\ highCall \in 1..15 /\ clock \in Nat /\ late \in BOOLEAN /\ wake["H"] \in Nat
      /\ waiting["L"] \in {"nothing", "A", "B"} /\ waiting["H"] \in {"nothing", "A", "B"}
  BY <1>1, NestedValues
<1>7. CASE /\ \A u \in Tasks : waiting[u] # r
           /\ owner' = [owner EXCEPT ![r] = "nobody"] /\ calls' = [calls EXCEPT ![t] = calls[t] + 1] /\ waiting' = waiting
  <2>1. /\ calls' \in [Tasks -> 1..15]
        /\ lowCall' = (IF t = "L" THEN lowCall + 1 ELSE lowCall)
        /\ highCall' = (IF t = "H" THEN highCall + 1 ELSE highCall)
    BY <1>1, <1>5, <1>7, NestedCalls
  <2>2. /\ owner' \in [Xenomai!Resources -> Tasks \cup {"nobody"}]
        /\ owner'["A"] = (IF r = "A" THEN "nobody" ELSE owner["A"])
        /\ owner'["B"] = (IF r = "B" THEN "nobody" ELSE owner["B"])
        /\ waiting' = waiting /\ waiting["L"] # r /\ waiting["H"] # r
    BY <1>1, <1>5, <1>7 DEF NestedType, Xenomai!Resources, Tasks
  <2>3. NestedType'
    BY <1>1, <1>4, <2>1, <2>2 DEF NestedType
  <2>. HIDE DEF lowCall, highCall
  <2>6. Held'
    BY <1>1, <1>5, <1>6, <2>1, <2>2 DEF Held
  <2>7. Lifted'
    BY <1>1, <1>4, <1>5, <1>6, <2>1 DEF Lifted
  <2>8. Saved'
    BY <1>1, <1>4, <1>5, <1>6, <2>1, <2>2 DEF Saved, Held
  <2>9. Apart'
    BY <1>1, <1>5, <1>6, <2>1 DEF Apart, Held
  <2>10. Awake'
    BY <1>1, <1>4, <1>5, <1>6, <2>1, <2>2 DEF Awake
  <2>11. Prompt'
    BY <1>1, <1>4, <1>5, <1>6, <2>1, <2>2 DEF Prompt
  <2>. QED  BY <2>3, <2>6, <2>7, <2>8, <2>9, <2>10, <2>11 DEF Nested
<1>8. ASSUME NEW u \in Tasks, waiting[u] = r, owner' = [owner EXCEPT ![r] = u],
             waiting' = [waiting EXCEPT ![u] = "nothing"], calls' = [calls EXCEPT ![t] = @ + 1, ![u] = @ + 1]
      PROVE  Nested'
  <2>0. \/ t = "L" /\ u = "H" /\ lowCall = 8 /\ highCall = 2 /\ r = "B"
        \/ t = "H" /\ u = "L" /\ lowCall = 1 /\ highCall = 10 /\ r = "A"
    <3>1. u \in {"L", "H"}
      BY <1>1, <1>5, <1>8 DEF Held, Tasks
    <3>2. CASE u = "L"
      <4>1. waiting["L"] = r /\ owner[r] = "H" /\ lowCall \in {1, 5} /\ (r = "A" <=> lowCall = 1)
        BY <1>1, <1>5, <1>6, <1>8, <3>2 DEF Held
      <4>2. t = "H"
        BY <1>1, <1>5, <1>6, <4>1 DEF Held
      <4>. QED  BY <1>1, <1>5, <1>6, <3>2, <4>1, <4>2 DEF Apart
    <3>3. CASE u = "H"
      <4>1. waiting["H"] = r /\ owner[r] = "L" /\ highCall \in {2, 6} /\ (r = "A" <=> highCall = 6)
        BY <1>1, <1>5, <1>6, <1>8, <3>3 DEF Held
      <4>2. t = "L"
        BY <1>1, <1>5, <1>6, <4>1 DEF Held
      <4>3. lowCall = 10 => highCall # 6
        BY <1>1, <1>6 DEF Apart
      <4>4. lowCall \in {8, 10} /\ r = (IF lowCall = 10 THEN "A" ELSE "B")
        BY <1>5, <4>2
      <4>. HIDE DEF lowCall, highCall
      <4>. QED  BY <3>3, <4>1, <4>2, <4>3, <4>4
    <3>. QED  BY <3>1, <3>2, <3>3
  <2>1. /\ calls' \in [Tasks -> 1..15] /\ lowCall' = lowCall + 1 /\ highCall' = highCall + 1
    BY <1>1, <1>8, <2>0 DEF NestedType, Tasks, lowCall, highCall
  <2>2. /\ owner' \in [Xenomai!Resources -> Tasks \cup {"nobody"}]
        /\ owner'["A"] = (IF r = "A" THEN u ELSE owner["A"])
        /\ owner'["B"] = (IF r = "B" THEN u ELSE owner["B"])
    BY <1>1, <1>5, <1>8 DEF NestedType, Xenomai!Resources
  <2>3. /\ waiting' \in [Tasks -> {"nothing", "A", "B"}]
        /\ waiting'["main"] = (IF u = "main" THEN "nothing" ELSE waiting["main"])
        /\ waiting'["M"] = (IF u = "M" THEN "nothing" ELSE waiting["M"])
        /\ waiting'["L"] = (IF u = "L" THEN "nothing" ELSE waiting["L"])
        /\ waiting'["H"] = (IF u = "H" THEN "nothing" ELSE waiting["H"])
    BY <1>1, <1>8 DEF NestedType, Tasks
  <2>4. NestedType'
    BY <1>1, <1>4, <2>1, <2>2, <2>3 DEF NestedType
  <2>5. u = "H" => waiting["H"] = "B"
    BY <1>8, <2>0
  <2>6. u = "L" => waiting["L"] = "A"
    BY <1>8, <2>0
  <2>. HIDE DEF lowCall, highCall
  <2>7. Held'
    BY <1>1, <1>6, <2>0, <2>1, <2>2, <2>3 DEF Held
  <2>8. Lifted'
    BY <1>1, <1>4, <1>6, <2>0, <2>1 DEF Lifted
  <2>9. Saved'
    BY <1>1, <1>4, <1>6, <2>0, <2>1, <2>3 DEF Saved
  <2>10. Apart'
    BY <1>1, <1>6, <2>0, <2>1 DEF Apart
  <2>11. Awake'
    BY <1>1, <1>4, <1>6, <2>0, <2>1, <2>3, <2>5 DEF Awake
  <2>12. Prompt'
    BY <1>1, <1>4, <2>0, <2>5, <2>6 DEF Prompt
  <2>. QED  BY <2>4, <2>7, <2>8, <2>9, <2>10, <2>11, <2>12 DEF Nested
<1>. QED  BY <1>4, <1>7, <1>8

LEMMA NestedInquire ==
  ASSUME Nested, exercise = "TaskD", NEW t \in Tasks, Xenomai!Running(t), Xenomai!Inquire(t), UNCHANGED <<clock, late>>
  PROVE  Nested'
<1>1. NestedType /\ Held /\ Lifted /\ Saved /\ Apart /\ Awake /\ Prompt
  BY DEF Nested
<1>2. /\ lowCall \in 4..11 /\ highCall <= 3 /\ waiting["L"] = "nothing" => t # "H"
      /\ highCall \in 11..13 /\ lowCall = 2 => t # "L"
  BY NestedRuns
<1>3. NestedWhere(t) /\ NestedWith(t)
  BY <1>1, WhereNestedAre DEF NestedType
<1>. DEFINE r == Xenomai!Call(t)[2]  p == Xenomai!cprio(t)
<1>4. /\ Xenomai!At(t, "inquire")
      /\ RestorePriority' = [RestorePriority EXCEPT ![r] = p] /\ calls' = [calls EXCEPT ![t] = calls[t] + 1]
      /\ waiting' = waiting /\ owner' = owner /\ wake' = wake /\ bprio' = bprio /\ clock' = clock /\ late' = late
  BY DEF Xenomai!Inquire, Xenomai!Next1
<1>5. /\ t = "L" => lowCall \in {2, 6} /\ r = (IF lowCall = 2 THEN "A" ELSE "B")
      /\ t = "H" => highCall \in {3, 7} /\ r = (IF highCall = 7 THEN "A" ELSE "B")
      /\ t \in {"L", "H"} /\ r \in {"A", "B"} /\ calls[t] <= 14
  BY <1>3, <1>4 DEF NestedWhere, NestedWith, RestOfA, lowCall, highCall
<1>6. /\ lowCall \in 1..15 /\ highCall \in 1..15 /\ clock \in Nat /\ late \in BOOLEAN /\ wake["H"] \in Nat
      /\ waiting["L"] \in {"nothing", "A", "B"} /\ waiting["H"] \in {"nothing", "A", "B"}
      /\ bprio["L"] \in Nat /\ bprio["H"] \in Nat
  BY <1>1, NestedValues
<1>. HIDE DEF r, lowCall, highCall
<1>7. /\ t = "L" /\ lowCall = 2 => p = 80 \/ (p \in Nat /\ waiting["H"] = "A")
      /\ t = "L" /\ lowCall = 6 => p = 90
  <2>1. lowCall = 2 => bprio["L"] = 80 /\ (waiting["H"] # "nothing" => waiting["H"] = "A")
    BY <1>1, <1>6 DEF Lifted, Held
  <2>2. lowCall = 6 => bprio["L"] = 90 /\ bprio["H"] <= 90
    BY <1>1, <1>6 DEF Lifted
  <2>3. Xenomai!cprio("L") = bprio["L"] \/ (Xenomai!cprio("L") = bprio["H"] /\ waiting["H"] # "nothing" /\ bprio["H"] > bprio["L"])
    BY <1>6, NestedPriorities
  <2>. QED  BY <1>6, <2>1, <2>2, <2>3
<1>8. /\ t = "H" /\ highCall = 3 => p = 82 \/ (p \in Nat /\ waiting["L"] = "B")
      /\ t = "H" /\ highCall = 7 => p = 85
  <2>1. highCall = 3 => bprio["H"] = 82 /\ (waiting["L"] # "nothing" => waiting["L"] = "B")
    BY <1>1, <1>6 DEF Lifted, Held
  <2>2. highCall = 7 => bprio["H"] = 85 /\ (waiting["L"] # "nothing" => bprio["L"] = 80)
    <3>1. highCall = 7 /\ waiting["L"] # "nothing" => lowCall = 1
      BY <1>1, <1>6 DEF Held
    <3>. QED  BY <1>1, <1>6, <3>1 DEF Lifted
  <2>3. Xenomai!cprio("H") = bprio["H"] \/ (Xenomai!cprio("H") = bprio["L"] /\ waiting["L"] # "nothing" /\ bprio["L"] > bprio["H"])
    BY <1>6, NestedPriorities
  <2>. QED  BY <1>6, <2>1, <2>2, <2>3
<1>. HIDE DEF p
<1>9. p \in Nat
  BY <1>5, <1>7, <1>8
<1>10. /\ calls' \in [Tasks -> 1..15]
       /\ lowCall' = (IF t = "L" THEN lowCall + 1 ELSE lowCall)
       /\ highCall' = (IF t = "H" THEN highCall + 1 ELSE highCall)
  BY <1>1, <1>4, <1>5, NestedCalls
<1>11. /\ RestorePriority' \in [Xenomai!Resources -> Nat]
       /\ RestorePriority'["A"] = (IF r = "A" THEN p ELSE RestorePriority["A"])
       /\ RestorePriority'["B"] = (IF r = "B" THEN p ELSE RestorePriority["B"])
  BY <1>1, <1>4, <1>5, <1>9 DEF NestedType, Xenomai!Resources
<1>12. NestedType'
  BY <1>1, <1>4, <1>10, <1>11 DEF NestedType
<1>13. Held'
  BY <1>1, <1>4, <1>5, <1>6, <1>10 DEF Held
<1>14. Lifted'
  BY <1>1, <1>4, <1>5, <1>6, <1>10 DEF Lifted
<1>15. Apart'
  <2>1. lowCall \in 9..11 => waiting["L"] = "nothing"
    BY <1>1, <1>6 DEF Held
  <2>. QED  BY <1>1, <1>2, <1>5, <1>6, <1>10, <2>1 DEF Apart
<1>16. Saved'
  <2>1. CASE t = "L" /\ lowCall = 2
    <3>1. highCall \notin 8..11
      BY <1>1, <1>2, <1>6, <2>1 DEF Held
    <3>. QED  BY <1>1, <1>4, <1>5, <1>6, <1>7, <1>10, <1>11, <2>1, <3>1 DEF Saved
  <2>2. CASE t = "L" /\ lowCall = 6
    <3>1. highCall \notin 4..13
      BY <1>1, <1>6, <2>2 DEF Held, Apart
    <3>. QED  BY <1>1, <1>4, <1>5, <1>6, <1>7, <1>10, <1>11, <2>2, <3>1 DEF Saved
  <2>3. CASE t = "H" /\ highCall = 3
    <3>1. lowCall \notin 6..8
      BY <1>1, <1>6, <2>3 DEF Held
    <3>2. lowCall \notin 9..11
      BY <1>1, <1>6, <1>10, <1>15, <2>3 DEF Apart
    <3>. QED  BY <1>1, <1>4, <1>5, <1>6, <1>8, <1>10, <1>11, <2>3, <3>1, <3>2 DEF Saved
  <2>4. CASE t = "H" /\ highCall = 7
    <3>1. lowCall \notin 3..11
      BY <1>1, <1>6, <2>4 DEF Held, Apart
    <3>. QED  BY <1>1, <1>4, <1>5, <1>6, <1>8, <1>10, <1>11, <2>4, <3>1 DEF Saved
  <2>. QED  BY <1>5, <2>1, <2>2, <2>3, <2>4
<1>17. Awake'
  BY <1>1, <1>4, <1>5, <1>6, <1>10 DEF Awake
<1>18. Prompt'
  BY <1>1, <1>4, <1>5, <1>6, <1>10 DEF Prompt
<1>. QED  BY <1>12, <1>13, <1>14, <1>15, <1>16, <1>17, <1>18 DEF Nested

LEMMA NestedSetPriority ==
  ASSUME Nested, exercise = "TaskD", NEW t \in Tasks, Xenomai!SetPriority(t), UNCHANGED <<clock, late>>
  PROVE  Nested'
<1>1. NestedType /\ Held /\ Lifted /\ Saved /\ Apart /\ Awake /\ Prompt
  BY DEF Nested
<1>2. NestedWhere(t) /\ NestedWith(t)
  BY <1>1, WhereNestedAre DEF NestedType
<1>. DEFINE r == Xenomai!Call(t)[2]
            p == IF Xenomai!At(t, "set") THEN Xenomai!Priority[r] ELSE RestorePriority[r]
<1>3. ~(Xenomai!At(t, "set") /\ Xenomai!At(t, "restore"))
  BY <1>2 DEF NestedWhere
<1>4. /\ Xenomai!At(t, "set") \/ Xenomai!At(t, "restore")
      /\ bprio' = [bprio EXCEPT ![t] = p] /\ calls' = [calls EXCEPT ![t] = calls[t] + 1]
      /\ waiting' = waiting /\ owner' = owner /\ wake' = wake /\ RestorePriority' = RestorePriority
      /\ clock' = clock /\ late' = late
  BY <1>3 DEF Xenomai!SetPriority, Xenomai!Next1
<1>5. /\ t = "L" => lowCall \in {3, 7, 9, 11}
      /\ t = "H" => highCall \in {4, 8, 11, 13}
      /\ t \in {"L", "H"} /\ r \in {"A", "B"} /\ calls[t] <= 14
  BY <1>2, <1>4 DEF NestedWhere, NestedWith, lowCall, highCall
<1>6. /\ lowCall \in 1..15 /\ highCall \in 1..15 /\ clock \in Nat /\ late \in BOOLEAN /\ wake["H"] \in Nat
      /\ waiting["L"] \in {"nothing", "A", "B"} /\ waiting["H"] \in {"nothing", "A", "B"}
      /\ RestorePriority["A"] \in Nat /\ RestorePriority["B"] \in Nat
  BY <1>1, NestedValues
<1>7. Xenomai!Priority["A"] = 90 /\ Xenomai!Priority["B"] = 85
  BY DEF Xenomai!Priority
<1>8. /\ t = "L" /\ lowCall = 3  => p = Xenomai!Priority["A"]
      /\ t = "L" /\ lowCall = 7  => p = Xenomai!Priority["B"]
      /\ t = "L" /\ lowCall = 9  => p = RestorePriority["B"]
      /\ t = "L" /\ lowCall = 11 => p = RestorePriority["A"]
      /\ t = "H" /\ highCall = 4 => p = Xenomai!Priority["B"]
      /\ t = "H" /\ highCall = 8 => p = Xenomai!Priority["A"]
      /\ t = "H" /\ highCall = 11 => p = RestorePriority["A"]
      /\ t = "H" /\ highCall = 13 => p = RestorePriority["B"]
  BY <1>2, <1>4 DEF NestedWhere, NestedWith, RestOfA, lowCall, highCall
<1>. HIDE DEF r, p, lowCall, highCall
<1>9. /\ t = "L" => p = (IF lowCall = 3 THEN 90 ELSE IF lowCall = 7 THEN 85 ELSE IF lowCall = 9 THEN 90 ELSE 80)
      /\ t = "H" => p = (IF highCall = 4 THEN 85 ELSE IF highCall = 8 THEN 90 ELSE IF highCall = 11 THEN 85 ELSE 82)
  <2>1. lowCall = 9 => RestorePriority["B"] = 90
    BY <1>1, <1>6 DEF Saved
  <2>2. lowCall = 11 => RestorePriority["A"] = 80
    BY <1>1, <1>6 DEF Saved
  <2>3. highCall = 11 => RestorePriority["A"] = 85
    BY <1>1, <1>6 DEF Saved
  <2>4. highCall = 13 => RestorePriority["B"] = 82
    BY <1>1, <1>6 DEF Saved
  <2>. QED  BY <1>5, <1>7, <1>8, <2>1, <2>2, <2>3, <2>4
<1>10. /\ calls' \in [Tasks -> 1..15]
       /\ lowCall' = (IF t = "L" THEN lowCall + 1 ELSE lowCall)
       /\ highCall' = (IF t = "H" THEN highCall + 1 ELSE highCall)
  BY <1>1, <1>4, <1>5, NestedCalls
<1>11. /\ bprio' \in [Tasks -> Nat]
       /\ bprio'["main"] = bprio["main"] /\ bprio'["M"] = bprio["M"]
       /\ bprio'["L"] = (IF t = "L" THEN p ELSE bprio["L"])
       /\ bprio'["H"] = (IF t = "H" THEN p ELSE bprio["H"])
  <2>1. p \in Nat
    BY <1>5, <1>9
  <2>. QED  BY <1>1, <1>4, <1>5, <2>1 DEF NestedType, Tasks
<1>12. NestedType'
  BY <1>1, <1>4, <1>10, <1>11 DEF NestedType
<1>13. Held'
  BY <1>1, <1>4, <1>5, <1>6, <1>10 DEF Held
<1>14. Lifted'
  BY <1>1, <1>5, <1>6, <1>9, <1>10, <1>11 DEF Lifted
<1>15. Saved'
  BY <1>1, <1>4, <1>5, <1>6, <1>10 DEF Saved, Held
<1>16. Apart'
  BY <1>1, <1>5, <1>6, <1>10 DEF Apart
<1>17. Awake'
  BY <1>1, <1>4, <1>5, <1>6, <1>10 DEF Awake
<1>18. Prompt'
  BY <1>1, <1>4, <1>5, <1>6, <1>10 DEF Prompt
<1>. QED  BY <1>12, <1>13, <1>14, <1>15, <1>16, <1>17, <1>18 DEF Nested

LEMMA NestedTick ==
  ASSUME Nested, exercise = "TaskD", Xenomai!Tick
  PROVE  Nested'
<1>1. NestedType /\ Held /\ Lifted /\ Saved /\ Apart /\ Awake /\ Prompt
  BY DEF Nested
<1>2. /\ clock' = clock + 1
      /\ calls' = calls /\ wake' = wake /\ waiting' = waiting /\ owner' = owner /\ bprio' = bprio
      /\ RestorePriority' = RestorePriority
  BY DEF Xenomai!Tick
<1>3. late' = (late \/ \E t \in Tasks : Xenomai!InWindow(t))
  BY DEF Xenomai!Tick, Tasks, Xenomai!Tasks
<1>4. /\ lowCall \in 1..15 /\ highCall \in 1..15 /\ clock \in Nat /\ late \in BOOLEAN /\ wake["H"] \in Nat
  BY <1>1, NestedValues
<1>5. lowCall' = lowCall /\ highCall' = highCall
  BY <1>2 DEF lowCall, highCall
<1>6. NestedType'
  <2>1. late' \in BOOLEAN /\ clock' \in Nat
    BY <1>2, <1>3, <1>4
  <2>. QED  BY <1>1, <1>2, <2>1 DEF NestedType
<1>7. ~late' => ~late /\ lowCall \notin 2..3
  <2>. SUFFICES ASSUME ~late' PROVE ~late /\ lowCall \notin 2..3
    OBVIOUS
  <2>1. ~late /\ ~Xenomai!At("L", "inquire") /\ ~Xenomai!At("L", "set")
    BY <1>3 DEF Tasks, Xenomai!InWindow
  <2>2. NestedWhere("L")
    BY <1>1, WhereNestedAre DEF NestedType, Tasks
  <2>. QED  BY <1>4, <2>1, <2>2 DEF NestedWhere, lowCall
<1>. HIDE DEF lowCall, highCall
<1>8. Held' /\ Lifted' /\ Saved' /\ Apart'
  BY <1>1, <1>2, <1>5 DEF Held, Lifted, Saved, Apart
<1>9. Awake'
  BY <1>1, <1>2, <1>4, <1>5 DEF Awake
<1>10. Prompt'
  BY <1>1, <1>2, <1>4, <1>5, <1>7 DEF Prompt
<1>. QED  BY <1>6, <1>8, <1>9, <1>10 DEF Nested

LEMMA NestedInit == Xenomai!Init /\ exercise = "TaskD" => Nested
<1>. SUFFICES ASSUME Xenomai!Init PROVE Nested
  OBVIOUS
<1>1. /\ calls = [t \in Tasks |-> 1] /\ wake = [t \in Tasks |-> 0] /\ waiting = [t \in Tasks |-> "nothing"]
      /\ owner = [r \in Xenomai!Resources |-> "nobody"] /\ bprio = [t \in Tasks |-> Xenomai!priority[t]]
      /\ RestorePriority = [r \in Xenomai!Resources |-> 0] /\ clock = 0 /\ late = FALSE
  BY DEF Xenomai!Init, Tasks, Xenomai!Tasks, Xenomai!Nothing, Xenomai!NoOne
<1>2. /\ Xenomai!priority["main"] = 99 /\ Xenomai!priority["L"] = 80
      /\ Xenomai!priority["M"] = 81 /\ Xenomai!priority["H"] = 82
  BY DEF Xenomai!priority
<1>3. \A t \in Tasks : Xenomai!priority[t] \in Nat
  BY <1>2 DEF Tasks
<1>4. NestedType
  <2>1. owner \in [Xenomai!Resources -> Tasks \cup {"nobody"}] /\ RestorePriority \in [Xenomai!Resources -> Nat]
    BY <1>1
  <2>2. calls \in [Tasks -> 1..15] /\ wake \in [Tasks -> Nat] /\ waiting \in [Tasks -> {"nothing", "A", "B"}]
    BY <1>1
  <2>3. bprio \in [Tasks -> Nat]
    BY <1>1, <1>3
  <2>. QED  BY <1>1, <2>1, <2>2, <2>3 DEF NestedType
<1>5. /\ lowCall = 1 /\ highCall = 1 /\ owner["A"] = "nobody" /\ owner["B"] = "nobody"
      /\ waiting["main"] = "nothing" /\ waiting["M"] = "nothing" /\ waiting["L"] = "nothing" /\ waiting["H"] = "nothing"
      /\ bprio["main"] = 99 /\ bprio["L"] = 80 /\ bprio["M"] = 81 /\ bprio["H"] = 82 /\ wake["L"] = 0 /\ wake["H"] = 0 /\ clock = 0
  BY <1>1, <1>2 DEF Tasks, Xenomai!Resources, lowCall, highCall
<1>. HIDE DEF lowCall, highCall
<1>6. Held
  BY <1>5 DEF Held
<1>7. Lifted
  BY <1>5 DEF Lifted
<1>8. Saved /\ Apart /\ Awake /\ Prompt
  BY <1>5 DEF Saved, Apart, Awake, Prompt
<1>. QED  BY <1>4, <1>6, <1>7, <1>8 DEF Nested

NestedInv == exercise = "TaskD" => Nested

LEMMA NestedNext == NestedInv /\ [Xenomai!Next]_taskVars => NestedInv'
<1>. SUFFICES ASSUME NestedInv, [Xenomai!Next]_taskVars, exercise' = "TaskD" PROVE Nested'
  BY DEF NestedInv
<1>1. exercise = "TaskD" /\ Nested
  BY DEF NestedInv, taskVars, Xenomai!Next, Xenomai!Tick, Xenomai!Step
<1>2. CASE Xenomai!Tick
  BY <1>1, <1>2, NestedTick
<1>3. ASSUME NEW t \in Xenomai!Tasks, Xenomai!Step(t) PROVE Nested'
  <2>1. t \in Tasks /\ UNCHANGED <<clock, late>> /\ Xenomai!Running(t)
    BY <1>3 DEF Tasks, Xenomai!Tasks, Xenomai!Step
  <2>2. NestedType /\ calls[t] \in 1..15
    BY <1>1, <2>1 DEF Nested, NestedType
  <2>3. NestedWhere(t) /\ NestedWith(t)
    BY <1>1, <2>1, <2>2, WhereNestedAre
  <2>4. CASE Xenomai!Acquire(t)
    BY <1>1, <2>1, <2>4, NestedAcquire
  <2>5. CASE Xenomai!Release(t)
    BY <1>1, <2>1, <2>5, NestedRelease
  <2>6. CASE Xenomai!Inquire(t)
    BY <1>1, <2>1, <2>6, NestedInquire
  <2>7. CASE Xenomai!SetPriority(t)
    BY <1>1, <2>1, <2>7, NestedSetPriority
  <2>8. CASE Xenomai!Sleep(t)
    <3>. DEFINE d == Xenomai!Call(t)[2]
    <3>1. /\ Xenomai!At(t, "sleep") \/ Xenomai!At(t, "usleep")
          /\ wake' = [wake EXCEPT ![t] = clock + d] /\ calls' = [calls EXCEPT ![t] = calls[t] + 1]
          /\ UNCHANGED <<waiting, owner, bprio, RestorePriority>>
      BY <2>8 DEF Xenomai!Sleep, Xenomai!Next1
    <3>2. /\ (t = "H" /\ highCall = 1) \/ (t = "main" /\ calls[t] \in {1, 3})
          /\ d \in Nat /\ (t = "H" => d = 1)
      BY <2>3, <3>1 DEF NestedWhere, NestedWith, highCall
    <3>. HIDE DEF d
    <3>3. /\ wake' \in [Tasks -> Nat] /\ wake'["L"] = wake["L"]
          /\ wake'["H"] = (IF t = "H" THEN clock + d ELSE wake["H"])
      <4>1. wake \in [Tasks -> Nat] /\ clock + d \in Nat /\ t # "L"
        BY <2>2, <3>2 DEF NestedType
      <4>. QED  BY <3>1, <4>1 DEF Tasks
    <3>4. calls[t] <= 14
      BY <3>2 DEF highCall
    <3>. HIDE DEF highCall, lowCall
    <3>5. Advances(t)
      BY <2>1, <3>1, <3>2, <3>3, <3>4 DEF Advances
    <3>. QED  BY <1>1, <2>1, <3>5, AdvancesKeep
  <2>9. CASE Xenomai!BusyWaitEnds(t)
    <3>1. /\ Xenomai!At(t, "busy") /\ calls' = [calls EXCEPT ![t] = calls[t] + 1]
          /\ UNCHANGED <<wake, waiting, owner, bprio, RestorePriority>>
      BY <2>9 DEF Xenomai!BusyWaitEnds, Xenomai!Next1
    <3>2. (t = "L" /\ lowCall \in {4, 12}) \/ (t = "H" /\ highCall \in {5, 9, 14})
      BY <2>3, <3>1 DEF NestedWhere, lowCall, highCall
    <3>3. calls[t] <= 14
      BY <3>2 DEF lowCall, highCall
    <3>. HIDE DEF highCall, lowCall
    <3>4. Advances(t)
      BY <2>1, <2>2, <3>1, <3>2, <3>3 DEF Advances, NestedType
    <3>. QED  BY <1>1, <2>1, <3>4, AdvancesKeep
  <2>10. CASE Xenomai!SemP(t)
    BY <2>3, <2>10 DEF Xenomai!SemP, NestedWhere
  <2>11. CASE Xenomai!SemBroadcast(t)
    <3>1. t = "main" /\ calls[t] \in {2, 4}
      BY <2>3, <2>11 DEF Xenomai!SemBroadcast, NestedWhere
    <3>2. /\ calls' = [u \in Tasks |-> IF u = t \/ waiting[u] = "sem" THEN calls[u] + 1 ELSE calls[u]]
          /\ waiting' = [u \in Tasks |-> IF waiting[u] = "sem" THEN "nothing" ELSE waiting[u]]
          /\ UNCHANGED <<wake, owner, bprio, RestorePriority>>
      BY <2>11 DEF Xenomai!SemBroadcast, Tasks, Xenomai!Tasks, Xenomai!Nothing
    <3>3. \A u \in Tasks : waiting[u] # "sem"
      BY <2>2 DEF NestedType
    <3>4. waiting' = waiting
      BY <2>2, <3>2, <3>3 DEF NestedType
    <3>5. calls' = [calls EXCEPT ![t] = calls[t] + 1]
      <4>1. calls' = [u \in Tasks |-> IF u = t THEN calls[u] + 1 ELSE calls[u]]
        BY <3>2, <3>3
      <4>. QED  BY <2>2, <4>1 DEF NestedType
    <3>6. wake' \in [Tasks -> Nat] /\ UNCHANGED <<wake, owner, bprio, RestorePriority>>
      BY <2>2, <3>2 DEF NestedType
    <3>7. Advances(t)
      BY <2>1, <3>1, <3>4, <3>5, <3>6 DEF Advances
    <3>. QED  BY <1>1, <2>1, <3>7, AdvancesKeep
  <2>12. CASE Xenomai!Exit(t)
    <3>1. /\ calls' = [calls EXCEPT ![t] = calls[t] + 1] /\ UNCHANGED <<wake, waiting, owner, bprio, RestorePriority>>
          /\ t = "main" /\ calls[t] = 5
      BY <2>3, <2>12 DEF Xenomai!Exit, Xenomai!Next1, NestedWhere
    <3>2. Advances(t)
      BY <2>1, <2>2, <3>1 DEF Advances, NestedType
    <3>. QED  BY <1>1, <2>1, <3>2, AdvancesKeep
  <2>. QED  BY <1>3, <2>4, <2>5, <2>6, <2>7, <2>8, <2>9, <2>10, <2>11, <2>12 DEF Xenomai!Step
<1>4. CASE UNCHANGED taskVars
  BY <1>1, <1>4 DEF taskVars, Nested, NestedType, Held, Lifted, Saved, Apart, Awake, Prompt, lowCall, highCall
<1>. QED  BY <1>2, <1>3, <1>4 DEF Xenomai!Next

-----------------------------------------------------------------------------
(* In TaskA nobody changes a priority.                                      *)
PlainInv ==
  exercise = "TaskA" =>
    calls \in [Tasks -> Nat \ {0}] /\ bprio = [t \in Tasks |-> Xenomai!priority[t]]

LEMMA PlainPrograms ==
  ASSUME exercise = "TaskA", NEW t \in Tasks, calls[t] \in Nat \ {0}
  PROVE  ~Xenomai!At(t, "set") /\ ~Xenomai!At(t, "restore")
<1>. USE DEF Xenomai!At, Xenomai!Call, Xenomai!Finished
<1>0. Xenomai!Program["TaskA"] = [main |-> Xenomai!main(1), L |-> Xenomai!thread_fn, M |-> Xenomai!thread_fn, H |-> <<>>]
  BY DEF Xenomai!Program
<1>1. CASE t = "main"
  <2>. DEFINE P == <<<<"usleep", 1>>, <<"broadcast">>, <<"usleep", 1>>, <<"delete">>, <<"exit">>>>
  <2>1. Xenomai!Program[exercise][t] = P
    BY <1>0, <1>1 DEF Xenomai!main
  <2>2. /\ Len(P) = 5 /\ P[1] = <<"usleep", 1>> /\ P[2] = <<"broadcast">> /\ P[3] = <<"usleep", 1>>
        /\ P[4] = <<"delete">> /\ P[5] = <<"exit">>
    OBVIOUS
  <2>. HIDE DEF P
  <2>3. ~Xenomai!Finished(t) => calls[t] \in 1..5
    BY <2>1, <2>2
  <2>. QED  BY <2>1, <2>2, <2>3
<1>2. CASE t \in {"L", "M"}
  <2>. DEFINE P == <<<<"p", "sem">>>>
  <2>1. Xenomai!Program[exercise][t] = P
    BY <1>0, <1>2 DEF Xenomai!thread_fn
  <2>2. Len(P) = 1 /\ P[1] = <<"p", "sem">>
    OBVIOUS
  <2>. HIDE DEF P
  <2>3. ~Xenomai!Finished(t) => calls[t] = 1
    BY <2>1, <2>2
  <2>. QED  BY <2>1, <2>2, <2>3
<1>3. CASE t = "H"
  <2>1. Len(Xenomai!Program[exercise][t]) = 0
    BY <1>0, <1>3
  <2>. QED  BY <2>1
<1>. QED  BY <1>1, <1>2, <1>3 DEF Tasks

LEMMA PlainNext == PlainInv /\ [Xenomai!Next]_taskVars => PlainInv'
<1>. SUFFICES ASSUME PlainInv, [Xenomai!Next]_taskVars, exercise' = "TaskA"
              PROVE  calls' \in [Tasks -> Nat \ {0}] /\ bprio' = [t \in Tasks |-> Xenomai!priority[t]]
  BY DEF PlainInv
<1>1. exercise = "TaskA" /\ calls \in [Tasks -> Nat \ {0}] /\ bprio = [t \in Tasks |-> Xenomai!priority[t]]
  BY DEF PlainInv, taskVars, Xenomai!Next, Xenomai!Tick, Xenomai!Step
<1>2. CASE Xenomai!Tick
  BY <1>1, <1>2 DEF Xenomai!Tick
<1>3. ASSUME NEW t \in Tasks, Xenomai!Step(t)
      PROVE  calls' \in [Tasks -> Nat \ {0}] /\ bprio' = [u \in Tasks |-> Xenomai!priority[u]]
  <2>1. ~Xenomai!SetPriority(t)
    BY <1>1, PlainPrograms DEF Xenomai!SetPriority
  <2>2. bprio' = bprio
    BY <1>3, <2>1 DEF Xenomai!Step, Xenomai!Sleep, Xenomai!BusyWaitEnds, Xenomai!Acquire, Xenomai!Release,
                      Xenomai!Inquire, Xenomai!SemP, Xenomai!SemBroadcast, Xenomai!Exit
  <2>. SUFFICES calls' \in [Tasks -> Nat \ {0}]
    BY <1>1, <2>2
  <2>3. CASE Xenomai!Next1(t)
    BY <1>1, <2>3 DEF Xenomai!Next1
  <2>4. CASE calls' = calls
    BY <1>1, <2>4
  <2>5. CASE Xenomai!Release(t)
    <3>1. CASE \E u \in Tasks : calls' = [calls EXCEPT ![t] = @ + 1, ![u] = @ + 1]
      BY <1>1, <3>1
    <3>. QED  BY <2>3, <2>5, <3>1 DEF Xenomai!Release, Tasks, Xenomai!Tasks
  <2>6. CASE Xenomai!SemBroadcast(t)
    <3>1. calls' = [u \in Tasks |-> IF u = t \/ waiting[u] = "sem" THEN calls[u] + 1 ELSE calls[u]]
      BY <2>6 DEF Xenomai!SemBroadcast, Tasks, Xenomai!Tasks
    <3>. QED  BY <1>1, <3>1
  <2>7. \/ Xenomai!Next1(t) \/ calls' = calls \/ Xenomai!Release(t) \/ Xenomai!SemBroadcast(t)
    BY <1>3, <2>1 DEF Xenomai!Step, Xenomai!Sleep, Xenomai!BusyWaitEnds, Xenomai!Acquire,
                      Xenomai!Inquire, Xenomai!SemP, Xenomai!Exit
  <2>. QED  BY <2>3, <2>4, <2>5, <2>6, <2>7
<1>4. CASE UNCHANGED taskVars
  BY <1>1, <1>4 DEF taskVars
<1>. QED  BY <1>2, <1>3, <1>4 DEF Xenomai!Next, Tasks, Xenomai!Tasks

LEMMA PlainInit == Xenomai!Init => PlainInv
  BY DEF Xenomai!Init, PlainInv, Tasks, Xenomai!Tasks

(* In every one of the exercises a task that is through has its own         *)
(* priority, and in TaskD nobody waits unless resource_lock is delayed.     *)
LEMMA InvKeepsCeiling == exercise \in Xenomai!Exercises /\ TaskInv /\ NestedInv /\ PlainInv => CeilingKept
<1>. SUFFICES ASSUME exercise \in Xenomai!Exercises, TaskInv, NestedInv, PlainInv PROVE CeilingKept
  OBVIOUS
<1>. USE DEF CeilingKept, Xenomai!CeilingNeverWaits, Xenomai!PrioritiesRestored
<1>0. Xenomai!Tasks = Tasks
  BY DEF Xenomai!Tasks, Tasks
<1>1. CASE exercise \in {"TaskA"} \cup Exclusive
  <2>1. \A t \in Tasks : bprio[t] = Xenomai!priority[t]
    BY <1>1 DEF TaskInv, Kept, Undisturbed, PlainInv
  <2>. QED  BY <1>0, <1>1, <2>1 DEF Exclusive
<1>2. CASE exercise = "TaskD"
  <2>1. NestedType /\ Held /\ Lifted /\ Prompt
    BY <1>2 DEF NestedInv, Nested
  <2>2. ~late => \A t \in Tasks : waiting[t] \notin Xenomai!Resources
    BY <2>1 DEF Held, Prompt, Tasks, Xenomai!Resources
  <2>3. ASSUME NEW t \in Tasks, Xenomai!Finished(t) PROVE bprio[t] = Xenomai!priority[t]
    <3>1. NestedWhere(t) /\ calls[t] \in 1..15
      BY <1>2, <2>1, WhereNestedAre DEF NestedType
    <3>2. t \in {"main", "M"} \/ (t = "L" /\ lowCall \in 13..15) \/ (t = "H" /\ highCall = 15)
      BY <2>3, <3>1 DEF NestedWhere, lowCall, highCall
    <3>3. bprio[t] = IF t = "main" THEN 99 ELSE IF t = "M" THEN 81 ELSE IF t = "L" THEN 80 ELSE 82
      BY <2>1, <3>2 DEF Lifted
    <3>. QED  BY <3>2, <3>3 DEF Xenomai!priority
  <2>. QED  BY <1>0, <1>2, <2>2, <2>3
<1>. QED  BY <1>1, <1>2 DEF Xenomai!Exercises, Exclusive

(* In ex07 a task that is through has its own priority again, whatever       *)
(* delays it; and unless a delay falls between the rt_mutex_acquire and the   *)
(* rt_task_set_priority of resource_lock, no task of TaskD ever waits for a   *)
(* resource, so that the opposite order of the locks does no harm.           *)
THEOREM CeilingIsKept == MCSpec => []CeilingKept
<1>. DEFINE Inv == exercise \in Xenomai!Exercises /\ TaskInv /\ NestedInv /\ PlainInv
<1>1. MCInit => Inv
  BY TaskInit, NestedInit, PlainInit DEF MCInit, NestedInv, Xenomai!Init
<1>2. Inv /\ [MCNext]_programVars => Inv'
  <2>1. [Xenomai!Next]_taskVars => exercise' = exercise
    BY DEF taskVars, Xenomai!Next, Xenomai!Tick, Xenomai!Step
  <2>. QED  BY <2>1, TaskSteps, TaskNext, NestedNext, PlainNext
<1>3. Inv => CeilingKept
  BY InvKeepsCeiling
<1>. QED  BY <1>1, <1>2, <1>3, PTL DEF MCSpec, MCNext

=============================================================================
