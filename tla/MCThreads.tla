------------------------------ MODULE MCThreads ------------------------------
(***************************************************************************)
(* The threads of ex02's singleton, the tasks of ex07 and the responders of *)
(* ex06 beside each other: the initial state chooses which program runs,    *)
(* and the others stay as they are.                                         *)
(***************************************************************************)
EXTENDS Singleton

CONSTANTS MaxJitter, duration, LongModulus, MaxNow

ASSUME ThreadsAssumption == MaxJitter \in Nat /\ duration \in Nat /\ LongModulus \in Nat \ {0}

VARIABLES
  program,  \* the one that runs
  exercise, calls, spent, wake, secondary, waiting, owner, bprio, RestorePriority, clock, jitter, waitedH, late,
  now, mainCpu, task, endTime, ran

Xenomai == INSTANCE XenomaiTasks WITH pc <- calls, waited <- waitedH
Responders == INSTANCE XenomaiResponder

threadVars  == vars
taskVars    == <<exercise, calls, spent, wake, secondary, waiting, owner, bprio, RestorePriority,
                 clock, jitter, waitedH, late>>
responderVars == <<now, mainCpu, task, endTime, ran>>
programVars == <<program, threadVars, taskVars, responderVars>>

ThreadStep == program = "singleton" /\ Next /\ UNCHANGED <<program, taskVars, responderVars>>
TaskStep   == program = "xenomai" /\ Xenomai!Next /\ UNCHANGED <<program, threadVars, responderVars>>
ResponderStep == program = "responders" /\ Responders!Next /\ UNCHANGED <<program, threadVars, taskVars>>

(* At rest exercise and CPU are any.                                         *)
MCInit ==
  /\ program \in {"singleton", "xenomai", "responders"}
  /\ Init /\ Xenomai!Init /\ Responders!Init
  /\ program # "xenomai" => exercise = "TaskA"
  /\ program # "responders" => mainCpu = 0

MCSpec == MCInit /\ [][ThreadStep \/ TaskStep \/ ResponderStep]_programVars

-----------------------------------------------------------------------------
(* The invariants of the others, which a program at rest keeps.             *)

(* The bound on what H waits for a resource, and the time the responders of *)
(* ex06 spin. (XenomaiTasks, XenomaiResponder)                              *)
InTime == Xenomai!WaitBounded /\ Responders!DeletedInTime

(* What the emulated priority ceiling promises: as long as it is set without *)
(* delay, no task of TaskD waits for a resource and the opposite orders of   *)
(* its locks do no harm; and every task of ex07 that is through has its own   *)
(* priority back, whatever was late. (XenomaiTasks)                          *)
CeilingKept == Xenomai!CeilingNeverWaits /\ Xenomai!PrioritiesRestored

=============================================================================
