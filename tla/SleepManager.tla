----------------------------- MODULE SleepManager -----------------------------
(***************************************************************************)
(* The sleep manager of ex03 (services/sleepmgr): main, and a handler that   *)
(* interrupts it wherever interrupts are not disabled, lock and unlock sleep *)
(* modes, and main puts the device to sleep in the shallowest locked mode.   *)
(* Mode 0 is ACTIVE: no sleep at all.  An interrupt ends the sleep.          *)
(***************************************************************************)
EXTENDS Integers, Sequences, FiniteSetsExt

CONSTANTS SLEEPMGR_NR_OF_MODES

VARIABLES
  sleepmgr_locks, \* of each mode a counter, a uint8_t
  todo,           \* the accesses that are left of the call of a context
  saved,          \* the flags its cpu_irq_save() has returned
  count,          \* the counter it has loaded
  sleep_mode,     \* what main's search has found
  asleep,         \* the mode the device sleeps in
  gm, handling,   \* interrupts are disabled; the handler runs
  held            \* the modes each context has locked and not unlocked since

vars == <<sleepmgr_locks, todo, saved, count, sleep_mode, asleep, gm, handling, held>>

ACTIVE   == 0
Modes    == 0..(SLEEPMGR_NR_OF_MODES - 1)
Deepest  == SLEEPMGR_NR_OF_MODES - 1
Contexts == {"main", "handler"}

sleepmgr_init == [m \in Modes |-> IF m = Deepest THEN 1 ELSE 0]

Init ==
  /\ sleepmgr_locks = sleepmgr_init
  /\ todo = [x \in Contexts |-> <<>>]
  /\ saved = [x \in Contexts |-> FALSE] /\ count = [x \in Contexts |-> 0]
  /\ sleep_mode = ACTIVE /\ asleep = ACTIVE
  /\ gm = FALSE /\ handling = FALSE
  /\ held = {}

-----------------------------------------------------------------------------
(* The accesses of the calls.                                               *)
Do(o, m, by) == [op |-> o, mode |-> m, by |-> by]
Counted(m, by) == <<Do("save", m, by), Do("load", m, by), Do("store", m, by), Do("restore", m, by)>>

sleepmgr_lock_mode(m)   == Counted(m, 1)
sleepmgr_unlock_mode(m) == Counted(m, -1)
sleepmgr_enter_sleep    == <<Do("disable", 0, 0), Do("find", 0, 0), Do("sleep", 0, 0)>>

Runs(x) == handling = (x = "handler") /\ asleep = ACTIVE
Idle(x) == todo[x] = <<>>

(* A context locks what it has not locked, and unlocks what it has.         *)
Call(x) ==
  /\ Runs(x) /\ Idle(x)
  /\ \/ \E m \in Modes :
          IF <<x, m>> \in held
          THEN todo' = [todo EXCEPT ![x] = sleepmgr_unlock_mode(m)] /\ held' = held \ {<<x, m>>}
          ELSE todo' = [todo EXCEPT ![x] = sleepmgr_lock_mode(m)] /\ UNCHANGED held
     \/ x = "main" /\ todo' = [todo EXCEPT ![x] = sleepmgr_enter_sleep] /\ UNCHANGED held
  /\ UNCHANGED <<sleepmgr_locks, saved, count, sleep_mode, asleep, gm, handling>>

Interrupt ==
  /\ ~gm /\ ~handling
  /\ handling' = TRUE /\ asleep' = ACTIVE
  /\ UNCHANGED <<sleepmgr_locks, todo, saved, count, sleep_mode, gm, held>>

EndOfInterrupt ==
  /\ handling /\ Idle("handler")
  /\ handling' = FALSE
  /\ UNCHANGED <<sleepmgr_locks, todo, saved, count, sleep_mode, asleep, gm, held>>

At(x, o) == Runs(x) /\ ~Idle(x) /\ Head(todo[x]).op = o
Done(x)  == todo' = [todo EXCEPT ![x] = Tail(@)]
This(x)  == Head(todo[x])

Unmasked        == gm  \* MUTANT: interrupts are not disabled
cpu_irq_disable == TRUE

Save(x) ==
  /\ At(x, "save") /\ Done(x)
  /\ saved' = [saved EXCEPT ![x] = gm] /\ gm' = cpu_irq_disable
  /\ UNCHANGED <<sleepmgr_locks, count, sleep_mode, asleep, handling, held>>

Load(x) ==
  /\ At(x, "load") /\ Done(x)
  /\ count' = [count EXCEPT ![x] = sleepmgr_locks[This(x).mode]]
  /\ UNCHANGED <<sleepmgr_locks, saved, sleep_mode, asleep, gm, handling, held>>

Store(x) ==
  /\ At(x, "store") /\ Done(x)
  /\ sleepmgr_locks' = [sleepmgr_locks EXCEPT ![This(x).mode] = (count[x] + This(x).by) % 256]
  /\ UNCHANGED <<saved, count, sleep_mode, asleep, gm, handling, held>>

Restore(x) ==
  /\ At(x, "restore") /\ Done(x)
  /\ gm' = saved[x]
  /\ held' = IF This(x).by = 1 THEN held \cup {<<x, This(x).mode>>} ELSE held
  /\ UNCHANGED <<sleepmgr_locks, saved, count, sleep_mode, asleep, handling>>

Disable(x) ==
  /\ At(x, "disable") /\ Done(x)
  /\ gm' = cpu_irq_disable
  /\ UNCHANGED <<sleepmgr_locks, saved, count, sleep_mode, asleep, handling, held>>

(* The shallowest mode that is locked; the deepest always is.  The pointer    *)
(* of the search has moved past it when Assert (uc3/sleepmgr.h:101) looks:   *)
(* compiled in, which it is not (_ASSERT_ENABLE_ is defined nowhere), it     *)
(* would stop the program where only the deepest mode is locked, although    *)
(* that is legal and the mode found is right.  As compiled it does nothing.  *)
Find(x) ==
  /\ At(x, "find") /\ Done(x)
  /\ sleep_mode' = Min({m \in Modes : sleepmgr_locks[m] > 0})
  /\ UNCHANGED <<sleepmgr_locks, saved, count, asleep, gm, handling, held>>

(* The instruction enables interrupts and puts the device to sleep at once;  *)
(* in ACTIVE interrupts are enabled and nothing else.                        *)
Sleep(x) ==
  /\ At(x, "sleep") /\ Done(x)
  /\ asleep' = sleep_mode /\ gm' = FALSE
  /\ UNCHANGED <<sleepmgr_locks, saved, count, sleep_mode, handling, held>>

Next ==
  \/ \E x \in Contexts :
       Call(x) \/ Save(x) \/ Load(x) \/ Store(x) \/ Restore(x) \/ Disable(x) \/ Find(x) \/ Sleep(x)
  \/ Interrupt \/ EndOfInterrupt

Spec == Init /\ [][Next]_vars

-----------------------------------------------------------------------------
(* The device sleeps as deep as the locks of both contexts allow and never  *)
(* deeper, whenever an interrupt locks or unlocks a mode; and interrupts are *)
(* enabled while it sleeps and between main's calls.  This is about the      *)
(* program as compiled, without the assertion in Find: it includes the sleep *)
(* in the deepest mode, which that assertion calls an error and the comment  *)
(* above it (uc3/sleepmgr.h:99) does not.  (sleepmgr_lock_mode,             *)
(* sleepmgr_unlock_mode, sleepmgr_enter_sleep)                               *)
SleepsAsAllowed ==
  /\ asleep # ACTIVE => asleep = Min({h[2] : h \in held} \cup {Deepest})
  /\ asleep # ACTIVE \/ (~handling /\ Idle("main")) => ~gm

=============================================================================
