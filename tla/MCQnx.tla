-------------------------------- MODULE MCQnx --------------------------------
(***************************************************************************)
(* The QNX programs, ex10's resource manager, the example it was made from  *)
(* and ex09's message passing, beside each other: the initial state chooses *)
(* which of them runs, and the others stay as they are.                     *)
(***************************************************************************)
EXTENDS ResourceManager

CONSTANTS MaxAttempts, MaxReads

ASSUME QnxAssumption == MaxAttempts \in Nat /\ MaxReads \in Nat /\ "none" \notin Ocbs

VARIABLES
  program,  \* the one that runs
  created, pc, priority, attempts, error, recv_buffer, buffer, receive_id,
  fileOffset, ctp, got

Messages == INSTANCE MessagePassing
Hello    == INSTANCE HelloResource WITH Files <- Ocbs, offset <- fileOffset

managerVars  == vars
messageVars  == <<created, pc, priority, attempts, error, recv_buffer, buffer, receive_id>>
helloVars    == <<fileOffset, ctp, got>>
programVars  == <<program, managerVars, messageVars, helloVars>>

ManagerStep(A) == program = "resource_manager" /\ A /\ UNCHANGED <<program, messageVars, helloVars>>
MessageStep(A) == program = "messages" /\ A /\ UNCHANGED <<program, managerVars, helloVars>>
HelloStep      == program = "hello" /\ Hello!Next /\ UNCHANGED <<program, managerVars, messageVars>>

MCInit ==
  /\ program \in {"resource_manager", "messages", "hello"}
  /\ Init /\ Messages!Init /\ Hello!Init

MCNext == ManagerStep(Next) \/ MessageStep(Messages!Next) \/ HelloStep

MCFairness ==
  /\ WF_programVars(ManagerStep(counter_function))
  /\ WF_programVars(ManagerStep(Handler /\ UNCHANGED counterVars))
  /\ SF_programVars(ManagerStep(Lock /\ UNCHANGED counterVars))
  /\ WF_programVars(MessageStep(Messages!Next))

MCSpec == MCInit /\ [][MCNext]_programVars /\ MCFairness

-----------------------------------------------------------------------------
(* The invariants of the others, which a program at rest keeps: a client    *)
(* that returns has the reply to its own message, and each open file of the *)
(* example gives its text once. (MessagePassing, HelloResource)             *)
RepliesMatch == Messages!RepliesMatch /\ Hello!TextOnce

(* Every client of either program gets on: each message to the resource      *)
(* manager is answered, and each client of the message passing ends, with a  *)
(* reply or without.                                                        *)
Answered ==
  /\ program = "resource_manager" => MessagesAnswered
  /\ program = "messages" => Messages!ClientsEnd

=============================================================================
