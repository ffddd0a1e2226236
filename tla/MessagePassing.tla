--------------------------- MODULE MessagePassing ---------------------------
(***************************************************************************)
(* The QNX program ex09/project/project.c: four clients send a message     *)
(* each to a server thread and wait for its reply.  Threads are known by   *)
(* the identifiers that the kernel gives them in order of creation, which  *)
(* is how a client finds its priority.  The threads share one CPU (the     *)
(* trace kept beside the program names TRACE_CPU_NUM 1), which runs a      *)
(* ready thread of the highest priority.                                   *)
(***************************************************************************)
EXTENDS Integers, Sequences

CONSTANT MaxAttempts  \* 1000 in the code

NUM_CLIENTS == 4
Main        == 1
Clients     == 2..(NUM_CLIENTS + 1)
Server      == NUM_CLIENTS + 2
Threads     == 1..Server

server_priority   == 5
client_priorities == <<2, 3, 6, 7>>
DefaultPriority   == 10  \* of the shell that starts the program

VARIABLES
  created,     \* threads with a number up to this one exist
  pc,          \* where each thread is
  priority,    \* its priority
  attempts,    \* locals of client()
  error,
  recv_buffer,
  buffer,      \* locals of server(): the message or the reply in the buffer,
  receive_id   \* and whom to reply to (msg_info.tid too)

clientVars == <<attempts, error, recv_buffer>>
serverVars == <<buffer, receive_id>>
vars       == <<created, pc, priority, clientVars, serverVars>>

Empty      == <<"empty", 0>>
Message(c) == <<"message", c>>
Reply(c)   == <<"reply", c>>

Init ==
  /\ created = Main
  /\ pc = [t \in Threads |-> IF t = Main THEN "set_priority" ELSE "start"]
  /\ priority = [t \in Threads |-> DefaultPriority]
  /\ attempts = [c \in Clients |-> 0]
  /\ error = [c \in Clients |-> FALSE]
  /\ recv_buffer = [c \in Clients |-> Empty]
  /\ buffer = Empty /\ receive_id = Main

Goto(t, loc) == pc' = [pc EXCEPT ![t] = loc]

Senders == {c \in Clients : pc[c] = "send_blocked"}

Joined(i)  == \A c \in 2..i : pc[c] \in {"returned", "gave_up"}
Ready(t) ==
  /\ t <= created
  /\ pc[t] \notin {"send_blocked", "reply_blocked", "receive_blocked", "returned", "gave_up"}
  /\ pc[t] = "join" => Joined(NUM_CLIENTS + 1)

Running(t) == Ready(t) /\ \A u \in Threads : Ready(u) => priority[u] <= priority[t]

-----------------------------------------------------------------------------
(* main() *)

SetServerPriority ==
  /\ pc[Main] = "set_priority"
  /\ priority' = [priority EXCEPT ![Main] = server_priority]
  /\ Goto(Main, "create")
  /\ UNCHANGED <<created, clientVars, serverVars>>

(* A thread is created with the priority of its creator.                    *)
pthread_create ==
  /\ pc[Main] = "create"
  /\ created' = created + 1
  /\ priority' = [priority EXCEPT ![created + 1] = priority[Main]]
  /\ Goto(Main, IF created + 1 = Server THEN "join" ELSE "create")
  /\ UNCHANGED <<clientVars, serverVars>>

pthread_join ==  \* of the clients; the server is then waited for, for ever
  /\ pc[Main] = "join"
  /\ Goto(Main, "receive_blocked")
  /\ UNCHANGED <<created, priority, clientVars, serverVars>>

main == Running(Main) /\ (SetServerPriority \/ pthread_create \/ pthread_join)

-----------------------------------------------------------------------------
(* client() *)

ClientPriority(c) == client_priorities[c - 1]

ClientSetPriority(c) ==
  /\ pc[c] = "start"
  /\ priority' = [priority EXCEPT ![c] = ClientPriority(c)]
  /\ Goto(c, "send")
  /\ UNCHANGED <<created, clientVars, serverVars>>

(* The message of c is copied to the server, which has received it; the     *)
(* channel is _NTO_CHF_FIXED_PRIORITY: the server keeps its priority.        *)
Deliver(c) == buffer' = Message(c) /\ receive_id' = c

(* A server that waits gets the message at once; else it queues.            *)
MsgSend(c) ==
  /\ pc[c] = "send"
  /\ \/ /\ pc[Server] = "receive_blocked"
        /\ Deliver(c)
        /\ pc' = [pc EXCEPT ![c] = "reply_blocked", ![Server] = "format"]
     \/ /\ pc[Server] # "receive_blocked"
        /\ Goto(c, "send_blocked")
        /\ UNCHANGED serverVars
  /\ UNCHANGED <<created, priority, clientVars>>

MsgSendFails(c) ==
  /\ pc[c] = "send"
  /\ error' = [error EXCEPT ![c] = TRUE]
  /\ Goto(c, "check")
  /\ UNCHANGED <<created, priority, attempts, recv_buffer, serverVars>>

TooMany(c) == attempts[c] > MaxAttempts

CheckAttempt(c) ==
  /\ pc[c] = "check"
  /\ attempts' = [attempts EXCEPT ![c] = @ + 1]
  /\ Goto(c, IF TooMany(c) THEN "gave_up" ELSE IF error[c] THEN "send" ELSE "detach")
  /\ UNCHANGED <<created, priority, error, recv_buffer, serverVars>>

ConnectDetach(c) ==
  /\ pc[c] = "detach"
  /\ Goto(c, "returned")
  /\ UNCHANGED <<created, priority, clientVars, serverVars>>

client(c) ==
  /\ Running(c)
  /\ \/ ClientSetPriority(c) \/ MsgSend(c) \/ MsgSendFails(c)
     \/ CheckAttempt(c) \/ ConnectDetach(c)

-----------------------------------------------------------------------------
(* server() *)

MsgReceive ==
  /\ pc[Server] \in {"start", "receive"}
  /\ \/ /\ Senders = {}
        /\ Goto(Server, "receive_blocked")
        /\ UNCHANGED <<priority, serverVars>>
     \/ \E c \in Senders :
          /\ \A d \in Senders : priority[d] <= priority[c]
          /\ Deliver(c)
          /\ pc' = [pc EXCEPT ![c] = "reply_blocked", ![Server] = "format"]
  /\ UNCHANGED <<created, priority, clientVars>>

LeaveMessage == buffer  \* MUTANT: the buffer goes back as it came
FormattedReply == Reply(receive_id)

FormatReply ==
  /\ pc[Server] = "format"
  /\ buffer' = FormattedReply
  /\ Goto(Server, "reply")
  /\ UNCHANGED <<created, priority, clientVars, receive_id>>

ForgetReply ==  \* MUTANT: the next message is received before the reply
  /\ pc[Server] = "reply"
  /\ Goto(Server, "receive")
  /\ UNCHANGED <<created, priority, clientVars, serverVars>>

MsgReply ==
  /\ pc[Server] = "reply"
  /\ recv_buffer' = [recv_buffer EXCEPT ![receive_id] = buffer]
  /\ error' = [error EXCEPT ![receive_id] = FALSE]
  /\ pc' = [pc EXCEPT ![receive_id] = "check", ![Server] = "receive"]
  /\ UNCHANGED <<created, priority, attempts, serverVars>>

server == Running(Server) /\ (MsgReceive \/ FormatReply \/ MsgReply)

Next == main \/ server \/ \E c \in Clients : client(c)

(* The CPU is never idle while a thread is ready; threads of one priority   *)
(* take turns.                                                              *)
Spec == Init /\ [][Next]_vars /\ WF_vars(Next)

-----------------------------------------------------------------------------
(* The one buffer of the server holds a message and then its reply, while   *)
(* other clients send theirs: a client that is content has the reply to its *)
(* own message.                                                             *)
RepliesMatch == \A c \in Clients : pc[c] = "returned" => recv_buffer[c] = Reply(c)

(* Each client comes to an end, with a reply or without.                    *)
ClientsEnd == <>[](\A c \in Clients : pc[c] \in {"returned", "gave_up"})

=============================================================================
