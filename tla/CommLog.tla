------------------------------- MODULE CommLog -------------------------------
(***************************************************************************)
(* comm_logger.py as send_msg of protocol_messages.py uses it: whoever has *)
(* sent a message asks get_comm_logger for the one CommLogger, which the   *)
(* first caller creates, and appends a record to it.  The callers are      *)
(* threads of one process, and there is no lock.                           *)
(***************************************************************************)
EXTENDS Naturals, Sequences

CONSTANT NumDrones   \* drones of the simulation

ASSUME NumDronesAssumption == NumDrones \in Nat \ {0}

VARIABLES
    loggers,   \* the _records of each CommLogger made so far, their order left out
    current,   \* _global_logger: its number, 0 for None
    step,      \* how far the sender of each message is
    held,      \* the logger get_comm_logger has returned to it, if it holds one
    clog       \* the logger the main thread has got at the end

logVars == <<loggers, current, step, held, clog>>

Drones == 1 .. NumDrones
User == NumDrones + 1

\* The messages of one simulation, each sent once.
Messages ==
    ({"ENROLL_REQ", "ENROLL_ACK"} \X (Drones \cup {User}))
    \cup {<<"MU1", 0>>, <<"BATCH", 0>>}
    \cup ({"MU2", "MU3", "SECURE_DATA"} \X Drones)

\* The message every simulation starts with, and the answer to it.
First == {<<"ENROLL_REQ", 1>>, <<"ENROLL_ACK", 1>>}

Steps == {"unsent", "refused", "sent", "creating", "taken", "logged"}

LogInit ==
    /\ loggers = <<>> /\ current = 0
    /\ step = [m \in Messages |-> "unsent"]
    /\ held = [m \in Messages |-> 0]
    /\ clog = 0

\* sendall has passed m on: the receiver may act before m is logged.
Send(m) ==
    /\ step[m] = "unsent"
    /\ step' = [step EXCEPT ![m] = "sent"]
    /\ UNCHANGED <<loggers, current, held, clog>>

\* Nobody listens on the port: the exception leaves nothing to log.
Refuse(m) ==
    /\ step[m] = "unsent"
    /\ step' = [step EXCEPT ![m] = "refused"]
    /\ UNCHANGED <<loggers, current, held, clog>>

Sent(m) == step[m] \notin {"unsent", "refused"}
Logged(m) == step[m] = "logged"

-----------------------------------------------------------------------------
(* get_comm_logger, then log_instant *)

\* Fault: the check is missing.
FindsNoneAlways(m) ==
    /\ step[m] = "sent"
    /\ step' = [step EXCEPT ![m] = "creating"]
    /\ UNCHANGED <<loggers, current, held, clog>>

\* if _global_logger is None.
FindsNone(m) ==
    /\ step[m] = "sent" /\ current = 0
    /\ step' = [step EXCEPT ![m] = "creating"]
    /\ UNCHANGED <<loggers, current, held, clog>>

\* _global_logger = CommLogger(), whatever it holds by now.
Create(m) ==
    /\ step[m] = "creating"
    /\ loggers' = Append(loggers, {})
    /\ current' = Len(loggers')
    /\ step' = [step EXCEPT ![m] = "sent"]
    /\ UNCHANGED <<held, clog>>

\* There is a logger: return reads the global again, and log_instant appends to
\* what it has returned.  Between the two, another logger may take its place.
\* Nobody can tell when the append is made, unless main already holds a logger
\* and a thread is still creating one: only then are they two steps here.
ReadApart == clog # 0 /\ \E k \in Messages : step[k] = "creating"

TakeLogger(m) ==
    /\ step[m] = "sent" /\ current # 0 /\ ReadApart
    /\ step' = [step EXCEPT ![m] = "taken"]
    /\ held' = [held EXCEPT ![m] = current]
    /\ UNCHANGED <<loggers, current, clog>>

LogToHeld(m) ==
    /\ step[m] = "taken"
    /\ loggers' = [loggers EXCEPT ![held[m]] = @ \cup {m}]
    /\ step' = [step EXCEPT ![m] = "logged"]
    /\ held' = [held EXCEPT ![m] = 0]
    /\ UNCHANGED <<current, clog>>

LogInstant(m) ==
    /\ step[m] = "sent" /\ current # 0 /\ ~ReadApart
    /\ loggers' = [loggers EXCEPT ![current] = @ \cup {m}]
    /\ step' = [step EXCEPT ![m] = "logged"]
    /\ UNCHANGED <<current, held, clog>>

LogStep(m) == FindsNone(m) \/ Create(m) \/ TakeLogger(m) \/ LogToHeld(m) \/ LogInstant(m)

\* The main thread's own get_comm_logger, long after the first.
MainGetsLogger ==
    /\ clog' = current
    /\ UNCHANGED <<loggers, current, step, held>>
=============================================================================
