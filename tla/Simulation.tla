----------------------------- MODULE Simulation ------------------------------
(***************************************************************************)
(* socket_main.py: every program of the deployment as threads of one       *)
(* process, started one after the other by a main thread that enrols,      *)
(* waits for ports and in the end saves and prints the communication log.  *)
(* Nobody dies and nothing is rejected here; module Deployment has that.   *)
(***************************************************************************)
EXTENDS CommLog

CONSTANTS
    EnrollPort,      \* ENROLL_PORT; AUTH_PORT is the next one
    BaseDronePort,   \* BASE_DRONE_PORT
    UserPort         \* USER_MU3_PORT; the data port is the next one

\* The default ports leave room for 100 drones.
ASSUME PortAssumption ==
    /\ EnrollPort \in Nat /\ BaseDronePort \in Nat /\ UserPort \in Nat
    /\ EnrollPort + 1 < BaseDronePort
    /\ BaseDronePort + NumDrones <= UserPort

VARIABLES
    pc,         \* what the main thread does next
    at,         \* the drone, or the user, it does it for
    enrolled,   \* drones whose _enrolled is set
    started,    \* listener threads running
    bound,      \* who listens on each port
    responses,  \* drones whose mu3 has reached the user
    saved,      \* comm_log.json
    printed     \* the summary on the console

mainVars == <<pc, at, enrolled, started, bound, responses, saved, printed>>
vars == <<logVars, mainVars>>

Listeners == {"enroll", "auth", "mu3", "data"} \X {0} \cup {"drone"} \X Drones
Ports == {EnrollPort, EnrollPort + 1, UserPort, UserPort + 1}
         \cup BaseDronePort .. BaseDronePort + NumDrones
Nobody == <<"nobody", 0>>

\* Fault: drones are numbered from 1.
DronePortFrom1(i) == BaseDronePort + i

\* The first drone gets BASE_DRONE_PORT.
DronePort(i) == BaseDronePort + i - 1

Port(l) ==
    CASE l[1] = "enroll" -> EnrollPort
      [] l[1] = "auth" -> EnrollPort + 1
      [] l[1] = "mu3" -> UserPort
      [] l[1] = "data" -> UserPort + 1
      [] l[1] = "drone" -> DronePort(l[2])

Init ==
    /\ LogInit
    /\ pc = "servers" /\ at = 1
    /\ enrolled = {} /\ started = {<<"enroll", 0>>, <<"auth", 0>>}
    /\ bound = [p \in Ports |-> Nobody]
    /\ responses = {} /\ saved = {} /\ printed = {}

-----------------------------------------------------------------------------
(* Listener threads *)

\* A drone's thread waits for _enrolled.
MayBind(l) == l \in started /\ (l[1] = "drone" => l[2] \in enrolled)

\* bind raises if somebody listens there: the thread ends, the process does not.
Bind(l) ==
    /\ MayBind(l)
    /\ bound' = IF bound[Port(l)] = Nobody THEN [bound EXCEPT ![Port(l)] = l] ELSE bound
    /\ started' = started \ {l}
    /\ UNCHANGED <<logVars, pc, at, enrolled, responses, saved, printed>>

\* wait_for_port: somebody accepts connections there.
Open(l) == bound[Port(l)] # Nobody

-----------------------------------------------------------------------------
(* The main thread.  Its send_msg has logged before it receives. *)

ServersReady ==
    /\ pc = "servers"
    /\ Open(<<"enroll", 0>>) /\ Open(<<"auth", 0>>)
    /\ pc' = "enroll"
    /\ UNCHANGED <<logVars, at, enrolled, started, bound, responses, saved, printed>>

\* DroneApp.enroll, then UserApp.enroll.
Enroll ==
    /\ pc = "enroll"
    /\ Send(<<"ENROLL_REQ", at>>)
    /\ pc' = "reply"
    /\ UNCHANGED <<at, enrolled, started, bound, responses, saved, printed>>

\* Fault: store_credentials without _enrolled.set().
DroneEnrolledUnset ==
    /\ pc = "reply" /\ at \in Drones
    /\ Logged(<<"ENROLL_REQ", at>>) /\ Sent(<<"ENROLL_ACK", at>>)
    /\ started' = started \cup {<<"drone", at>>}
    /\ pc' = "listener"
    /\ UNCHANGED <<logVars, at, enrolled, bound, responses, saved, printed>>

DroneEnrolled ==
    /\ pc = "reply" /\ at \in Drones
    /\ Logged(<<"ENROLL_REQ", at>>) /\ Sent(<<"ENROLL_ACK", at>>)
    /\ enrolled' = enrolled \cup {at}
    /\ started' = started \cup {<<"drone", at>>}
    /\ pc' = "listener"
    /\ UNCHANGED <<logVars, at, bound, responses, saved, printed>>

\* After the last drone: start_mu3_listener.
DroneListens ==
    /\ pc = "listener"
    /\ Open(<<"drone", at>>)
    /\ at' = at + 1
    /\ IF at' = User
       THEN pc' = "user" /\ started' = started \cup {<<"mu3", 0>>, <<"data", 0>>}
       ELSE pc' = "enroll" /\ UNCHANGED started
    /\ UNCHANGED <<logVars, enrolled, bound, responses, saved, printed>>

UserListens ==
    /\ pc = "user"
    /\ Open(<<"mu3", 0>>)
    /\ pc' = "enroll"
    /\ UNCHANGED <<logVars, at, enrolled, started, bound, responses, saved, printed>>

UserEnrolled ==
    /\ pc = "reply" /\ at = User
    /\ Logged(<<"ENROLL_REQ", at>>) /\ Sent(<<"ENROLL_ACK", at>>)
    /\ pc' = "mu1"
    /\ UNCHANGED <<logVars, at, enrolled, started, bound, responses, saved, printed>>

SendMu1 ==
    /\ pc = "mu1"
    /\ Send(<<"MU1", 0>>)
    /\ pc' = "batch"
    /\ UNCHANGED <<at, enrolled, started, bound, responses, saved, printed>>

\* The reply is there, and every mu3, which takes no timeout here (Fanout has
\* those); 5 s later main goes on, whatever data has come.
Authenticated ==
    /\ pc = "batch"
    /\ Logged(<<"MU1", 0>>) /\ Sent(<<"BATCH", 0>>)
    /\ responses = Drones
    /\ pc' = "finish"
    /\ UNCHANGED <<logVars, at, enrolled, started, bound, responses, saved, printed>>

GetLogger ==
    /\ pc = "finish"
    /\ MainGetsLogger
    /\ pc' = "save"
    /\ UNCHANGED <<at, enrolled, started, bound, responses, saved, printed>>

Save ==
    /\ pc = "save"
    /\ saved' = loggers[clog]
    /\ pc' = "print"
    /\ UNCHANGED <<logVars, at, enrolled, started, bound, responses, printed>>

\* With the main thread the process and its daemon threads end.
PrintSummary ==
    /\ pc = "print"
    /\ printed' = loggers[clog]
    /\ pc' = "done"
    /\ UNCHANGED <<logVars, at, enrolled, started, bound, responses, saved>>

MainStep ==
    \/ ServersReady \/ Enroll \/ DroneEnrolled \/ DroneListens \/ UserListens
    \/ UserEnrolled \/ SendMu1 \/ Authenticated
    \/ GetLogger \/ Save \/ PrintSummary

-----------------------------------------------------------------------------
(* Daemon threads *)

\* The server's thread for one enrollment.
Acknowledge(i) ==
    /\ Sent(<<"ENROLL_REQ", i>>)
    /\ Send(<<"ENROLL_ACK", i>>)
    /\ UNCHANGED mainVars

\* The server's thread for mu1 serves one drone after the other.
ForwardMu2(d) ==
    /\ Sent(<<"MU1", 0>>)
    /\ \A e \in 1 .. d - 1 : Logged(<<"MU2", e>>)
    /\ Send(<<"MU2", d>>)
    /\ UNCHANGED mainVars

ReplyToUser ==
    /\ \A d \in Drones : Logged(<<"MU2", d>>)
    /\ Send(<<"BATCH", 0>>)
    /\ UNCHANGED mainVars

\* A drone's thread for mu2.  The mu3 goes to whoever listens on UserPort.
SendMu3(d) ==
    /\ Sent(<<"MU2", d>>)
    /\ Send(<<"MU3", d>>)
    /\ responses' = IF bound[UserPort] = <<"mu3", 0>> THEN responses \cup {d} ELSE responses
    /\ UNCHANGED <<pc, at, enrolled, started, bound, saved, printed>>

\* After its sleep, to the port nobody has waited for.
SendData(d) ==
    /\ Logged(<<"MU3", d>>)
    /\ IF Open(<<"data", 0>>) THEN Send(<<"SECURE_DATA", d>>) ELSE Refuse(<<"SECURE_DATA", d>>)
    /\ UNCHANGED mainVars

DaemonStep ==
    \/ \E l \in started : Bind(l)
    \/ \E i \in Drones \cup {User} : Acknowledge(i)
    \/ \E d \in Drones : ForwardMu2(d) \/ SendMu3(d) \/ SendData(d)
    \/ ReplyToUser
    \/ \E m \in Messages : LogStep(m) /\ UNCHANGED mainVars

Next == pc # "done" /\ (MainStep \/ DaemonStep)

Spec == Init /\ [][Next]_vars

\* Every thread is scheduled; a simulation is a finite number of steps.
FairSpec == Spec /\ WF_vars(Next)

-----------------------------------------------------------------------------
\* Properties

\* Types.
TypeOK ==
    /\ loggers \in Seq(SUBSET Messages) /\ current \in 0 .. Len(loggers)
    /\ step \in [Messages -> Steps] /\ held \in [Messages -> 0 .. Len(loggers)]
    /\ clog \in 0 .. Len(loggers)
    /\ pc \in {"servers", "enroll", "reply", "listener", "user", "mu1", "batch",
               "finish", "save", "print", "done"}
    /\ at \in Drones \cup {User} /\ enrolled \subseteq Drones
    /\ started \subseteq Listeners /\ bound \in [Ports -> Listeners \cup {Nobody}]
    /\ responses \subseteq Drones
    /\ saved \subseteq Messages /\ printed \subseteq Messages

\* get_comm_logger has no lock: the request and the acknowledgement of the first
\* enrollment may both find no logger.  Once both are logged, everybody gets the
\* same logger for good.
LoggerSettles == [][(\A m \in First : Logged(m)) => current' = current]_vars

\* wait_for_port (socket_main.py:56) is satisfied by anybody who listens on
\* the port; up to 100 drones it is the one main waits for, and each program
\* reaches the peers it means.
PortsReachTheirOwners ==
    /\ \A d \in Drones : at > d => bound[DronePort(d)] = <<"drone", d>>
    /\ at = User /\ pc # "user" => bound[UserPort] = <<"mu3", 0>>

\* No thread waits for ever for another one: the simulation ends, with a
\* summary on the console that has every record of the file, though daemon
\* threads log on between the two and one may replace the logger.
SimulationEnds == <>(pc = "done" /\ saved \subseteq printed)

-----------------------------------------------------------------------------
\* What the repository says and the code does not do

\* comm_logger.py:143, "Save all records to logs/comm_log.json.": what is logged
\* when main saves is in the logger main saves.
SavesAllRecords == pc = "save" => \A m \in Messages : Logged(m) => m \in loggers[clog]
=============================================================================
