------------------------------ MODULE Network -------------------------------
(***************************************************************************)
(* What the three programs of the socket deployment share: short-lived TCP *)
(* connections carrying one frame each way (protocol_messages.py), and the *)
(* listening ports.  A frame is addressed to a process; it is lost when    *)
(* that process dies, and each connection is served by a thread of its     *)
(* own, so frames are taken in any order.                                  *)
(***************************************************************************)
EXTENDS Naturals, Sequences, FiniteSets

CONSTANTS
    Drones,          \* drone identities IDd
    User,            \* the user's endpoint: the only ports 9200 and 9201
    UserHost,        \* the host of user_app.py (--user-host)
    DroneHost,       \* the host the drones run on
    MaxUsers,        \* bound: runs of user_app.py, one after the other
    MaxIncarnations, \* bound: starts of each drone_app.py
    MaxRestarts,     \* bound: restarts of server_app.py
    Crashes,         \* may drones and users be killed?
    Timeouts         \* may the socket and Event timeouts expire?

ASSUME NetworkAssumption ==
    /\ IsFiniteSet(Drones) /\ User \notin Drones
    /\ MaxUsers \in Nat /\ MaxIncarnations \in Nat /\ MaxRestarts \in Nat
    /\ Crashes \in BOOLEAN /\ Timeouts \in BOOLEAN

VARIABLES
    net,       \* frames sent and not yet read by their receiver's thread
    listener,  \* the process listening on each endpoint's port, 0 if none
    open       \* clients whose connection the control server has not ended

netVars == <<net, listener, open>>

Users == 1 .. MaxUsers
Incarnations == 1 .. MaxIncarnations

\* A drone process draws its PUF secret, v and Cj when it starts and enrols
\* once: its number determines Ksd, DIDj, kj and Kj.
Records == [id : Drones, inc : Incarnations]
Record(d, k) == [id |-> d, inc |-> k]

\* Processes.
CS == <<"cs", 0>>
DroneProc(d, k) == <<d, k>>
UserProc(u) == <<User, u>>

\* The frames.  A user process draws r and x once: its number stands for UID,
\* PIDu, sigma_u and X.
Request(kind, from) == [kind |-> kind, to |-> CS, from |-> from]
Reply(kind, to) == [kind |-> kind, to |-> to, from |-> CS]
BatchReply(to, drones) ==
    [kind |-> "BATCH", to |-> to, from |-> CS, drones |-> drones]
Mu2Frame(to, user, rec) == [kind |-> "MU2", to |-> to, user |-> user, rec |-> rec]
Mu3Frame(to, user, rec) == [kind |-> "MU3", to |-> to, user |-> user, rec |-> rec]
DataFrame(to, rec, pid, point) ==
    [kind |-> "DATA", to |-> to, rec |-> rec, pid |-> pid, point |-> point]

FramesTo(proc) == {f \in net : f.to = proc}

NetInit ==
    /\ net = {}
    /\ listener = [e \in Drones \cup {User} |-> 0]
    /\ open = {}

\* The client side of a request to the control server.
Connect(kind, proc) ==
    /\ net' = net \cup {Request(kind, proc)}
    /\ open' = open \cup {proc}

\* The server side answers and closes; the client may have given up before.
Answer(consumed, client, reply) ==
    /\ net' = (net \ consumed) \cup (IF client \in open THEN {reply} ELSE {})
    /\ open' = open \ {client}

CSReplies == {"DRONE_ACK", "USER_ACK", "ERROR", "BATCH"}

\* The server hung up without an answer.
HungUp(proc) == proc \notin open /\ \A f \in FramesTo(proc) : f.kind \notin CSReplies

\* A process is gone: its connections are reset and its port is free.
Gone(endpoint, proc) ==
    /\ net' = {f \in net : f.to # proc}
    /\ open' = open \ {proc}
    /\ listener' = [listener EXCEPT ![endpoint] = 0]
=============================================================================
