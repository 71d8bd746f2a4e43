------------------------------ MODULE CSServer ------------------------------
(***************************************************************************)
(* server_app.py over control_server.py and database.py: the control       *)
(* server's enrollment threads, one per connection, and its authentication *)
(* threads, one per mu1, over an in-memory database.                       *)
(***************************************************************************)
EXTENDS Network

VARIABLES
    restarts,   \* how often server_app.py was started again
    drones,     \* db.drones: one record per IDd, in the dict's insertion order
    addrs,      \* _drone_auth_addrs: the host registered for each IDd
    users,      \* db.users and db.pids
    enrolling,  \* threads inside _enroll_drone: their record and their next step
    auth        \* the thread inside _process_mu1 for each user's mu1

csVars == <<restarts, drones, addrs, users, enrolling, auth>>

EnrollThreads == [rec : Records, next : {"address", "ack"}]

IdleThread == [pc |-> "idle", mu2 |-> <<>>, snap |-> <<>>, pos |-> 0, info |-> <<>>]
AuthThreads ==
    [pc : {"idle", "built", "sending"}, mu2 : Seq(Records), snap : Seq(Records),
     pos : Nat, info : Seq(Records)]

CSInit ==
    /\ restarts = 0
    /\ drones = <<>>
    /\ addrs = <<>>
    /\ users = {}
    /\ enrolling = {}
    /\ auth = [u \in Users |-> IdleThread]

-----------------------------------------------------------------------------
(* Database *)

\* Fault: a record enrolled again moves to the end.
PutLast(table, rec) == Append(SelectSeq(table, LAMBDA r : r.id # rec.id), rec)

\* add_drone: a dict keeps the position of a key that is assigned again.
Put(table, rec) ==
    IF \E i \in DOMAIN table : table[i].id = rec.id
    THEN [i \in DOMAIN table |-> IF table[i].id = rec.id THEN rec ELSE table[i]]
    ELSE Append(table, rec)

Ids(table) == [i \in DOMAIN table |-> table[i].id]

-----------------------------------------------------------------------------
(* Enrollment *)

\* enroll_drone and issue_drone_credentials: the record is in the database
\* before the thread goes on.
EnrollDrone(f) ==
    /\ f \in FramesTo(CS) /\ f.kind = "ENROLL_DRONE"
    /\ LET rec == Record(f.from[1], f.from[2]) IN
          /\ drones' = Put(drones, rec)
          /\ enrolling' = enrolling \cup {[rec |-> rec, next |-> "address"]}
    /\ net' = net \ {f}
    /\ UNCHANGED <<listener, open, restarts, addrs, users, auth>>

\* Under _lock.  The host is the one the drone sent: its --user-host.
RegisterAddress(t) ==
    /\ t \in enrolling /\ t.next = "address"
    /\ addrs' = [d \in DOMAIN addrs \cup {t.rec.id} |->
                    IF d = t.rec.id THEN UserHost ELSE addrs[d]]
    /\ enrolling' = (enrolling \ {t}) \cup {[t EXCEPT !.next = "ack"]}
    /\ UNCHANGED <<netVars, restarts, drones, users, auth>>

\* Fault: the acknowledgement is sent before the address is registered.
AckDroneEarly(t) ==
    /\ t \in enrolling
    /\ LET proc == DroneProc(t.rec.id, t.rec.inc)
       IN  Answer({}, proc, Reply("DRONE_ACK", proc))
    /\ UNCHANGED <<listener, csVars>>

AckDrone(t) ==
    /\ t \in enrolling /\ t.next = "ack"
    /\ LET proc == DroneProc(t.rec.id, t.rec.inc)
       IN  Answer({}, proc, Reply("DRONE_ACK", proc))
    /\ enrolling' = enrolling \ {t}
    /\ UNCHANGED <<listener, restarts, drones, addrs, users, auth>>

EnrollUser(f) ==
    /\ f \in FramesTo(CS) /\ f.kind = "ENROLL_USER"
    /\ users' = users \cup {f.from[2]}
    /\ Answer({f}, f.from, Reply("USER_ACK", f.from))
    /\ UNCHANGED <<listener, restarts, drones, addrs, enrolling, auth>>

-----------------------------------------------------------------------------
(* Authentication *)

Mu1(f) == f \in FramesTo(CS) /\ f.kind = "MU1"

\* verify_mu1 raises: the PIDu is unknown, for the server has restarted.
RejectMu1(f) ==
    /\ Mu1(f)
    /\ f.from[2] \notin users
    /\ Answer({f}, f.from, Reply("ERROR", f.from))
    /\ UNCHANGED <<listener, csVars>>

\* build_mu2_batch: one mu2 per record of a first all_drones().
BuildMu2Batch(f) ==
    /\ Mu1(f)
    /\ f.from[2] \in users
    /\ auth' = [auth EXCEPT ![f.from[2]] = [IdleThread EXCEPT !.pc = "built", !.mu2 = drones]]
    /\ net' = net \ {f}
    /\ UNCHANGED <<listener, open, restarts, drones, addrs, users, enrolling>>

\* _process_mu1 reads all_drones() again, to zip it with the mu2 list.
SnapshotDrones(u) ==
    /\ auth[u].pc = "built"
    /\ auth' = [auth EXCEPT ![u].pc = "sending", ![u].snap = drones, ![u].pos = 1]
    /\ UNCHANGED <<netVars, restarts, drones, addrs, users, enrolling>>

\* zip(drones, mu2_list) stops at the end of the shorter list.
Zipping(t) == t.pc = "sending" /\ t.pos <= Len(t.mu2) /\ t.pos <= Len(t.snap)

\* The drone thread u is about to serve, by the second list.
Target(u) == auth[u].snap[auth[u].pos].id
Advance(u) == [auth EXCEPT ![u].pos = @ + 1]

SkipUnaddressed(u) ==
    /\ Zipping(auth[u])
    /\ Target(u) \notin DOMAIN addrs
    /\ auth' = Advance(u)
    /\ UNCHANGED <<netVars, restarts, drones, addrs, users, enrolling>>

Reachable(d) == addrs[d] = DroneHost /\ listener[d] # 0

\* Fault: a mu2 is sent again after it has been sent.
ForwardMu2Again(u) ==
    /\ Zipping(auth[u])
    /\ LET d == Target(u) IN
          /\ d \in DOMAIN addrs /\ Reachable(d)
          /\ net' = net \cup {Mu2Frame(DroneProc(d, listener[d]), u, auth[u].mu2[auth[u].pos])}
    /\ UNCHANGED <<listener, open, csVars>>

\* _send_mu2_to_drone: the mu2 goes to the process now listening there.
ForwardMu2(u) ==
    /\ Zipping(auth[u])
    /\ LET d == Target(u) IN
          /\ d \in DOMAIN addrs /\ Reachable(d)
          /\ net' = net \cup {Mu2Frame(DroneProc(d, listener[d]), u, auth[u].mu2[auth[u].pos])}
    /\ auth' = [Advance(u) EXCEPT ![u].info = Append(@, auth[u].snap[auth[u].pos])]
    /\ UNCHANGED <<listener, open, restarts, drones, addrs, users, enrolling>>

\* Fault: an unreachable drone ends the loop's progress.
ForwardRetries(u) ==
    /\ Zipping(auth[u])
    /\ Target(u) \in DOMAIN addrs /\ ~Reachable(Target(u))
    /\ UNCHANGED <<netVars, csVars>>

\* Fault: it ends the thread, and with it the user's connection.
ForwardAborts(u) ==
    /\ Zipping(auth[u])
    /\ Target(u) \in DOMAIN addrs /\ ~Reachable(Target(u))
    /\ auth' = [auth EXCEPT ![u] = IdleThread]
    /\ open' = open \ {UserProc(u)}
    /\ UNCHANGED <<net, listener, restarts, drones, addrs, users, enrolling>>

\* The connection is refused, or times out or breaks, which may also befall a
\* drone that listens: log and continue.
ForwardFails(u) ==
    /\ Zipping(auth[u])
    /\ Target(u) \in DOMAIN addrs
    /\ Timeouts \/ ~Reachable(Target(u))
    /\ auth' = Advance(u)
    /\ UNCHANGED <<netVars, restarts, drones, addrs, users, enrolling>>

ReplyToUser(u) ==
    /\ auth[u].pc = "sending" /\ ~Zipping(auth[u])
    /\ Answer({}, UserProc(u), BatchReply(UserProc(u), auth[u].info))
    /\ auth' = [auth EXCEPT ![u] = IdleThread]
    /\ UNCHANGED <<listener, restarts, drones, addrs, users, enrolling>>

-----------------------------------------------------------------------------
\* server_app.py is restarted: a new master key s, an empty database, and
\* every connection reset.
Restart ==
    /\ restarts < MaxRestarts
    /\ restarts' = restarts + 1
    /\ drones' = <<>> /\ addrs' = <<>> /\ users' = {} /\ enrolling' = {}
    /\ auth' = [u \in Users |-> IdleThread]
    /\ net' = {f \in net : f.to # CS}
    /\ open' = {}
    /\ UNCHANGED listener

EnrollStep ==
    \/ \E f \in net : EnrollDrone(f) \/ EnrollUser(f)
    \/ \E t \in enrolling : RegisterAddress(t) \/ AckDrone(t)

AuthStep(u) ==
    \/ SnapshotDrones(u)
    \/ SkipUnaddressed(u) \/ ForwardMu2(u) \/ ForwardFails(u)
    \/ ReplyToUser(u)

CSStep ==
    \/ EnrollStep
    \/ \E f \in net : RejectMu1(f) \/ BuildMu2Batch(f)
    \/ \E u \in Users : AuthStep(u)

CSNext == CSStep \/ Restart
=============================================================================
