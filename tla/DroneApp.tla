------------------------------ MODULE DroneApp ------------------------------
(***************************************************************************)
(* drone_app.py over drone.py: a drone enrols, opens its listener and      *)
(* serves each mu2 in a thread of its own; the threads share the session   *)
(* state stashed in the Drone object.                                      *)
(***************************************************************************)
EXTENDS Network

VARIABLES
    inc,     \* the number of each drone's latest process
    phase,   \* how far its main thread is
    point,   \* _user_point: whose X is stashed, 0 before any
    pid,     \* _pid_u: whose PIDu is stashed
    serving  \* the thread for each user's mu2, with the values it has read

droneVars == <<inc, phase, point, pid, serving>>

NoThread == [pc |-> "none", pid |-> 0, point |-> 0]
DroneThreads ==
    [pc : {"none", "stashing", "ready", "sent", "read_pid", "keyed"},
     pid : Users \cup {0}, point : Users \cup {0}]

DroneInit ==
    /\ inc = [d \in Drones |-> 0]
    /\ phase = [d \in Drones |-> "down"]
    /\ point = [d \in Drones |-> 0]
    /\ pid = [d \in Drones |-> 0]
    /\ serving = [d \in Drones |-> [u \in Users |-> NoThread]]

Self(d) == DroneProc(d, inc[d])

-----------------------------------------------------------------------------
(* Enrollment: main, DroneApp.enroll and run_auth_listener *)

StartDrone(d) ==
    /\ phase[d] = "down" /\ inc[d] < MaxIncarnations
    /\ inc' = [inc EXCEPT ![d] = @ + 1]
    /\ phase' = [phase EXCEPT ![d] = "enrolling"]
    /\ Connect("ENROLL_DRONE", DroneProc(d, inc[d] + 1))
    /\ UNCHANGED <<listener, point, pid, serving>>

StoreCredentials(d) ==
    /\ phase[d] = "enrolling"
    /\ Reply("DRONE_ACK", Self(d)) \in net
    /\ net' = net \ {Reply("DRONE_ACK", Self(d))}
    /\ phase' = [phase EXCEPT ![d] = "enrolled"]
    /\ UNCHANGED <<listener, open, inc, point, pid, serving>>

\* The listener opens after the enrollment: till then the CS is refused.
BindListener(d) ==
    /\ phase[d] = "enrolled"
    /\ listener' = [listener EXCEPT ![d] = inc[d]]
    /\ phase' = [phase EXCEPT ![d] = "listening"]
    /\ UNCHANGED <<net, open, inc, point, pid, serving>>

DroneGone(d) ==
    /\ Gone(d, Self(d))
    /\ phase' = [phase EXCEPT ![d] = "down"]
    /\ point' = [point EXCEPT ![d] = 0]
    /\ pid' = [pid EXCEPT ![d] = 0]
    /\ serving' = [serving EXCEPT ![d] = [u \in Users |-> NoThread]]
    /\ UNCHANGED inc

\* recv_msg raises, on the 15 s timeout or a lost connection: main exits.
EnrollmentFails(d) ==
    /\ phase[d] = "enrolling"
    /\ Timeouts \/ HungUp(Self(d))
    /\ DroneGone(d)

CrashDrone(d) ==
    /\ Crashes /\ phase[d] # "down"
    /\ DroneGone(d)

-----------------------------------------------------------------------------
(* One thread per mu2: _handle_mu2, then _send_mu3_to_user *)

Mu2For(d, f) == f \in FramesTo(Self(d)) /\ f.kind = "MU2"

\* Yj was made with another Ksd: the CS holds another process's record.
RejectMu2(d, f) ==
    /\ Mu2For(d, f)
    /\ f.rec # Record(d, inc[d])
    /\ net' = net \ {f}
    /\ UNCHANGED <<listener, open, droneVars>>

\* handle_mu2: Yj matches; Ij is made for f.user; _user_point is stashed ...
AcceptMu2(d, f) ==
    /\ Mu2For(d, f)
    /\ f.rec = Record(d, inc[d])
    /\ point' = [point EXCEPT ![d] = f.user]
    /\ serving' = [serving EXCEPT ![d][f.user] = [NoThread EXCEPT !.pc = "stashing"]]
    /\ net' = net \ {f}
    /\ UNCHANGED <<listener, open, inc, phase, pid>>

\* Fault: _pid_u keeps the first user's value.
StashPidOnce(d, u) ==
    /\ serving[d][u].pc = "stashing"
    /\ pid' = [pid EXCEPT ![d] = IF @ = 0 THEN u ELSE @]
    /\ serving' = [serving EXCEPT ![d][u].pc = "ready"]
    /\ UNCHANGED <<netVars, inc, phase, point>>

\* ... and then _pid_u.
StashPid(d, u) ==
    /\ serving[d][u].pc = "stashing"
    /\ pid' = [pid EXCEPT ![d] = u]
    /\ serving' = [serving EXCEPT ![d][u].pc = "ready"]
    /\ UNCHANGED <<netVars, inc, phase, point>>

\* mu3 goes to whichever user process listens on port 9200 now.
SendMu3(d, u) ==
    /\ serving[d][u].pc = "ready"
    /\ listener[User] # 0
    /\ net' = net \cup {Mu3Frame(UserProc(listener[User]), u, Record(d, inc[d]))}
    /\ serving' = [serving EXCEPT ![d][u].pc = "sent"]
    /\ UNCHANGED <<listener, open, inc, phase, point, pid>>

\* Connection refused, at either send: the thread logs and ends.
SendRefused(d, u) ==
    /\ serving[d][u].pc \in {"ready", "keyed"}
    /\ listener[User] = 0
    /\ serving' = [serving EXCEPT ![d][u] = NoThread]
    /\ UNCHANGED <<netVars, inc, phase, point, pid>>

\* After 2 s derive_session_key reads _pid_u ...
ReadPid(d, u) ==
    /\ serving[d][u].pc = "sent"
    /\ serving' = [serving EXCEPT ![d][u].pc = "read_pid", ![d][u].pid = pid[d]]
    /\ UNCHANGED <<netVars, inc, phase, point, pid>>

\* ... and then _user_point.
ReadPoint(d, u) ==
    /\ serving[d][u].pc = "read_pid"
    /\ serving' = [serving EXCEPT ![d][u].pc = "keyed", ![d][u].point = point[d]]
    /\ UNCHANGED <<netVars, inc, phase, point, pid>>

SendData(d, u) ==
    /\ serving[d][u].pc = "keyed"
    /\ listener[User] # 0
    /\ net' = net \cup {DataFrame(UserProc(listener[User]), Record(d, inc[d]),
                                  serving[d][u].pid, serving[d][u].point)}
    /\ serving' = [serving EXCEPT ![d][u] = NoThread]
    /\ UNCHANGED <<listener, open, inc, phase, point, pid>>

ServeStep(d, u) ==
    \/ StashPid(d, u) \/ SendMu3(d, u) \/ SendRefused(d, u)
    \/ ReadPid(d, u) \/ ReadPoint(d, u) \/ SendData(d, u)

DroneStep(d) ==
    \/ StoreCredentials(d) \/ BindListener(d) \/ EnrollmentFails(d)
    \/ \E f \in net : RejectMu2(d, f) \/ AcceptMu2(d, f)
    \/ \E u \in Users : ServeStep(d, u)

DroneNext == \E d \in Drones : StartDrone(d) \/ DroneStep(d) \/ CrashDrone(d)
=============================================================================
