----------------------------- MODULE Deployment ------------------------------
(***************************************************************************)
(* The socket deployment: server_app.py, the drone_app.py processes and    *)
(* user_app.py, run together by socket_main.py or on several machines.     *)
(***************************************************************************)
EXTENDS CSServer, DroneApp, UserApp

vars == <<netVars, csVars, droneVars, userVars>>

Init == NetInit /\ CSInit /\ DroneInit /\ UserInit

Next ==
    \/ CSNext /\ UNCHANGED <<droneVars, userVars>>
    \/ DroneNext /\ UNCHANGED <<csVars, userVars>>
    \/ UserNext /\ UNCHANGED <<csVars, droneVars>>

Spec == Init /\ [][Next]_vars

\* Every thread that can run is scheduled, and the timers that are modelled
\* expire.  Every run is finite, so fairness of a whole program is enough.
Fairness ==
    /\ WF_vars(CSStep /\ UNCHANGED <<droneVars, userVars>>)
    /\ \A d \in Drones : WF_vars(DroneStep(d) /\ UNCHANGED <<csVars, userVars>>)
    /\ WF_vars(UserStep /\ UNCHANGED <<csVars, droneVars>>)

FairSpec == Spec /\ Fairness

-----------------------------------------------------------------------------
\* Properties

Frames ==
    [kind : {"ENROLL_DRONE"}, to : {CS}, from : Drones \X Incarnations]
    \cup [kind : {"ENROLL_USER", "MU1"}, to : {CS}, from : {User} \X Users]
    \cup [kind : {"DRONE_ACK"}, to : Drones \X Incarnations, from : {CS}]
    \cup [kind : {"USER_ACK", "ERROR"}, to : {User} \X Users, from : {CS}]
    \cup [kind : {"BATCH"}, to : {User} \X Users, from : {CS}, drones : Seq(Records)]
    \cup [kind : {"MU2"}, to : Drones \X Incarnations, user : Users, rec : Records]
    \cup [kind : {"MU3"}, to : {User} \X Users, user : Users, rec : Records]
    \cup [kind : {"DATA"}, to : {User} \X Users, rec : Records,
          pid : Users \cup {0}, point : Users \cup {0}]

\* The types of the variables, and of every frame on the wire.
TypeOK ==
    /\ net \subseteq Frames
    /\ listener \in [Drones \cup {User} -> Nat]
    /\ open \subseteq (Drones \X Incarnations) \cup ({User} \X Users)
    /\ restarts \in 0 .. MaxRestarts
    /\ drones \in Seq(Records) /\ addrs \in [DOMAIN addrs -> {UserHost}]
    /\ DOMAIN addrs \subseteq Drones
    /\ users \subseteq Users
    /\ enrolling \subseteq EnrollThreads
    /\ auth \in [Users -> AuthThreads]
    /\ inc \in [Drones -> 0 .. MaxIncarnations]
    /\ phase \in [Drones -> {"down", "enrolling", "enrolled", "listening"}]
    /\ point \in [Drones -> Users \cup {0}] /\ pid \in [Drones -> Users \cup {0}]
    /\ serving \in [Drones -> [Users -> DroneThreads]]
    /\ cur \in 0 .. MaxUsers /\ stage \in Stages
    /\ numDrones \in Nat /\ batch \in Seq(Responses) /\ counted \subseteq 1 .. Len(batch)
    /\ ready \in BOOLEAN
    /\ valid \subseteq Records /\ invalid \subseteq Records /\ sessions \subseteq Records

\* zip(drones, mu2_list) pairs two lists taken at different moments: each mu2
\* still belongs to the drone it is paired with, whoever enrols in between.
ZipAligned ==
    \A u \in Users : auth[u].pc = "sending" =>
        \A i \in DOMAIN auth[u].mu2 \cap DOMAIN auth[u].snap :
            auth[u].mu2[i].id = auth[u].snap[i].id

\* Hence no drone is sent the mu2 of another one.
Mu2ReachesItsDrone ==
    \A f \in net : f.kind = "MU2" => f.to[1] = f.rec.id

\* A drone is acknowledged when the server can reach it and knows its keys.
\* (A second process of a drone may be overtaken by the request of its first.)
AcknowledgedIsKnown ==
    \A d \in Drones :
        phase[d] \in {"enrolled", "listening"} /\ restarts = 0 /\ inc[d] = 1 =>
            d \in DOMAIN addrs /\ \E i \in DOMAIN drones : drones[i] = Record(d, 1)

\* One mu1 draws at most one response from each drone, also when the drone is
\* restarted and enrols again while the mu2 are under way.
OneResponsePerDrone ==
    \A i, j \in DOMAIN batch :
        Own(batch[i]) /\ Own(batch[j]) /\ batch[i].rec.id = batch[j].rec.id => i = j

\* When the Event lets the main thread go on, that many drones have answered.
WokenMeansAllAnswered ==
    stage = "waiting" /\ ready =>
        Cardinality({m.rec.id : m \in {n \in Collected : Own(n)}}) >= numDrones

\* The key a drone encrypts with is the one the user decrypts with.
DataDecrypts ==
    \A f \in FramesTo(Me) :
        f.kind = "DATA" /\ f.rec \in sessions => f.pid = cur /\ f.point = cur

\* Nothing of an earlier user process can reach a drone's stash any more: its
\* mu1 is answered, its mu2 are taken and no thread is about to stash for it.
Settled(u) ==
    \A v \in Users : v < u =>
        /\ auth[v].pc = "idle"
        /\ \A f \in net : /\ ~Mu1(f) \/ f.from # UserProc(v)
                          /\ f.kind = "MU2" => f.user # v
        /\ \A d \in Drones : serving[d][v].pc # "stashing"

\* The two reads of derive_session_key return what the thread's own mu2 stashed.
KeysAreOwn(u) ==
    \A d \in Drones :
        serving[d][u].pc = "keyed" => serving[d][u].pid = u /\ serving[d][u].point = u

\* A user that sends its mu1 after all that its predecessors started is over gets
\* data under its own keys, with threads of earlier sessions asleep in a drone
\* and drones that enrol again: the one slot is shared, but no longer written.
SettledKeysAreOwn ==
    \A u \in Users :
        []((cur = u /\ stage = "enrolled" /\ Settled(u)) => [](cur = u => KeysAreOwn(u)))

\* Every mu1 is answered with a batch or an error, or its connection is lost,
\* whatever happens to the drones: the user needs no timeout for it.
RequestsAnswered == stage = "requesting" ~> stage # "requesting"

\* When every drone listens before the user starts and nothing dies meanwhile,
\* each drone ends up with a session key and no timeout is needed.
AllDronesGetSessions ==
    (stage = "started" /\ \A d \in Drones : phase[d] = "listening")
        ~> \/ stage = "done" /\ {r.id : r \in sessions} = Drones
           \/ stage = "off" \/ restarts > 0 \/ \E d \in Drones : phase[d] # "listening"

\* Nothing but a restart of the server makes the user give up before its
\* timeouts: drones that crash, refuse or are unknown end in a shorter reply.
FailsOnlyByRestart == [][UserFails => restarts > 0]_vars

-----------------------------------------------------------------------------
\* What the repository says and the code does not do

\* user_app.py:232, "Update how many mu3 we need in case the CS batch differs
\* from --drones.": a user that has them all does not sit out the timeout.
NoLostWakeup ==
    stage = "waiting" /\ counted = {} /\ Len(batch) >= numDrones => ready
=============================================================================
