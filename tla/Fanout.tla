------------------------------- MODULE Fanout --------------------------------
(***************************************************************************)
(* One authentication against the clock: _process_mu1 contacts the drones  *)
(* one after the other and then answers, while the drones it has reached   *)
(* already respond and the user's timers run.  The interleavings of        *)
(* threads are in module Deployment; here each handler is one step.        *)
(*                                                                         *)
(* Time is counted in fractions of a second.  Messages, connections and    *)
(* timers take time, computations do not; whatever is due happens before   *)
(* time passes.  Setting up a connection takes a message there and one     *)
(* back: the server waits for that at every drone before it turns to the   *)
(* next one, and every drone twice before it sends to the user.            *)
(***************************************************************************)
EXTENDS Naturals, FiniteSets, Sequences

CONSTANTS
    Health,    \* what the drones may be like, in the order of all_drones()
    Second,    \* clock ticks in a second
    MaxDelay   \* ticks a message is under way at most

\* "up": follows the protocol; "rejects": a newer process, for which Yj does
\* not match; "refused": nothing listens; "silent": the host does not answer.
Conditions == {"up", "rejects", "refused", "silent"}

\* A connection that is accepted is set up after a message there and one back,
\* within the 10 s of create_connection.
RoundTrip == 2 * MaxDelay

ASSUME FanoutAssumption ==
    /\ Second \in Nat \ {0} /\ MaxDelay \in Nat \ {0}
    /\ Health \subseteq Seq(Conditions)
    /\ RoundTrip < 10 * Second

VARIABLES
    now,      \* the time since mu1 was sent
    health,   \* the condition of each drone
    flight,   \* messages and the drones' connections under way, with the time
              \* they arrive, or are set up, at the latest
    t2,       \* T2, the server's time stamp
    pos,      \* the drone _process_mu1 is about to contact, 0 before and after
    giveUp,   \* when create_connection to it ends, 0 before it is called
    listed,   \* drone_info
    wake,     \* when the thread of each drone awakes from sleep(2), 0 if none
    stage,    \* authenticate: the user's main thread
    since,    \* when it got there
    need,     \* self.num_drones
    got,      \* drones whose mu3 the user has counted
    ready,    \* _mu3_ready
    keys,     \* drones with a session key
    lost,     \* drones whose data was dropped: no session key
    stale     \* drones that rejected their mu2 as not fresh

csVars == <<t2, pos, giveUp, listed>>
userVars == <<stage, since, need, got, ready, keys, lost>>
vars == <<now, health, flight, csVars, wake, userVars, stale>>

Drones == DOMAIN health
Up == {d \in Drones : health[d] = "up"}

Msg(kind, d) == [kind |-> kind, drone |-> d, due |-> now + MaxDelay]

\* create_connection of a drone's thread to the user, for what it is about to send.
Dial(kind, d) == [kind |-> kind, drone |-> d, due |-> now + RoundTrip]

\* The timers of the code.
ConnectTimeout == 10 * Second
ReplyTimeout == 15 * Second
CollectTimeout == 30 * Second
Linger == 5 * Second

\* Faults: a connection is tried twice; the user counts one drone too few; the
\* drone sleeps for one second; the window is the "few seconds" of utils.py:134;
\* Yj is not compared.
ConnectTwice == 20 * Second
OneFewer(list) == IF list = <<>> THEN need ELSE Len(list) - 1
SleepOne == Second
FreshForSeconds(ts) == (now \div Second) - (ts \div Second) <= 5
Patience == ConnectTimeout
Expected(list) == IF list = <<>> THEN need ELSE Len(list)
DataDelay == 2 * Second

\* is_fresh: time stamps are whole seconds.
Fresh(ts) == (now \div Second) - (ts \div Second) <= 120

\* The Yj of the mu2 is the drone's own.
YjMatches(d) == health[d] = "up"

Init ==
    /\ now = 0
    /\ health \in Health
    /\ flight = {Msg("MU1", 0)}
    /\ t2 = 0 /\ pos = 0 /\ giveUp = 0 /\ listed = <<>>
    /\ wake = [d \in Drones |-> 0]
    /\ stage = "requesting" /\ since = 0
    /\ need = Len(health) /\ got = {} /\ ready = FALSE /\ keys = {} /\ lost = {}
    /\ stale = {}

-----------------------------------------------------------------------------
(* The server: _process_mu1 *)

ReceiveMu1(m) ==
    /\ m \in flight /\ m.kind = "MU1"
    /\ flight' = flight \ {m}
    /\ t2' = now /\ pos' = 1
    /\ UNCHANGED <<now, health, giveUp, listed, wake, userVars, stale>>

AtDrone(d) == pos = d /\ d \in Drones

\* A host that answers, even one that refuses, does so within a round trip.
StartConnecting(d) ==
    /\ AtDrone(d) /\ giveUp = 0
    /\ giveUp' = now + (IF health[d] = "silent" THEN Patience ELSE RoundTrip)
    /\ UNCHANGED <<now, health, flight, t2, pos, listed, wake, userVars, stale>>

\* The connection is accepted, whatever the drone will say to the mu2.
ContactDrone(d) ==
    /\ AtDrone(d) /\ giveUp # 0 /\ health[d] \in {"up", "rejects"}
    /\ flight' = flight \cup {Msg("MU2", d)}
    /\ listed' = Append(listed, d)
    /\ giveUp' = 0 /\ pos' = pos + 1
    /\ UNCHANGED <<now, health, t2, wake, userVars, stale>>

DroneRefuses(d) ==
    /\ AtDrone(d) /\ giveUp # 0 /\ health[d] = "refused"
    /\ giveUp' = 0 /\ pos' = pos + 1
    /\ UNCHANGED <<now, health, flight, t2, listed, wake, userVars, stale>>

GiveUpConnecting(d) ==
    /\ AtDrone(d) /\ giveUp # 0 /\ health[d] = "silent" /\ now = giveUp
    /\ giveUp' = 0 /\ pos' = pos + 1
    /\ UNCHANGED <<now, health, flight, t2, listed, wake, userVars, stale>>

\* The user may have closed the connection: the answer is lost then.
AnswerUser ==
    /\ pos = Len(health) + 1
    /\ flight' = IF stage = "requesting" THEN flight \cup {Msg("BATCH", 0)} ELSE flight
    /\ pos' = 0
    /\ UNCHANGED <<now, health, t2, giveUp, listed, wake, userVars, stale>>

-----------------------------------------------------------------------------
(* The drones: handle_mu2, then _send_mu3_to_user *)

UserListens == stage \notin {"aborted", "exited"}

RejectMu2(m) ==
    /\ m \in flight /\ m.kind = "MU2"
    /\ ~YjMatches(m.drone) \/ ~Fresh(t2)
    /\ flight' = flight \ {m}
    /\ stale' = IF Fresh(t2) THEN stale ELSE stale \cup {m.drone}
    /\ UNCHANGED <<now, health, csVars, wake, userVars>>

AcceptMu2(m) ==
    /\ m \in flight /\ m.kind = "MU2"
    /\ YjMatches(m.drone) /\ Fresh(t2)
    /\ flight' = (flight \ {m}) \cup {Dial("DIAL_MU3", m.drone)}
    /\ UNCHANGED <<now, health, csVars, wake, userVars, stale>>

\* mu3 is sent, the thread goes to sleep; or the user is gone.
SendMu3(m) ==
    /\ m \in flight /\ m.kind = "DIAL_MU3"
    /\ IF UserListens
       THEN /\ flight' = (flight \ {m}) \cup {Msg("MU3", m.drone)}
            /\ wake' = [wake EXCEPT ![m.drone] = now + DataDelay]
       ELSE flight' = flight \ {m} /\ UNCHANGED wake
    /\ UNCHANGED <<now, health, csVars, userVars, stale>>

Asleep(d) == wake[d] # 0

Awake(d) ==
    /\ Asleep(d) /\ wake[d] <= now
    /\ wake' = [wake EXCEPT ![d] = 0]
    /\ flight' = flight \cup {Dial("DIAL_DATA", d)}
    /\ UNCHANGED <<now, health, csVars, userVars, stale>>

SendData(m) ==
    /\ m \in flight /\ m.kind = "DIAL_DATA"
    /\ flight' = (flight \ {m}) \cup IF UserListens THEN {Msg("DATA", m.drone)} ELSE {}
    /\ UNCHANGED <<now, health, csVars, wake, userVars, stale>>

-----------------------------------------------------------------------------
(* The user *)

ReceiveMu3(m) ==
    /\ m \in flight /\ m.kind = "MU3"
    /\ flight' = flight \ {m}
    /\ got' = got \cup {m.drone}
    /\ ready' = (ready \/ Cardinality(got') >= need)
    /\ UNCHANGED <<now, health, csVars, wake, stage, since, need, keys, lost, stale>>

ReceiveBatch(m) ==
    /\ m \in flight /\ m.kind = "BATCH"
    /\ flight' = flight \ {m}
    /\ need' = Expected(listed)
    /\ stage' = "waiting" /\ since' = now
    /\ UNCHANGED <<now, health, csVars, wake, got, ready, keys, lost, stale>>

\* What is addressed to a process that is gone is lost.
UserGone(end) ==
    /\ stage' = end /\ since' = now
    /\ flight' = {m \in flight : m.kind \notin {"MU3", "BATCH", "DATA"}}
    /\ UNCHANGED <<now, health, csVars, wake, need, got, ready, keys, lost, stale>>

\* recv_msg raises: main ends, whatever has arrived on the other ports.
ReplyTimesOut ==
    /\ stage = "requesting" /\ now = ReplyTimeout
    /\ UserGone("aborted")

\* The Event is set, or 30 s are over.
VerifyBatch ==
    /\ stage = "waiting"
    /\ ready \/ now = since + CollectTimeout
    /\ keys' = got
    /\ stage' = "verified" /\ since' = now
    /\ UNCHANGED <<now, health, flight, csVars, wake, need, got, ready, lost, stale>>

\* _handle_secure_data: data without a session key is dropped.
ReceiveData(m) ==
    /\ m \in flight /\ m.kind = "DATA"
    /\ flight' = flight \ {m}
    /\ lost' = IF m.drone \in keys THEN lost ELSE lost \cup {m.drone}
    /\ UNCHANGED <<now, health, csVars, wake, stage, since, need, got, ready, keys, stale>>

UserExits ==
    /\ stage = "verified" /\ now = since + Linger
    /\ UserGone("exited")

-----------------------------------------------------------------------------
\* Nothing is due before the next tick.
NothingDue ==
    /\ \A m \in flight : m.due > now
    /\ pos # 0 => giveUp > now   \* so not 0: it is connecting
    /\ \A d \in Drones : Asleep(d) => wake[d] > now
    /\ stage = "requesting" => now < ReplyTimeout
    /\ stage = "waiting" => ~ready /\ now < since + CollectTimeout
    /\ stage = "verified" => now < since + Linger

Finished == ~UserListens /\ flight = {} /\ pos = 0 /\ \A d \in Drones : ~Asleep(d)

Tick ==
    /\ NothingDue /\ ~Finished
    /\ now' = now + 1
    /\ UNCHANGED <<health, flight, csVars, wake, userVars, stale>>

Next ==
    \/ \E m \in flight : ReceiveMu1(m) \/ RejectMu2(m) \/ AcceptMu2(m) \/ SendMu3(m)
                         \/ SendData(m) \/ ReceiveMu3(m) \/ ReceiveBatch(m) \/ ReceiveData(m)
    \/ \E d \in Drones : ContactDrone(d) \/ DroneRefuses(d) \/ StartConnecting(d)
                         \/ GiveUpConnecting(d) \/ Awake(d)
    \/ AnswerUser \/ ReplyTimesOut \/ VerifyBatch \/ UserExits
    \/ Tick

Spec == Init /\ [][Next]_vars

-----------------------------------------------------------------------------
\* Properties

\* One drone that does not answer delays the others and aborts nothing, as long
\* as the round trips of all connections fit into what its 10 s leave of the
\* user's 15 s.
OneSilentIsTolerated ==
    (/\ Cardinality({d \in Drones : health[d] = "silent"}) <= 1
     /\ Len(health) * RoundTrip < 5 * Second) => stage # "aborted"

\* A user that gets to verify has the responses of all drones that follow the
\* protocol, whatever the others do and in whichever order they are contacted.
VerifiedHasAll == stage \in {"verified", "exited"} => keys = Up

\* With every drone up the two seconds a drone sleeps are enough, and its data
\* meets a session key, as long as they cover the round trips between the mu3
\* of the first drone and that of the last one.
DataIsRead ==
    (/\ Up = Drones
     /\ (Len(health) + 1) * RoundTrip < 2 * Second) => lost = {}

\* The freshness window never costs a drone its session: by the time it has
\* passed for the last drone, the user is gone.
StaleOnlyAfterAbort == stale # {} => stage = "aborted"

-----------------------------------------------------------------------------
\* What the repository says and the code does not do

\* drone_app.py:189, "Small delay - give user time to verify batch and store
\* SKij": data is not sent to a user that cannot read it.
SleepIsEnough == lost = {}
=============================================================================
