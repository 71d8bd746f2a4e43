----------------------------- MODULE FanoutProofs ----------------------------
(***************************************************************************)
(* One authentication against the clock, for any number of drones in any   *)
(* conditions: what the timers of the programs guarantee when every message *)
(* takes at most MaxDelay and setting up a connection two of them.         *)
(***************************************************************************)
EXTENDS Fanout, FiniteSetTheorems, SequenceTheorems, TLAPS

Silent == {d \in Drones : health[d] = "silent"}
AtMostOne == \A d, e \in Silent : d = e

\* Drones before the p-th that are listed: those a connection to is accepted.
ListedBefore(p) == {d \in Drones : d < p /\ health[d] \in {"up", "rejects"}}
Last == Len(health) + 1

InFlight(kind) == \E m \in flight : m.kind = kind

Dials == {"DIAL_MU3", "DIAL_DATA"}
ToUser == Dials \cup {"MU3", "DATA"}
Kinds == ToUser \cup {"MU1", "BATCH", "MU2"}
First == [kind |-> "MU1", drone |-> 0, due |-> 0 + MaxDelay]

\* Nothing is late; only drones that do right turn to the user.
Frames ==
    \A m \in flight :
        /\ m.kind \in Kinds /\ m.due \in now .. now + RoundTrip
        /\ m.kind \notin Dials => m.due <= now + MaxDelay
        /\ m.kind = "MU2" => m.drone \in Drones
        /\ m.kind \in ToUser => m.drone \in Up

Types ==
    /\ now \in Nat /\ health \in Seq(Conditions)
    /\ t2 \in 0 .. MaxDelay /\ t2 <= now /\ pos \in 0 .. Last /\ giveUp \in Nat
    /\ wake \in [Drones -> Nat]
    /\ stage \in {"requesting", "waiting", "verified", "aborted", "exited"}
    /\ since \in Nat /\ need \in Nat /\ got \subseteq Up /\ ready \in BOOLEAN
    /\ listed \in Seq(Drones)

\* The user is answered once, after mu1 has arrived and all drones have been tried.
Course ==
    /\ InFlight("MU1") =>
          /\ flight = {First} /\ pos = 0 /\ giveUp = 0 /\ listed = <<>> /\ stage = "requesting"
          /\ wake = [d \in Drones |-> 0]
    /\ pos # 0 => /\ stage \in {"requesting", "aborted"} /\ ~InFlight("BATCH")
                  /\ Len(listed) = Cardinality(ListedBefore(pos))
    /\ \A m \in flight : m.kind = "BATCH" =>
          /\ stage = "requesting" /\ Len(listed) = Cardinality(ListedBefore(Last))
          /\ \A k \in flight : k.kind = "BATCH" => k = m
    /\ stage = "requesting" => InFlight("MU1") \/ pos # 0 \/ InFlight("BATCH")
    /\ giveUp # 0 => pos \in Drones /\ now <= giveUp

\* The round trips to the drones before the p-th, and what a silent one among
\* them costs beyond: that is how late the server gets to the p-th.
Trips(p) == (p - 1) * RoundTrip
Held(p) == IF \E d \in Silent : d < p THEN ConnectTimeout - RoundTrip ELSE 0
Reached(p) == t2 + Trips(p) + Held(p)

\* With at most one silent drone the server is on time, and so is its answer.
Punctual ==
    AtMostOne =>
        /\ pos # 0 /\ giveUp = 0 => now <= Reached(pos)
        /\ giveUp # 0 => giveUp <= Reached(pos + 1)
        /\ \A m \in flight : m.kind = "BATCH" => m.due <= Reached(Last) + MaxDelay
        /\ Len(health) * RoundTrip < 5 * Second => stage # "aborted"

\* Only drones that have accepted their mu2 are to send data.
Sleepers == \A d \in Drones : wake[d] # 0 => d \in Up

CourseInv == Types /\ Frames /\ Course /\ Punctual /\ Sleepers
-----------------------------------------------------------------------------
\* The response of a drone that does right: counted, or still to come.
Coming(d) ==
    \/ d \in got
    \/ \E m \in flight : m.kind \in {"MU2", "DIAL_MU3", "MU3"} /\ m.drone = d
    \/ InFlight("MU1")
    \/ pos # 0 /\ pos <= d

AllComing == stage \in {"requesting", "waiting"} => \A d \in Up : Coming(d)

\* All that is to come is there before the 30 s are over.
Deadlines ==
    /\ stage = "requesting" => now <= ReplyTimeout
    /\ stage = "waiting" =>
          /\ since <= ReplyTimeout /\ since <= now
          /\ \A m \in flight : /\ m.kind = "MU2" => m.due <= since + MaxDelay
                               /\ m.kind = "DIAL_MU3" => m.due <= since + 3 * MaxDelay
                               /\ m.kind = "MU3" => m.due <= since + 4 * MaxDelay
    /\ stage # "aborted" =>
          \A m \in flight : m.kind = "MU2" => m.due <= ReplyTimeout + MaxDelay

Counted ==
    /\ need >= Cardinality(Up)
    /\ ready => got = Up

CollectInv == AllComing /\ Deadlines /\ Counted /\ VerifiedHasAll /\ StaleOnlyAfterAbort
-----------------------------------------------------------------------------
\* With every drone up, and quick: no data is sent before all responses are there.
Quick == Up = Drones /\ Drones # {} /\ (Len(health) + 1) * RoundTrip < 2 * Second

Whole == need = Len(health) /\ (got = Drones => ready)

\* Until the first drone is contacted nothing is under way but mu1.
Before ==
    /\ InFlight("MU1") \/ pos = 1
    /\ stage = "requesting" /\ wake = [d \in Drones |-> 0]
    /\ \A m \in flight : m.kind = "MU1"

\* It was contacted at c; the last one at cl at the latest, n - 1 round trips later.
\* The responses are in one message, one connection and one message after that.
LastAt(c) == c + Trips(Len(health))

Dispatch(c) ==
    /\ pos # 0 => pos > 1
    /\ pos # 0 /\ giveUp = 0 => now + RoundTrip <= c + Trips(pos)
    /\ giveUp # 0 => giveUp <= c + Trips(pos)
    /\ \A m \in flight :
          /\ m.kind \in {"MU2", "BATCH"} => m.due <= LastAt(c) + MaxDelay
          /\ m.kind = "DIAL_MU3" => m.due <= LastAt(c) + 3 * MaxDelay
          /\ m.kind = "MU3" => m.due <= LastAt(c) + 4 * MaxDelay
          /\ m.kind \in {"DIAL_DATA", "DATA"} => now >= c + DataDelay
    /\ \A d \in Drones : wake[d] # 0 => wake[d] >= c + DataDelay

Swift(c) ==
    /\ c <= now /\ ~InFlight("MU1")
    /\ stage = "requesting" => now <= LastAt(c) + MaxDelay
    /\ stage = "waiting" => now <= LastAt(c) + 4 * MaxDelay

Prompt == Quick => Whole /\ (Before \/ \E c \in Nat : Dispatch(c) /\ Swift(c))

DataInv == Prompt /\ DataIsRead
-----------------------------------------------------------------------------
LEMMA ConstantsAre ==
    /\ Second \in Nat /\ Second >= 1 /\ MaxDelay \in Nat /\ MaxDelay >= 1
    /\ RoundTrip \in Nat /\ RoundTrip = 2 * MaxDelay /\ RoundTrip < 10 * Second
    /\ Health \subseteq Seq(Conditions)
  BY FanoutAssumption DEF FanoutAssumption, RoundTrip

LEMMA TripsAre ==
    /\ Trips(1) = 0
    /\ \A p \in Nat \ {0} : Trips(p) \in Nat /\ Trips(p + 1) = Trips(p) + RoundTrip
    /\ \A p, q \in Nat \ {0} : p <= q => Trips(p) <= Trips(q)
    /\ \A n \in Nat : Trips(n + 1) = n * RoundTrip
  <1>1. RoundTrip \in Nat
    BY ConstantsAre
  <1>2. \A n \in Nat : n * RoundTrip \in Nat /\ (n + 1) * RoundTrip = n * RoundTrip + RoundTrip
    BY <1>1
  <1>3. \A n \in Nat : Trips(n + 1) = n * RoundTrip
    BY <1>1 DEF Trips
  <1>4. \A p \in Nat \ {0} : p - 1 \in Nat /\ p = (p - 1) + 1
    OBVIOUS
  <1>5. \A p \in Nat \ {0} : Trips(p) \in Nat /\ Trips(p + 1) = Trips(p) + RoundTrip
    BY <1>2, <1>4 DEF Trips
  <1>6. ASSUME NEW p \in Nat \ {0}, NEW q \in Nat \ {0}, p <= q
        PROVE  Trips(p) <= Trips(q)
    <2>1. PICK k \in Nat : q - 1 = (p - 1) + k
      <3>1. q - p \in Nat /\ q - 1 = (p - 1) + (q - p)
        BY <1>6
      <3> QED
        BY <3>1
    <2>2. (q - 1) * RoundTrip = (p - 1) * RoundTrip + k * RoundTrip /\ k * RoundTrip \in Nat
      BY <1>1, <2>1
    <2>3. (p - 1) * RoundTrip \in Nat
      BY <1>2, <1>4
    <2> QED
      BY <2>2, <2>3 DEF Trips
  <1>7. Trips(1) = 0
    BY <1>1 DEF Trips
  <1> QED
    BY <1>3, <1>5, <1>6, <1>7

LEMMA HealthIsFixed ==
    ASSUME [Next]_vars
    PROVE  /\ health' = health /\ Drones' = Drones /\ Up' = Up /\ Silent' = Silent
           /\ Last' = Last /\ (AtMostOne' <=> AtMostOne)
           /\ ListedBefore(Last)' = ListedBefore(Last)
  <1>1. health' = health
    BY DEF Next, vars, userVars, csVars, ReceiveMu1, RejectMu2, AcceptMu2, SendMu3,
           ReceiveMu3, ReceiveBatch, ReceiveData, ContactDrone, DroneRefuses, StartConnecting,
           GiveUpConnecting, Awake, SendData, AnswerUser, ReplyTimesOut, VerifyBatch, UserExits,
           UserGone, Tick
  <1> QED
    BY <1>1 DEF Drones, Up, Silent, Last, AtMostOne, ListedBefore

LEMMA DronesAre ==
    ASSUME Types
    PROVE  /\ Len(health) \in Nat /\ Drones = 1 .. Len(health) /\ Last \in Nat
           /\ Last \notin Drones /\ \A d \in Drones : d \in Nat /\ d # 0 /\ d < Last
           /\ \A d \in Drones : health[d] \in Conditions
  BY DEF Types, Drones, Last

LEMMA MsgIs ==
    ASSUME NEW kind, NEW d
    PROVE  /\ Msg(kind, d).kind = kind /\ Msg(kind, d).drone = d
           /\ Msg(kind, d).due = now + MaxDelay
           /\ Dial(kind, d).kind = kind /\ Dial(kind, d).drone = d
           /\ Dial(kind, d).due = now + RoundTrip
  BY DEF Msg, Dial

\* The messages of a step: what it takes, and what it sends.
Gets(m) == flight' = flight \ {m}
Sends(kind, d) == flight' = flight \cup {Msg(kind, d)}

LEMMA TypesStep ==
    ASSUME CourseInv, [Next]_vars
    PROVE  Types'
  <1> USE DEF userVars, csVars
  <1>1. Types /\ Frames /\ Second \in Nat /\ MaxDelay \in Nat
    BY ConstantsAre DEF CourseInv
  <1>2. CASE UNCHANGED vars
    BY <1>1, <1>2 DEF vars, Types, Last, Drones, Up
  <1>3. ASSUME NEW m, ReceiveMu1(m) PROVE Types'
    <2>1. now <= MaxDelay
      BY <1>1, <1>3 DEF CourseInv, Course, InFlight, Frames, First, ReceiveMu1
    <2> QED
      BY <1>1, <1>3, <2>1 DEF ReceiveMu1, Types, Last, Drones, Up
  <1>4. ASSUME NEW m, RejectMu2(m) PROVE Types'
    BY <1>1, <1>4 DEF RejectMu2, Types, Last, Drones, Up
  <1>5. ASSUME NEW m, SendMu3(m) PROVE Types'
    <2>1. /\ UNCHANGED <<now, health, t2, pos, giveUp, listed, stage, since, need, got, ready>>
          /\ wake' = wake \/ wake' = [wake EXCEPT ![m.drone] = now + DataDelay]
      BY <1>5 DEF SendMu3
    <2>2. now + DataDelay \in Nat /\ wake \in [Drones -> Nat]
      BY <1>1 DEF Types, DataDelay
    <2>3. wake' \in [Drones -> Nat]
      BY <2>1, <2>2
    <2> QED
      BY <1>1, <2>1, <2>3 DEF Types, Last, Drones, Up
  <1>6. ASSUME NEW m, ReceiveMu3(m) PROVE Types'
    <2>1. m.drone \in Up
      BY <1>1, <1>6 DEF ReceiveMu3, Frames, ToUser
    <2>2. got' \subseteq Up /\ ready' \in BOOLEAN
      BY <1>1, <1>6, <2>1 DEF ReceiveMu3, Types
    <2> QED
      BY <1>1, <1>6, <2>2 DEF ReceiveMu3, Types, Last, Drones, Up
  <1>7. ASSUME NEW m, ReceiveBatch(m) PROVE Types'
    <2>1. Expected(listed) \in Nat
      BY <1>1 DEF Types, Expected
    <2> QED
      BY <1>1, <1>7, <2>1 DEF ReceiveBatch, Types, Last, Drones, Up
  <1>8. ASSUME NEW m, ReceiveData(m) PROVE Types'
    BY <1>1, <1>8 DEF ReceiveData, Types, Last, Drones, Up
  <1>9. ASSUME NEW d, ContactDrone(d) PROVE Types'
    BY <1>1, <1>9, DronesAre DEF ContactDrone, AtDrone, Types, Last, Drones, Up
  <1>10. ASSUME NEW d, DroneRefuses(d) PROVE Types'
    BY <1>1, <1>10, DronesAre DEF DroneRefuses, AtDrone, Types, Last, Drones, Up
  <1>11. ASSUME NEW d, StartConnecting(d) PROVE Types'
    <2>1. (IF health[d] = "silent" THEN Patience ELSE RoundTrip) \in Nat
      BY <1>1, ConstantsAre DEF Patience, ConnectTimeout
    <2> QED
      BY <1>1, <1>11, <2>1 DEF StartConnecting, Types, Last, Drones, Up
  <1>12. ASSUME NEW d, GiveUpConnecting(d) PROVE Types'
    BY <1>1, <1>12, DronesAre DEF GiveUpConnecting, AtDrone, Types, Last, Drones, Up
  <1>13. ASSUME NEW d, Awake(d) PROVE Types'
    BY <1>1, <1>13 DEF Awake, Types, Last, Drones, Up
  <1>19. ASSUME NEW m, AcceptMu2(m) \/ SendData(m) PROVE Types'
    BY <1>1, <1>19 DEF AcceptMu2, SendData, Types, Last, Drones, Up
  <1>14. CASE AnswerUser
    BY <1>1, <1>14 DEF AnswerUser, Types, Last, Drones, Up
  <1>15. CASE ReplyTimesOut
    BY <1>1, <1>15 DEF ReplyTimesOut, UserGone, Types, Last, Drones, Up
  <1>16. CASE VerifyBatch
    BY <1>1, <1>16 DEF VerifyBatch, Types, Last, Drones, Up
  <1>17. CASE UserExits
    BY <1>1, <1>17 DEF UserExits, UserGone, Types, Last, Drones, Up
  <1>18. CASE Tick
    BY <1>1, <1>18 DEF Tick, Types, Last, Drones, Up
  <1> QED
    BY <1>2, <1>3, <1>4, <1>5, <1>6, <1>7, <1>8, <1>9, <1>10, <1>11, <1>12, <1>13, <1>14,
       <1>15, <1>16, <1>17, <1>18, <1>19 DEF Next

\* What is sent now is in time.
LEMMA FramesStable ==
    ASSUME Types, Frames, now' = now, health' = health,
           \A m \in flight' :
               \/ m \in flight
               \/ /\ m.kind \in Kinds
                  /\ m.due = now + (IF m.kind \in Dials THEN RoundTrip ELSE MaxDelay)
                  /\ m.kind = "MU2" => m.drone \in Drones
                  /\ m.kind \in ToUser => m.drone \in Up
    PROVE  Frames'
  <1> SUFFICES ASSUME NEW m \in flight'
               PROVE  (/\ m.kind \in Kinds /\ m.due \in now .. now + RoundTrip
                       /\ m.kind \notin Dials => m.due <= now + MaxDelay
                       /\ m.kind = "MU2" => m.drone \in Drones
                       /\ m.kind \in ToUser => m.drone \in Up)
    BY DEF Frames, Drones, Up
  <1>1. CASE m \in flight
    BY <1>1 DEF Frames
  <1>2. CASE m \notin flight
    <2>1. m.due = now + (IF m.kind \in Dials THEN RoundTrip ELSE MaxDelay)
      BY <1>2
    <2>2. now \in Nat /\ MaxDelay \in Nat /\ RoundTrip = 2 * MaxDelay
      BY ConstantsAre DEF Types
    <2>3. m.due \in now .. now + RoundTrip /\ (m.kind \notin Dials => m.due <= now + MaxDelay)
      BY <2>1, <2>2
    <2> QED
      BY <1>2, <2>3
  <1> QED
    BY <1>1, <1>2

LEMMA FramesStep ==
    ASSUME CourseInv, [Next]_vars
    PROVE  Frames'
  <1>1. Types /\ Frames /\ health' = health
    BY HealthIsFixed DEF CourseInv
  <1>2. CASE Tick
    <2>1. now' = now + 1 /\ flight' = flight /\ \A m \in flight : m.due > now
      BY <1>2 DEF Tick, NothingDue
    <2>2. ASSUME NEW m \in flight
          PROVE  /\ m.due \in now + 1 .. now + 1 + RoundTrip
                 /\ m.kind \notin Dials => m.due <= now + 1 + MaxDelay
      BY <1>1, <2>1, <2>2, ConstantsAre DEF Frames, Types
    <2> QED
      BY <1>1, <2>1, <2>2 DEF Frames, Drones, Up
  <1>3. CASE flight' \subseteq flight /\ now' = now
    BY <1>1, <1>3, FramesStable
  <1>4. ASSUME NEW d, ContactDrone(d) PROVE Frames'
    <2>1. Sends("MU2", d) /\ now' = now /\ d \in Drones
      BY <1>4 DEF ContactDrone, AtDrone, Sends
    <2> QED
      BY <1>1, <2>1, MsgIs, FramesStable DEF Sends, Kinds, ToUser, Dials
  <1>5. CASE AnswerUser
    <2>1. (Sends("BATCH", 0) \/ flight' = flight) /\ now' = now
      BY <1>5 DEF AnswerUser, Sends
    <2> QED
      BY <1>1, <2>1, MsgIs, FramesStable DEF Sends, Kinds, ToUser, Dials
  <1>6. ASSUME NEW m, AcceptMu2(m) PROVE Frames'
    <2>1. /\ now' = now /\ m \in flight /\ m.kind = "MU2" /\ YjMatches(m.drone)
          /\ flight' = (flight \ {m}) \cup {Dial("DIAL_MU3", m.drone)}
      BY <1>6 DEF AcceptMu2
    <2>2. m.drone \in Up
      BY <1>1, <2>1 DEF YjMatches, Up, Frames
    <2> QED
      BY <1>1, <2>1, <2>2, MsgIs, FramesStable DEF Kinds, ToUser, Dials
  <1>7. ASSUME NEW m, SendMu3(m) \/ SendData(m) PROVE Frames'
    <2>1. /\ now' = now /\ m \in flight /\ m.kind \in Dials
          /\ \/ flight' = flight \ {m}
             \/ flight' = (flight \ {m}) \cup {Msg("MU3", m.drone)}
             \/ flight' = (flight \ {m}) \cup {Msg("DATA", m.drone)}
      BY <1>7 DEF SendMu3, SendData, Dials
    <2>2. m.drone \in Up
      BY <1>1, <2>1 DEF Frames, ToUser
    <2> QED
      BY <1>1, <2>1, <2>2, MsgIs, FramesStable DEF Kinds, ToUser, Dials
  <1>8. ASSUME NEW d \in Drones, Awake(d) PROVE Frames'
    <2>1. flight' = flight \cup {Dial("DIAL_DATA", d)} /\ now' = now /\ wake[d] # 0
      BY <1>8 DEF Awake, Asleep
    <2>2. d \in Up
      BY <1>1, <1>8, <2>1 DEF CourseInv, Sleepers
    <2> QED
      BY <1>1, <2>1, <2>2, MsgIs, FramesStable DEF Kinds, ToUser, Dials
  <1>9. \/ flight' \subseteq flight /\ now' = now
        \/ Tick \/ AnswerUser \/ (\E m : AcceptMu2(m) \/ SendMu3(m) \/ SendData(m))
        \/ \E d \in Drones : Awake(d) \/ ContactDrone(d)
    BY DEF Next, vars, userVars, csVars, ReceiveMu1, RejectMu2, ReceiveMu3,
           ReceiveBatch, ReceiveData, DroneRefuses, StartConnecting,
           GiveUpConnecting, ReplyTimesOut, VerifyBatch, UserExits, UserGone
  <1> QED
    BY <1>2, <1>3, <1>4, <1>5, <1>6, <1>7, <1>8, <1>9

LEMMA SleepersStep ==
    ASSUME CourseInv, [Next]_vars
    PROVE  Sleepers'
  <1>1. Types /\ Frames /\ Sleepers /\ Drones' = Drones /\ Up' = Up
    BY HealthIsFixed DEF CourseInv
  <1>2. CASE wake' = wake
    BY <1>1, <1>2 DEF Sleepers
  <1>3. ASSUME NEW m, SendMu3(m) PROVE Sleepers'
    <2>1. /\ m \in flight /\ m.kind = "DIAL_MU3"
          /\ wake' = [wake EXCEPT ![m.drone] = now + DataDelay] \/ wake' = wake
      BY <1>3 DEF SendMu3
    <2>2. m.drone \in Up
      BY <1>1, <2>1 DEF Frames, ToUser, Dials
    <2> QED
      BY <1>1, <2>1, <2>2 DEF Sleepers, Types
  <1>4. ASSUME NEW d, Awake(d) PROVE Sleepers'
    BY <1>1, <1>4 DEF Awake, Sleepers, Types
  <1> QED
    BY <1>2, <1>3, <1>4
    DEF Next, vars, userVars, csVars, ReceiveMu1, RejectMu2, AcceptMu2, SendData, ReceiveMu3,
        ReceiveBatch, ReceiveData, ContactDrone, DroneRefuses, StartConnecting, GiveUpConnecting, AnswerUser, ReplyTimesOut,
        VerifyBatch, UserExits, UserGone, Tick

\* Steps of drones and of the user's handlers, which do not concern the course.
LEMMA CourseStable ==
    ASSUME CourseInv, UNCHANGED <<now, health, csVars, stage>>, ~InFlight("MU1"),
           \A m \in flight' : m \in flight \/ m.kind \in ToUser,
           \A m \in flight : m.kind = "BATCH" => m \in flight'
    PROVE  Course' /\ Punctual'
  <1>1. /\ pos' = pos /\ giveUp' = giveUp /\ listed' = listed /\ t2' = t2
        /\ stage' = stage /\ now' = now
    BY DEF csVars
  <1>2. /\ Drones' = Drones /\ Silent' = Silent /\ Last' = Last /\ (AtMostOne' <=> AtMostOne)
    BY DEF Drones, Silent, Last, AtMostOne
  <1>3. /\ ListedBefore(pos)' = ListedBefore(pos) /\ ListedBefore(Last)' = ListedBefore(Last)
        /\ Reached(pos)' = Reached(pos) /\ Reached(Last)' = Reached(Last)
    BY <1>1, <1>2 DEF ListedBefore, Reached, Held, Trips
  <1>4. ~InFlight("MU1")' /\ (InFlight("BATCH")' <=> InFlight("BATCH"))
    BY DEF InFlight, ToUser, Dials
  <1>7. \A m \in flight' : m.kind = "BATCH" => m \in flight
    BY DEF ToUser, Dials
  <1>8. /\ Reached(pos + 1)' = Reached(pos + 1)
    BY <1>1, <1>2 DEF Reached, Held, Trips
  <1>5. Course'
    BY <1>1, <1>2, <1>3, <1>4, <1>7 DEF CourseInv, Course
  <1>6. Punctual'
    BY <1>1, <1>2, <1>3, <1>7, <1>8 DEF CourseInv, Punctual
  <1> QED
    BY <1>5, <1>6

LEMMA OthersStep ==
    ASSUME CourseInv, NEW m,
           \/ RejectMu2(m) \/ AcceptMu2(m) \/ SendMu3(m) \/ SendData(m)
           \/ ReceiveMu3(m) \/ ReceiveData(m)
    PROVE  Course' /\ Punctual'
  <1>1. /\ m \in flight /\ m.kind \in {"MU2", "MU3", "DATA", "DIAL_MU3", "DIAL_DATA"}
        /\ UNCHANGED <<now, health, csVars, stage>>
        /\ \/ flight' = (flight \ {m}) \cup {Msg("MU3", m.drone)}
           \/ flight' = (flight \ {m}) \cup {Msg("DATA", m.drone)}
           \/ flight' = (flight \ {m}) \cup {Dial("DIAL_MU3", m.drone)}
           \/ flight' = flight \ {m}
    BY DEF RejectMu2, AcceptMu2, SendMu3, SendData, ReceiveMu3, ReceiveData, userVars
  <1>2. ~InFlight("MU1")
    BY <1>1 DEF CourseInv, Course, First
  <1>3. \A k \in flight' : k \in flight \/ k.kind \in ToUser
    BY <1>1, MsgIs DEF ToUser, Dials
  <1>4. \A k \in flight : k.kind = "BATCH" => k \in flight'
    BY <1>1
  <1> QED
    BY <1>1, <1>2, <1>3, <1>4, CourseStable

LEMMA AwakeCourse ==
    ASSUME CourseInv, NEW d \in Drones, Awake(d)
    PROVE  Course' /\ Punctual'
  <1>1. /\ UNCHANGED <<now, health, csVars, stage>> /\ wake[d] # 0
        /\ flight' = flight \cup {Dial("DIAL_DATA", d)}
    BY DEF Awake, userVars, Asleep
  <1>2. ~InFlight("MU1")
    BY <1>1 DEF CourseInv, Course
  <1>3. \A k \in flight' : k \in flight \/ k.kind \in ToUser
    BY <1>1, MsgIs DEF ToUser, Dials
  <1> QED
    BY <1>1, <1>2, <1>3, CourseStable

LEMMA ReceiveMu1Course ==
    ASSUME CourseInv, [Next]_vars, NEW m, ReceiveMu1(m)
    PROVE  Course' /\ Punctual'
  <1>1. flight = {First} /\ m = First /\ giveUp = 0 /\ listed = <<>> /\ stage = "requesting"
    BY DEF CourseInv, Course, InFlight, ReceiveMu1
  <1>2. /\ flight' = {} /\ t2' = now /\ pos' = 1 /\ giveUp' = 0 /\ listed' = <<>>
        /\ stage' = "requesting" /\ now' = now
    BY <1>1 DEF ReceiveMu1, userVars
  <1>3. health' = health /\ Drones' = Drones /\ Silent' = Silent /\ Types
    BY HealthIsFixed DEF CourseInv
  <1>4. \A d \in Drones : ~ (d < 1)
    BY <1>3, DronesAre
  <1>5. ListedBefore(pos)' = {} /\ Reached(pos)' = now'
    <2>1. ListedBefore(pos)' = {} /\ Held(pos)' = 0
      BY <1>2, <1>3, <1>4 DEF ListedBefore, Held, Silent
    <2>2. Trips(pos)' = 0 /\ now \in Nat
      BY <1>2, <1>3, TripsAre DEF Trips, Types
    <2> QED
      BY <1>2, <2>1, <2>2 DEF Reached
  <1>6. Len(listed') = Cardinality(ListedBefore(pos)')
    BY <1>2, <1>5, FS_EmptySet
  <1>7. Course'
    BY <1>2, <1>6 DEF Course, InFlight
  <1>8. Punctual'
    BY <1>2, <1>3, <1>5 DEF Punctual, Types
  <1> QED
    BY <1>7, <1>8

LEMMA CountTo ==
    ASSUME NEW n \in Nat
    PROVE  IsFiniteSet(1 .. n) /\ Cardinality(1 .. n) = n
  <1>1. IsFiniteSet(1 .. n) /\ Cardinality(1 .. n) = IF 1 > n THEN 0 ELSE n - 1 + 1
    BY FS_Interval
  <1> QED
    BY <1>1

LEMMA DronesAreFinite ==
    ASSUME Types
    PROVE  /\ IsFiniteSet(Drones) /\ Cardinality(Drones) = Len(health) /\ IsFiniteSet(Up)
           /\ \A p : IsFiniteSet(ListedBefore(p))
  <1>1. Drones = 1 .. Len(health) /\ Len(health) \in Nat
    BY DronesAre
  <1>2. IsFiniteSet(Drones) /\ Cardinality(Drones) = Len(health)
    BY <1>1, CountTo
  <1>3. Up \subseteq Drones /\ \A p : ListedBefore(p) \subseteq Drones
    BY DEF Up, ListedBefore
  <1>4. \A X \in SUBSET Drones : IsFiniteSet(X)
    BY <1>2, FS_Subset
  <1> QED
    BY <1>2, <1>3, <1>4

LEMMA ReachedIs ==
    ASSUME Types
    PROVE  /\ \A p : Held(p) \in Nat /\ Held(p) <= ConnectTimeout - RoundTrip
           /\ \A p \in Nat \ {0} : Reached(p) \in Nat
           /\ \A d \in Drones : Reached(d) + RoundTrip <= Reached(d + 1)
           /\ \A d \in Silent : AtMostOne => Reached(d) + ConnectTimeout <= Reached(d + 1)
  <1>1. /\ t2 \in Nat /\ RoundTrip \in Nat /\ ConnectTimeout \in Nat
        /\ ConnectTimeout - RoundTrip \in Nat
    BY ConstantsAre DEF Types, ConnectTimeout
  <1>2. \A p : Held(p) \in Nat /\ Held(p) <= ConnectTimeout - RoundTrip
    BY <1>1 DEF Held
  <1>3. \A p \in Nat \ {0} : Trips(p) \in Nat /\ Trips(p + 1) = Trips(p) + RoundTrip
    BY TripsAre
  <1>4. \A d \in Drones : d \in Nat \ {0} /\ d + 1 \in Nat \ {0}
    BY DronesAre
  <1>5. \A p \in Nat \ {0} : Reached(p) \in Nat
    BY <1>1, <1>2, <1>3 DEF Reached
  <1>6. ASSUME NEW d \in Drones PROVE Held(d) <= Held(d + 1)
    <2>1. \A e \in Silent : e < d => e < d + 1
      BY <1>4, DronesAre DEF Silent
    <2> QED
      BY <1>1, <2>1 DEF Held
  <1>7. ASSUME NEW d \in Drones PROVE Reached(d) + RoundTrip <= Reached(d + 1)
    <2>1. /\ Held(d) \in Nat /\ Held(d + 1) \in Nat /\ Trips(d) \in Nat
          /\ Trips(d + 1) = Trips(d) + RoundTrip
      BY <1>2, <1>3, <1>4
    <2> QED
      BY <1>1, <1>6, <2>1 DEF Reached
  <1>8. ASSUME NEW d \in Silent, AtMostOne PROVE Reached(d) + ConnectTimeout <= Reached(d + 1)
    <2>1. d \in Drones /\ d \in Nat
      BY <1>4 DEF Silent
    <2>2. Held(d) = 0
      BY <1>8, <2>1 DEF Held, AtMostOne
    <2>3. Held(d + 1) = ConnectTimeout - RoundTrip
      BY <2>1 DEF Held
    <2>4. Trips(d) \in Nat /\ Trips(d + 1) = Trips(d) + RoundTrip
      BY <1>3, <1>4, <2>1
    <2> QED
      BY <1>1, <2>2, <2>3, <2>4 DEF Reached
  <1> QED
    BY <1>2, <1>5, <1>7, <1>8

\* _process_mu1 goes on to the next drone; the one before may have been listed.
LEMMA GoesOnCourse ==
    ASSUME CourseInv, [Next]_vars, NEW d, AtDrone(d), UNCHANGED <<now, t2, stage>>,
           pos' = pos + 1, giveUp' = 0, giveUp # 0,
           IF health[d] \in {"up", "rejects"}
           THEN listed' = Append(listed, d) ELSE listed' = listed,
           \A m \in flight' : m \in flight \/ m.kind = "MU2"
    PROVE  Course' /\ Punctual'
  <1>1. /\ Types /\ Course /\ Punctual /\ pos = d /\ d \in Drones /\ d \in Nat /\ pos # 0
        /\ stage \in {"requesting", "aborted"} /\ ~InFlight("BATCH") /\ ~InFlight("MU1")
    BY DronesAre DEF CourseInv, Course, AtDrone
  <1>2. /\ health' = health /\ Drones' = Drones /\ Silent' = Silent
        /\ (AtMostOne' <=> AtMostOne)
    BY HealthIsFixed
  <1>3. ~InFlight("BATCH")' /\ ~InFlight("MU1")' /\ pos' # 0
    BY <1>1 DEF InFlight
  <1>4. ListedBefore(pos)' = {e \in Drones : e < d + 1 /\ health[e] \in {"up", "rejects"}}
    BY <1>1, <1>2 DEF ListedBefore
  <1>5. \A e \in Drones : e \in Nat /\ (e < d + 1 <=> e < d \/ e = d)
    BY <1>1, DronesAre
  <1>6. Len(listed') = Cardinality(ListedBefore(pos)')
    <2>1. CASE health[d] \in {"up", "rejects"}
      <3>1. ListedBefore(pos)' = ListedBefore(d) \cup {d} /\ d \notin ListedBefore(d)
        <4>1. ListedBefore(d) = {e \in Drones : e < d /\ health[e] \in {"up", "rejects"}}
          BY DEF ListedBefore
        <4>2. ~ (d < d)
          BY <1>1
        <4>3. {e \in Drones : e < d + 1 /\ health[e] \in {"up", "rejects"}}
                  = {e \in Drones : e < d /\ health[e] \in {"up", "rejects"}} \cup {d}
          BY <1>1, <1>5, <2>1
        <4> QED
          BY <1>4, <4>1, <4>2, <4>3
      <3>2. Cardinality(ListedBefore(d) \cup {d}) = Cardinality(ListedBefore(d)) + 1
        BY <1>1, <3>1, DronesAreFinite, FS_AddElement
      <3>3. Len(listed') = Len(listed) + 1 /\ Len(listed) = Cardinality(ListedBefore(d))
        BY <1>1, <2>1 DEF Course, Types
      <3> QED
        BY <3>1, <3>2, <3>3
    <2>2. CASE health[d] \notin {"up", "rejects"}
      <3>1. ListedBefore(pos)' = ListedBefore(d)
        BY <1>4, <1>5, <2>2 DEF ListedBefore
      <3> QED
        BY <1>1, <2>2, <3>1 DEF Course
    <2> QED
      BY <2>1, <2>2
  <1>7. Course'
    BY <1>1, <1>3, <1>6 DEF Course, InFlight
  <1>8. Punctual'
    <2>1. Reached(pos)' = Reached(pos + 1)
      BY <1>1, <1>2 DEF Reached, Held, Trips
    <2>2. AtMostOne => now <= Reached(pos + 1)
      <3>1. now \in Nat /\ giveUp \in Nat /\ now <= giveUp /\ Reached(pos + 1) \in Nat
        BY <1>1, ReachedIs DEF Types, Course
      <3> QED
        BY <1>1, <3>1 DEF Punctual
    <2> QED
      BY <1>1, <1>2, <1>3, <2>1, <2>2 DEF Punctual, InFlight
  <1> QED
    BY <1>7, <1>8

LEMMA ContactCourse ==
    ASSUME CourseInv, [Next]_vars, NEW d,
           ContactDrone(d) \/ DroneRefuses(d) \/ GiveUpConnecting(d)
    PROVE  Course' /\ Punctual'
  <1>1. /\ AtDrone(d) /\ UNCHANGED <<now, t2, stage>> /\ pos' = pos + 1
        /\ giveUp # 0 /\ giveUp' = 0
        /\ \A m \in flight' : m \in flight \/ m.kind = "MU2"
    BY MsgIs DEF ContactDrone, DroneRefuses, GiveUpConnecting, userVars
  <1>2. IF health[d] \in {"up", "rejects"}
        THEN listed' = Append(listed, d) ELSE listed' = listed
    BY DEF ContactDrone, DroneRefuses, GiveUpConnecting
  <1> QED
    BY <1>1, <1>2, GoesOnCourse

LEMMA StartConnectingCourse ==
    ASSUME CourseInv, [Next]_vars, NEW d, StartConnecting(d)
    PROVE  Course' /\ Punctual'
  <1>1. /\ Types /\ Course /\ Punctual /\ pos = d /\ d \in Drones /\ d \in Nat /\ pos # 0
        /\ ~InFlight("MU1") /\ ~InFlight("BATCH") /\ giveUp = 0
        /\ UNCHANGED <<now, health, flight, t2, pos, listed, stage>>
        /\ giveUp' = now + (IF d \in Silent THEN ConnectTimeout ELSE RoundTrip)
    BY DronesAre DEF CourseInv, Course, StartConnecting, AtDrone, userVars, Silent, Patience
  <1>2. /\ Drones' = Drones /\ Silent' = Silent /\ Last' = Last /\ (AtMostOne' <=> AtMostOne)
        /\ ListedBefore(pos)' = ListedBefore(pos)
    BY <1>1 DEF Drones, Silent, Last, AtMostOne, ListedBefore
  <1>3. /\ now' <= giveUp' /\ giveUp' # 0 /\ now \in Nat
        /\ ConnectTimeout \in Nat /\ RoundTrip \in Nat
    BY <1>1, ConstantsAre DEF ConnectTimeout, Types
  <1>4. Course'
    BY <1>1, <1>2, <1>3 DEF Course, InFlight
  <1>5. AtMostOne => giveUp' <= Reached(pos + 1)
    <2> SUFFICES ASSUME AtMostOne PROVE giveUp' <= Reached(d + 1)
      BY <1>1
    <2>1. /\ now <= Reached(d) /\ Reached(d) \in Nat /\ Reached(d + 1) \in Nat
          /\ Reached(d) + RoundTrip <= Reached(d + 1)
          /\ d \in Silent => Reached(d) + ConnectTimeout <= Reached(d + 1)
      BY <1>1, ReachedIs DEF Punctual
    <2> QED
      BY <1>1, <1>3, <2>1
  <1>6. Reached(pos + 1)' = Reached(pos + 1)
    BY <1>1, <1>2 DEF Reached, Held, Trips
  <1>7. Punctual'
    BY <1>1, <1>2, <1>3, <1>5, <1>6 DEF Punctual, InFlight
  <1> QED
    BY <1>4, <1>7

LEMMA AnswerCourse ==
    ASSUME CourseInv, [Next]_vars, AnswerUser
    PROVE  Course' /\ Punctual'
  <1>1. /\ Types /\ Course /\ Punctual /\ pos = Last /\ pos # 0 /\ giveUp = 0
        /\ ~InFlight("MU1") /\ ~InFlight("BATCH") /\ Len(listed) = Cardinality(ListedBefore(Last))
        /\ stage \in {"requesting", "aborted"}
    BY DronesAre DEF CourseInv, Course, AnswerUser, Last, Silent
  <1>2. /\ UNCHANGED <<now, health, t2, giveUp, listed, stage>> /\ pos' = 0
        /\ flight' = IF stage = "requesting" THEN flight \cup {Msg("BATCH", 0)} ELSE flight
    BY DEF AnswerUser, userVars
  <1>3. /\ Drones' = Drones /\ Silent' = Silent /\ Last' = Last /\ (AtMostOne' <=> AtMostOne)
        /\ ListedBefore(Last)' = ListedBefore(Last) /\ Reached(Last)' = Reached(Last)
    BY <1>2 DEF Drones, Silent, Last, AtMostOne, ListedBefore, Reached, Held, Trips
  <1>4. ~InFlight("MU1")' /\ (stage = "requesting" => InFlight("BATCH")')
    BY <1>1, <1>2, MsgIs DEF InFlight
  <1>5. \A m \in flight' : m.kind = "BATCH" => m = Msg("BATCH", 0) /\ stage = "requesting"
    BY <1>1, <1>2 DEF InFlight
  <1>6. Course'
    BY <1>1, <1>2, <1>3, <1>4, <1>5 DEF Course
  <1>7. AtMostOne => Msg("BATCH", 0).due <= Reached(Last) + MaxDelay
    <2>1. Reached(Last) \in Nat /\ now \in Nat /\ MaxDelay \in Nat
      BY <1>1, ReachedIs, ConstantsAre DEF Types
    <2> QED
      BY <1>1, <2>1, MsgIs DEF Punctual
  <1>8. Msg("BATCH", 0).due \in Nat
    BY <1>1, MsgIs, ConstantsAre DEF Types
  <1>9. Punctual'
    <2> SUFFICES ASSUME AtMostOne, NEW m \in flight', m.kind = "BATCH"
                 PROVE  m.due <= Reached(Last) + MaxDelay
      BY <1>1, <1>2, <1>3, <1>7 DEF Punctual
    <2>1. m.due = Msg("BATCH", 0).due
      BY <1>5
    <2> QED
      BY <1>7, <1>8, <2>1
  <1> QED
    BY <1>6, <1>9

LEMMA ReceiveBatchCourse ==
    ASSUME CourseInv, NEW m, ReceiveBatch(m)
    PROVE  Course' /\ Punctual'
  <1>1. /\ Types /\ Course /\ Punctual /\ m \in flight /\ m.kind = "BATCH"
        /\ UNCHANGED <<now, health, t2, pos, giveUp, listed>>
        /\ flight' = flight \ {m} /\ stage' = "waiting"
    BY DEF CourseInv, ReceiveBatch, csVars
  <1>2. stage = "requesting" /\ ~InFlight("MU1") /\ pos = 0 /\ giveUp = 0
    BY <1>1, DronesAre DEF Course, InFlight, First, Silent
  <1>3. \A k \in flight' : k.kind # "BATCH" /\ k.kind # "MU1"
    BY <1>1, <1>2 DEF Course, InFlight
  <1>4. Course'
    BY <1>1, <1>2, <1>3 DEF Course, InFlight
  <1>5. Punctual'
    BY <1>1, <1>2, <1>3 DEF Punctual
  <1> QED
    BY <1>4, <1>5

\* Once the user is beyond the reply, neither mu1 nor the reply is under way.
LEMMA AfterReply ==
    ASSUME CourseInv, stage \in {"waiting", "verified", "exited"}
    PROVE  pos = 0 /\ giveUp = 0 /\ ~InFlight("MU1") /\ ~InFlight("BATCH")
  BY DronesAre DEF CourseInv, Course, InFlight, Silent

LEMMA LaterCourse ==
    ASSUME CourseInv, VerifyBatch \/ UserExits
    PROVE  Course' /\ Punctual'
  <1>1. /\ stage \in {"waiting", "verified"} /\ stage' \in {"verified", "exited"}
        /\ flight' \subseteq flight /\ UNCHANGED <<pos, giveUp>>
    BY DEF VerifyBatch, UserExits, UserGone, csVars
  <1>2. /\ pos' = 0 /\ giveUp' = 0
        /\ \A k \in flight' : k.kind # "BATCH" /\ k.kind # "MU1"
    BY <1>1, AfterReply DEF InFlight
  <1> QED
    BY <1>1, <1>2 DEF Course, Punctual, InFlight

LEMMA Mu1InTime ==
    ASSUME CourseInv, InFlight("MU1")
    PROVE  now <= MaxDelay
  <1>1. First \in flight /\ First.due = 0 + MaxDelay
    BY DEF CourseInv, Course, First
  <1>2. now <= First.due
    BY <1>1 DEF CourseInv, Frames, Types
  <1> QED
    BY <1>1, <1>2, ConstantsAre

\* The user's 15 s are not over while the server waits for one silent drone.
LEMMA InTime ==
    ASSUME CourseInv, AtMostOne, Len(health) * RoundTrip < 5 * Second, stage = "requesting"
    PROVE  now < ReplyTimeout
  <1>1. /\ now \in Nat /\ t2 \in Nat /\ t2 <= MaxDelay /\ Second \in Nat /\ MaxDelay \in Nat
        /\ giveUp \in Nat /\ MaxDelay >= 1 /\ RoundTrip = 2 * MaxDelay /\ RoundTrip \in Nat
        /\ RoundTrip < 10 * Second /\ Types
    BY ConstantsAre DEF CourseInv, Types
  <1>2. ASSUME NEW p \in Nat \ {0}, p <= Last
        PROVE  Reached(p) \in Nat /\ Reached(p) + MaxDelay < ReplyTimeout
    <2>1. Trips(p) \in Nat /\ Trips(Last) \in Nat /\ Trips(p) <= Trips(Last)
      <3>1. Last \in Nat \ {0} /\ p \in Nat \ {0}
        BY <1>1, <1>2, DronesAre DEF Last
      <3> QED
        BY <1>2, <3>1, TripsAre
    <2>2. Trips(Last) < 5 * Second
      BY <1>1, TripsAre, DronesAre DEF Last
    <2>3. Held(p) \in Nat /\ Held(p) <= 10 * Second - RoundTrip
      BY <1>1, ReachedIs DEF ConnectTimeout
    <2> QED
      BY <1>1, <2>1, <2>2, <2>3 DEF Reached, ReplyTimeout
  <1>3. CASE InFlight("MU1")
    BY <1>1, <1>3, Mu1InTime DEF ReplyTimeout
  <1>4. CASE pos # 0
    <2>1. pos \in Nat \ {0} /\ pos <= Last /\ (giveUp # 0 => pos + 1 \in Nat \ {0} /\ pos + 1 <= Last)
      BY <1>1, <1>4, DronesAre DEF Types, CourseInv, Course
    <2>2. CASE giveUp = 0
      <3>1. now <= Reached(pos)
        BY <1>4, <2>2 DEF CourseInv, Punctual
      <3>2. Reached(pos) \in Nat /\ Reached(pos) + MaxDelay < ReplyTimeout
        BY <1>2, <2>1
      <3> QED
        BY <1>1, <3>1, <3>2 DEF ReplyTimeout
    <2>3. CASE giveUp # 0
      <3>1. now <= giveUp /\ giveUp <= Reached(pos + 1)
        BY <2>3 DEF CourseInv, Course, Punctual
      <3>2. Reached(pos + 1) \in Nat /\ Reached(pos + 1) + MaxDelay < ReplyTimeout
        BY <1>2, <2>1, <2>3
      <3> QED
        BY <1>1, <3>1, <3>2 DEF ReplyTimeout
    <2> QED
      BY <2>2, <2>3
  <1>5. CASE InFlight("BATCH")
    <2>1. PICK m \in flight : m.kind = "BATCH"
      BY <1>5 DEF InFlight
    <2>2. now <= m.due /\ m.due \in Nat /\ m.due <= Reached(Last) + MaxDelay
      BY <1>1, <2>1 DEF CourseInv, Frames, Punctual
    <2>3. Last \in Nat \ {0}
      BY <1>1, DronesAre DEF Last
    <2> QED
      BY <1>1, <1>2, <2>2, <2>3 DEF ReplyTimeout
  <1> QED
    BY <1>3, <1>4, <1>5 DEF CourseInv, Course

LEMMA ReplyTimesOutCourse ==
    ASSUME CourseInv, ReplyTimesOut
    PROVE  Course' /\ Punctual'
  <1>1. /\ stage = "requesting" /\ now = ReplyTimeout /\ stage' = "aborted"
        /\ flight' = {m \in flight : m.kind \notin {"MU3", "BATCH", "DATA"}}
        /\ UNCHANGED <<now, health, t2, pos, giveUp, listed>>
    BY DEF ReplyTimesOut, UserGone, csVars
  <1>2. now \in Nat /\ Course
    BY DEF CourseInv, Types
  <1>3. ~ (AtMostOne /\ Len(health) * RoundTrip < 5 * Second)
    BY <1>1, <1>2, InTime
  <1>4. ~InFlight("MU1")
    <2>1. Second \in Nat /\ Second >= 1 /\ MaxDelay \in Nat /\ 2 * MaxDelay < 10 * Second
      BY ConstantsAre
    <2>2. now = 15 * Second
      BY <1>1 DEF ReplyTimeout
    <2>3. ~ (now <= MaxDelay)
      BY <1>2, <2>1, <2>2
    <2> QED
      BY <2>3, Mu1InTime
  <1>5. /\ Drones' = Drones /\ Silent' = Silent /\ (AtMostOne' <=> AtMostOne)
        /\ ListedBefore(pos)' = ListedBefore(pos)
    BY <1>1 DEF Drones, Silent, AtMostOne, ListedBefore
  <1>6. \A k \in flight' : k.kind # "BATCH" /\ k.kind # "MU1"
    BY <1>1, <1>4 DEF InFlight
  <1>7. /\ Reached(pos)' = Reached(pos) /\ Reached(pos + 1)' = Reached(pos + 1)
        /\ (Len(health) * RoundTrip)' = Len(health) * RoundTrip
    BY <1>1, <1>5 DEF Reached, Held, Trips
  <1>8. Course'
    BY <1>1, <1>2, <1>5, <1>6 DEF Course, InFlight
  <1>9. Punctual'
    BY <1>1, <1>3, <1>5, <1>6, <1>7 DEF CourseInv, Punctual
  <1> QED
    BY <1>8, <1>9

LEMMA TickCourse ==
    ASSUME CourseInv, Tick
    PROVE  Course' /\ Punctual'
  <1>1. /\ now' = now + 1 /\ UNCHANGED <<health, flight, t2, pos, giveUp, listed, wake, stage>>
        /\ pos # 0 => giveUp > now
    BY DEF Tick, NothingDue, csVars, userVars
  <1>2. /\ Drones' = Drones /\ Silent' = Silent /\ Last' = Last /\ (AtMostOne' <=> AtMostOne)
        /\ ListedBefore(pos)' = ListedBefore(pos) /\ ListedBefore(Last)' = ListedBefore(Last)
        /\ Reached(Last)' = Reached(Last) /\ Reached(pos + 1)' = Reached(pos + 1)
    BY <1>1 DEF Drones, Silent, Last, AtMostOne, ListedBefore, Reached, Held, Trips
  <1>3. now \in Nat /\ giveUp \in Nat /\ Course /\ Punctual /\ \A d \in Silent : d # 0
    BY DronesAre DEF CourseInv, Types, Silent
  <1>4. giveUp # 0 => now + 1 <= giveUp
    BY <1>1, <1>3, DronesAre DEF Course, CourseInv
  <1>5. Course'
    BY <1>1, <1>2, <1>3, <1>4 DEF Course, InFlight
  <1>6. Punctual'
    BY <1>1, <1>2, <1>3 DEF Punctual
  <1> QED
    BY <1>5, <1>6

LEMMA CourseInvStep ==
    ASSUME CourseInv, [Next]_vars
    PROVE  CourseInv'
  <1>1. Types' /\ Frames' /\ Sleepers'
    BY TypesStep, FramesStep, SleepersStep
  <1>2. ASSUME UNCHANGED vars PROVE Course' /\ Punctual'
    BY <1>2 DEF vars, csVars, userVars, CourseInv, Course, Punctual, InFlight, ListedBefore, Drones,
                Silent, Last, AtMostOne, Reached, Held, Trips
  <1>3. ASSUME NEW m \in flight, ReceiveMu1(m) \/ RejectMu2(m) \/ AcceptMu2(m)
                                 \/ SendMu3(m) \/ SendData(m) \/ ReceiveMu3(m) \/ ReceiveBatch(m) \/ ReceiveData(m)
        PROVE  Course' /\ Punctual'
    BY <1>3, ReceiveMu1Course, OthersStep, ReceiveBatchCourse
  <1>4. ASSUME NEW d \in Drones, ContactDrone(d) \/ DroneRefuses(d) \/ StartConnecting(d)
                                 \/ GiveUpConnecting(d) \/ Awake(d)
        PROVE  Course' /\ Punctual'
    BY <1>4, ContactCourse, StartConnectingCourse, AwakeCourse
  <1>5. ASSUME AnswerUser \/ ReplyTimesOut \/ VerifyBatch \/ UserExits \/ Tick
        PROVE  Course' /\ Punctual'
    BY <1>5, AnswerCourse, ReplyTimesOutCourse, LaterCourse, TickCourse
  <1>6. Course' /\ Punctual'
    BY <1>2, <1>3, <1>4, <1>5 DEF Next, CourseInv
  <1> QED
    BY <1>1, <1>6 DEF CourseInv

LEMMA CourseInvInit ==
    ASSUME Init
    PROVE  CourseInv
  <1>1. MaxDelay \in Nat /\ health \in Seq(Conditions)
    BY ConstantsAre DEF Init
  <1>2. Types
    <2>1. Len(health) \in Nat /\ wake \in [Drones -> Nat]
      BY <1>1 DEF Init
    <2>2. <<>> \in Seq(Drones)
      BY EmptySeq
    <2>3. {} \subseteq Up
      OBVIOUS
    <2>4. need \in Nat /\ need = Len(health) /\ got = {} /\ listed = <<>>
      BY <2>1 DEF Init
    <2>5. listed \in Seq(Drones) /\ got \subseteq Up
      BY <2>2, <2>3, <2>4
    <2>6. now = 0 /\ t2 = 0 /\ pos = 0 /\ giveUp = 0 /\ since = 0 /\ ready = FALSE /\ stage = "requesting"
      BY DEF Init
    <2>7. 0 \in 0 .. Last /\ 0 \in 0 .. MaxDelay
      BY <1>1, <2>1 DEF Last
    <2>8. now \in Nat /\ t2 \in 0 .. MaxDelay /\ t2 <= now /\ pos \in 0 .. Last
          /\ giveUp \in Nat /\ since \in Nat
      BY <2>6, <2>7
    <2>9. stage \in {"requesting", "waiting", "verified", "aborted", "exited"} /\ ready \in BOOLEAN
      BY <2>6
    <2> QED
      BY <1>1, <2>1, <2>4, <2>5, <2>8, <2>9, Zenon DEF Types
  <1>3. flight = {First}
    BY DEF Init, Msg, First
  <1>4. First.kind = "MU1" /\ First.due = 0 + MaxDelay
    BY DEF First
  <1>5. Frames
    <2>1. now = 0 /\ First.due \in now .. now + RoundTrip /\ First.due <= now + MaxDelay
      BY <1>1, <1>4, ConstantsAre DEF Init
    <2>2. \A m \in flight : m = First
      BY <1>3
    <2> QED
      BY <1>4, <2>1, <2>2 DEF Frames, Kinds, ToUser, Dials
  <1>6. Course /\ Punctual /\ Sleepers
    BY <1>3, <1>4 DEF Init, Course, Punctual, Sleepers, InFlight
  <1> QED
    BY <1>2, <1>5, <1>6 DEF CourseInv
-----------------------------------------------------------------------------
LEMMA QuotientIsSmall ==
    ASSUME NEW n \in Nat, NEW s \in Nat, s >= 1, n < 20 * s
    PROVE  n \div s \in Nat /\ n \div s < 20
  <1>1. n \div s \in Nat
    OBVIOUS
  <1> DEFINE q == n \div s
  <1>2. q * s <= n
    OBVIOUS
  <1>3. ASSUME q >= 20 PROVE FALSE
    <2>1. q \in Nat
      BY <1>1
    <2> HIDE DEF q
    <2>2. q - 20 \in Nat /\ q = 20 + (q - 20)
      BY <1>3, <2>1
    <2>3. PICK r \in Nat : q = 20 + r
      BY <2>2
    <2>4. q * s = 20 * s + r * s /\ r * s \in Nat
      BY <2>3
    <2> QED
      BY <1>2, <2>4
  <1> QED
    BY <1>1, <1>3

\* Until the user has given up, every mu2 that is under way arrives in the first
\* 20 s: the freshness window cannot have passed.
LEMMA StillFresh ==
    ASSUME CourseInv, CollectInv, stage # "aborted",
           NEW m \in flight, m.kind = "MU2"
    PROVE  Fresh(t2)
  <1>1. /\ now \in Nat /\ t2 \in Nat /\ t2 <= now /\ MaxDelay \in Nat
        /\ Second \in Nat /\ Second >= 1 /\ 2 * MaxDelay < 10 * Second
    BY ConstantsAre DEF CourseInv, Types
  <1>2. m.due \in now .. now + RoundTrip /\ m.due <= ReplyTimeout + MaxDelay
    BY DEF CourseInv, Frames, CollectInv, Deadlines
  <1>3. now < 20 * Second
    BY <1>1, <1>2 DEF ReplyTimeout
  <1>4. t2 < 20 * Second
    BY <1>1, <1>3
  <1>5. /\ now \div Second \in Nat /\ now \div Second < 20
        /\ t2 \div Second \in Nat
    BY <1>1, <1>3, <1>4, QuotientIsSmall
  <1> QED
    BY <1>5 DEF Fresh

\* What the steps do to the responses under way.
LEMMA ComingStep ==
    ASSUME CourseInv, CollectInv, [Next]_vars
    PROVE  AllComing'
  <1> SUFFICES ASSUME stage' \in {"requesting", "waiting"}, NEW d \in Up
               PROVE  Coming(d)'
    BY HealthIsFixed DEF AllComing
  <1>1. d \in Drones /\ d \in Nat /\ d # 0 /\ d < Last /\ pos \in Nat /\ health[d] = "up"
    BY DronesAre DEF Up, CourseInv, Types
  <1>2. ~ReplyTimesOut /\ ~VerifyBatch /\ ~UserExits
    BY DEF ReplyTimesOut, VerifyBatch, UserExits, UserGone
  <1>3. stage \in {"requesting", "waiting"}
    <2>1. ASSUME NEW m, ReceiveBatch(m) PROVE stage = "requesting"
      BY <2>1 DEF ReceiveBatch, CourseInv, Course
    <2> QED
      BY <1>2, <2>1 DEF Next, vars, userVars, csVars, ReceiveMu1, RejectMu2, AcceptMu2,
         SendMu3, ReceiveMu3, ReceiveData, ContactDrone, DroneRefuses, StartConnecting,
         GiveUpConnecting, Awake, SendData, AnswerUser, Tick
  <1>4. Coming(d)
    BY <1>3 DEF CollectInv, AllComing
  <1>5. ASSUME flight \subseteq flight', got' = got, pos' = pos PROVE Coming(d)'
    BY <1>4, <1>5 DEF Coming, InFlight
  <1>6. ASSUME NEW m, ReceiveMu1(m) PROVE Coming(d)'
    BY <1>1, <1>6 DEF ReceiveMu1, Coming
  <1>7. ASSUME NEW m, ReceiveBatch(m) \/ ReceiveData(m) \/ SendData(m) PROVE Coming(d)'
    <2>1. /\ m.kind \in {"BATCH", "DATA", "DIAL_DATA"} /\ flight \ {m} \subseteq flight'
          /\ got' = got /\ pos' = pos
      BY <1>7 DEF ReceiveBatch, ReceiveData, SendData, csVars, userVars
    <2>2. \A k \in flight : k.kind \in {"MU1", "MU2", "DIAL_MU3", "MU3"} => k \in flight'
      BY <2>1
    <2> QED
      BY <1>4, <2>1, <2>2 DEF Coming, InFlight
  <1>8. ASSUME NEW m, ReceiveMu3(m) PROVE Coming(d)'
    <2>1. /\ m.kind = "MU3" /\ flight' = flight \ {m} /\ got' = got \cup {m.drone} /\ pos' = pos
      BY <1>8 DEF ReceiveMu3, csVars
    <2>2. \A k \in flight : k.kind \in {"MU1", "MU2", "DIAL_MU3", "MU3"} => k \in flight' \/ k = m
      BY <2>1
    <2> QED
      BY <1>4, <2>1, <2>2 DEF Coming, InFlight
  <1>9. ASSUME NEW m, RejectMu2(m) PROVE Coming(d)'
    <2>1. /\ m \in flight /\ m.kind = "MU2" /\ flight' = flight \ {m} /\ got' = got /\ pos' = pos
          /\ ~YjMatches(m.drone) \/ ~Fresh(t2)
      BY <1>9 DEF RejectMu2, csVars, userVars
    <2>2. m.drone # d
      BY <1>1, <1>3, <2>1, StillFresh DEF YjMatches
    <2>3. \A k \in flight : k.kind = "MU1" \/ k.drone = d => k \in flight'
      BY <2>1, <2>2
    <2> QED
      BY <1>4, <2>1, <2>3 DEF Coming, InFlight
  <1>10. ASSUME NEW m, AcceptMu2(m) \/ SendMu3(m) PROVE Coming(d)'
    <2>1. /\ m \in flight /\ m.kind \in {"MU2", "DIAL_MU3"} /\ got' = got /\ pos' = pos
          /\ \/ flight' = (flight \ {m}) \cup {Dial("DIAL_MU3", m.drone)}
             \/ flight' = (flight \ {m}) \cup {Msg("MU3", m.drone)}
      BY <1>3, <1>10 DEF AcceptMu2, SendMu3, csVars, userVars, UserListens
    <2>2. \A k \in flight : k \in flight' \/ k = m
      BY <2>1
    <2>3. PICK k \in flight' : k.kind \in {"DIAL_MU3", "MU3"} /\ k.drone = m.drone
      BY <2>1, MsgIs
    <2> QED
      BY <1>4, <2>1, <2>2, <2>3 DEF Coming, InFlight
  <1>11. ASSUME NEW e, ContactDrone(e) PROVE Coming(d)'
    <2>1. /\ pos = e /\ pos' = pos + 1 /\ flight' = flight \cup {Msg("MU2", e)} /\ got' = got
      BY <1>11 DEF ContactDrone, AtDrone, userVars
    <2>2. CASE pos = d
      BY <2>1, <2>2, MsgIs DEF Coming
    <2>3. CASE pos # d
      <3>1. pos <= d => pos' <= d /\ pos' # 0
        BY <1>1, <2>1, <2>3
      <3> QED
        BY <1>4, <2>1, <3>1 DEF Coming, InFlight
    <2> QED
      BY <2>2, <2>3
  <1>12. ASSUME NEW e, DroneRefuses(e) \/ GiveUpConnecting(e) PROVE Coming(d)'
    <2>1. /\ pos = e /\ pos' = pos + 1 /\ flight' = flight /\ got' = got /\ health[e] # "up"
      BY <1>12 DEF DroneRefuses, GiveUpConnecting, AtDrone, userVars
    <2>2. pos <= d => pos' <= d /\ pos' # 0
      BY <1>1, <2>1
    <2> QED
      BY <1>4, <2>1, <2>2 DEF Coming, InFlight
  <1>13. ASSUME AnswerUser PROVE Coming(d)'
    <2>1. ~ (pos <= d) /\ flight \subseteq flight' /\ got' = got
      BY <1>1, <1>13 DEF AnswerUser, Last, userVars
    <2> QED
      BY <1>4, <2>1 DEF Coming, InFlight
  <1>14. CASE \/ UNCHANGED vars \/ Tick
              \/ \E e \in Drones : StartConnecting(e) \/ Awake(e)
    BY <1>5, <1>14 DEF vars, csVars, userVars, Tick, StartConnecting, Awake
  <1> QED
    BY <1>2, <1>6, <1>7, <1>8, <1>9, <1>10, <1>11, <1>12, <1>13, <1>14 DEF Next

\* A step that sends no mu2 or mu3 and leaves time alone.
LEMMA DeadlinesStable ==
    ASSUME Deadlines, now' = now,
           stage' # "aborted" => stage # "aborted",
           stage' = "requesting" => stage = "requesting",
           stage' = "waiting" => stage = "waiting" /\ since' = since,
           \A m \in flight' : m.kind \in {"MU2", "DIAL_MU3", "MU3"} => m \in flight
    PROVE  Deadlines'
  BY DEF Deadlines, ReplyTimeout

LEMMA DeadlinesStep ==
    ASSUME CourseInv, CollectInv, [Next]_vars
    PROVE  Deadlines'
  <1>1. /\ Deadlines /\ Frames /\ now \in Nat /\ since \in Nat /\ MaxDelay \in Nat /\ Second \in Nat
        /\ RoundTrip = 2 * MaxDelay
        /\ \A m \in flight :
              /\ m.due \in Nat /\ m.due <= now + RoundTrip /\ now <= m.due
              /\ m.kind \in {"MU2", "MU3"} => m.due <= now + MaxDelay
    <2>1. Types /\ Frames /\ MaxDelay \in Nat /\ Second \in Nat /\ Deadlines /\ RoundTrip = 2 * MaxDelay
      BY ConstantsAre DEF CourseInv, CollectInv
    <2> QED
      BY <2>1 DEF Types, Frames, Dials
  <1>2. ASSUME NEW m \in flight, AcceptMu2(m) \/ SendMu3(m) PROVE Deadlines'
    <2>1. /\ UNCHANGED <<now, stage, since>>
          /\ \/ m.kind = "MU2" /\ flight' = (flight \ {m}) \cup {Dial("DIAL_MU3", m.drone)}
             \/ m.kind = "DIAL_MU3" /\ flight' = (flight \ {m}) \cup {Msg("MU3", m.drone)}
             \/ flight' = flight \ {m}
      BY <1>2 DEF AcceptMu2, SendMu3, userVars
    <2>2. now \in Nat /\ since \in Nat /\ MaxDelay \in Nat /\ m.due \in Nat /\ now <= m.due
      BY <1>1
    <2>4. /\ stage = "waiting" /\ m.kind = "MU2" => m.due <= since + MaxDelay
          /\ stage = "waiting" /\ m.kind = "DIAL_MU3" => m.due <= since + 3 * MaxDelay
      BY <1>1 DEF Deadlines
    <2>5. /\ stage = "waiting" /\ m.kind = "MU2" => now + 2 * MaxDelay <= since + 3 * MaxDelay
          /\ stage = "waiting" /\ m.kind = "DIAL_MU3" => now + MaxDelay <= since + 4 * MaxDelay
      BY <2>2, <2>4
    <2>3. ASSUME NEW k \in flight'
          PROVE  \/ k \in flight
                 \/ k.kind = "DIAL_MU3" /\ k.due = now + RoundTrip /\ m.kind = "MU2"
                 \/ k.kind = "MU3" /\ k.due = now + MaxDelay /\ m.kind = "DIAL_MU3"
      BY <2>1, MsgIs
    <2> QED
      BY <1>1, <2>1, <2>5, <2>3 DEF Deadlines, ReplyTimeout
  <1>3. ASSUME NEW m \in flight, ReceiveBatch(m) PROVE Deadlines'
    <2>1. /\ m.kind = "BATCH" /\ flight' = flight \ {m} /\ now' = now
          /\ stage' = "waiting" /\ since' = now
      BY <1>3 DEF ReceiveBatch
    <2>2. stage = "requesting" /\ now <= ReplyTimeout
      BY <1>1, <2>1 DEF CourseInv, Course, Deadlines
    <2>3. \A k \in flight' :
             /\ k \in flight
             /\ k.kind = "MU2" => k.due <= now + MaxDelay
             /\ k.due <= now + 3 * MaxDelay /\ k.due <= now + 4 * MaxDelay
      BY <1>1, <2>1
    <2> QED
      BY <1>1, <2>1, <2>2, <2>3 DEF Deadlines, ReplyTimeout
  <1>4. ASSUME NEW d \in Drones, ContactDrone(d) PROVE Deadlines'
    <2>1. /\ pos # 0 /\ flight' = flight \cup {Msg("MU2", d)} /\ UNCHANGED <<now, stage, since>>
      BY <1>4, DronesAre DEF ContactDrone, AtDrone, userVars, CourseInv
    <2>2. stage \in {"requesting", "aborted"} /\ (stage = "requesting" => now <= ReplyTimeout)
      BY <1>1, <2>1 DEF CourseInv, Course, Deadlines
    <2>3. ReplyTimeout \in Nat
      BY <1>1 DEF ReplyTimeout
    <2>4. stage = "requesting" => now + MaxDelay <= ReplyTimeout + MaxDelay
      BY <1>1, <2>2, <2>3
    <2>5. \A k \in flight' : k \in flight \/ k.due = now + MaxDelay
      BY <2>1, MsgIs
    <2>6. ReplyTimeout' = ReplyTimeout
      BY DEF ReplyTimeout
    <2> QED
      BY <1>1, <2>1, <2>2, <2>4, <2>5, <2>6 DEF Deadlines
  <1>5. ASSUME Tick PROVE Deadlines'
    <2>1. /\ now' = now + 1 /\ UNCHANGED <<flight, stage, since>>
          /\ stage = "requesting" => now < ReplyTimeout
      BY <1>5 DEF Tick, NothingDue, userVars
    <2>2. stage = "requesting" => now + 1 <= 15 * Second
      BY <1>1, <2>1 DEF ReplyTimeout
    <2> QED
      BY <1>1, <2>1, <2>2 DEF Deadlines, ReplyTimeout
  <1>6. ASSUME \/ UNCHANGED vars \/ AnswerUser \/ ReplyTimesOut \/ VerifyBatch \/ UserExits
               \/ \E m \in flight : ReceiveMu1(m) \/ RejectMu2(m) \/ ReceiveMu3(m) \/ ReceiveData(m)
                                     \/ SendData(m)
               \/ \E d \in Drones : DroneRefuses(d) \/ StartConnecting(d) \/ GiveUpConnecting(d)
                                    \/ Awake(d)
        PROVE  Deadlines'
    <2>1. \A m \in flight' : m.kind \in {"MU2", "DIAL_MU3", "MU3"} => m \in flight
      BY <1>6, MsgIs DEF vars, AnswerUser, ReplyTimesOut, VerifyBatch, UserExits, UserGone, ReceiveMu1,
         RejectMu2, ReceiveMu3, ReceiveData, DroneRefuses, StartConnecting, GiveUpConnecting, Awake, SendData
    <2>2. /\ now' = now /\ (stage' # "aborted" => stage # "aborted")
          /\ stage' = "requesting" => stage = "requesting"
          /\ stage' = "waiting" => stage = "waiting" /\ since' = since
      BY <1>6 DEF vars, userVars, AnswerUser, ReplyTimesOut, VerifyBatch, UserExits, UserGone, ReceiveMu1,
         RejectMu2, ReceiveMu3, ReceiveData, DroneRefuses, StartConnecting, GiveUpConnecting, Awake, SendData
    <2> QED
      BY <1>1, <2>1, <2>2, DeadlinesStable
  <1> QED
    BY <1>2, <1>3, <1>4, <1>5, <1>6 DEF Next

LEMMA UpIsListed ==
    ASSUME Types
    PROVE  Cardinality(Up) \in Nat /\ Cardinality(Up) <= Cardinality(ListedBefore(Last))
  <1>1. Up \subseteq ListedBefore(Last)
    BY DronesAre DEF Up, ListedBefore
  <1> QED
    BY <1>1, DronesAreFinite, FS_Subset, FS_CardinalityType

LEMMA CountedStep ==
    ASSUME CourseInv, CollectInv, [Next]_vars
    PROVE  Counted'
  <1>1. Types /\ Counted /\ Up' = Up /\ Types' /\ IsFiniteSet(Up)
    BY HealthIsFixed, TypesStep, DronesAreFinite DEF CourseInv, CollectInv
  <1>2. need' \in Nat /\ need \in Nat /\ got' \subseteq Up /\ got \subseteq Up /\ Cardinality(Up) \in Nat
    BY <1>1, UpIsListed DEF Types
  <1>3. ASSUME NEW m \in flight, ReceiveMu3(m) PROVE Counted'
    <2>1. /\ got' = got \cup {m.drone} /\ need' = need
          /\ ready' = (ready \/ Cardinality(got') >= need)
      BY <1>3 DEF ReceiveMu3
    <2>2. ASSUME ready PROVE got' = Up
      BY <1>1, <1>2, <2>1, <2>2 DEF Counted
    <2>3. ASSUME Cardinality(got') >= need PROVE got' = Up
      <3>1. IsFiniteSet(got') /\ Cardinality(got') <= Cardinality(Up)
            /\ (Cardinality(got') = Cardinality(Up) => got' = Up)
        BY <1>1, <1>2, FS_Subset
      <3>2. Cardinality(got') \in Nat /\ need >= Cardinality(Up)
        BY <1>1, <3>1, FS_CardinalityType DEF Counted
      <3>3. Cardinality(got') = Cardinality(Up)
        BY <1>2, <2>3, <3>1, <3>2
      <3> QED
        BY <3>1, <3>3
    <2> QED
      BY <1>1, <2>1, <2>2, <2>3 DEF Counted
  <1>4. ASSUME NEW m \in flight, ReceiveBatch(m) PROVE Counted'
    <2>1. /\ m.kind = "BATCH" /\ need' = Expected(listed) /\ UNCHANGED <<got, ready>>
      BY <1>4 DEF ReceiveBatch
    <2>2. Len(listed) = Cardinality(ListedBefore(Last))
      BY <1>4, <2>1 DEF CourseInv, Course
    <2>3. Len(listed) >= Cardinality(Up)
      BY <1>1, <2>2, UpIsListed DEF Types
    <2>4. Expected(listed) >= Cardinality(Up)
      BY <1>1, <2>3 DEF Expected, Counted
    <2> QED
      BY <1>1, <2>1, <2>4 DEF Counted
  <1>5. ASSUME UNCHANGED <<need, got, ready>> PROVE Counted'
    BY <1>1, <1>5 DEF Counted
  <1> QED
    BY <1>3, <1>4, <1>5 DEF Next, vars, userVars, csVars, ReceiveMu1, RejectMu2, AcceptMu2, SendMu3,
       ReceiveData, ContactDrone, DroneRefuses, StartConnecting, GiveUpConnecting, Awake, SendData,
       AnswerUser, ReplyTimesOut, VerifyBatch, UserExits, UserGone, Tick

\* When the 30 s are over nothing is to come any more.
LEMMA AllAreThere ==
    ASSUME CourseInv, CollectInv, VerifyBatch
    PROVE  got = Up
  <1>1. /\ stage = "waiting" /\ (ready \/ now = since + CollectTimeout)
        /\ Types /\ Counted /\ got \subseteq Up
    BY DEF VerifyBatch, CourseInv, CollectInv, Types
  <1>2. CASE ready
    BY <1>1, <1>2 DEF Counted
  <1>3. CASE now = since + CollectTimeout
    <2> SUFFICES ASSUME NEW d \in Up PROVE d \in got
      BY <1>1
    <2>1. /\ Second \in Nat /\ Second >= 1 /\ MaxDelay \in Nat /\ since \in Nat
          /\ 2 * MaxDelay < 10 * Second
      BY <1>1, ConstantsAre DEF Types
    <2>2. pos = 0 /\ ~InFlight("MU1") /\ Coming(d)
      BY <1>1, AfterReply DEF CollectInv, AllComing
    <2>3. ASSUME NEW m \in flight, m.kind \in {"MU2", "DIAL_MU3", "MU3"} PROVE FALSE
      <3>1. m.due \in Nat /\ now <= m.due
        BY <1>1 DEF CourseInv, Frames, Types
      <3>2. m.due <= since + MaxDelay \/ m.due <= since + 3 * MaxDelay \/ m.due <= since + 4 * MaxDelay
        BY <1>1, <2>3 DEF CollectInv, Deadlines
      <3> QED
        BY <1>3, <2>1, <3>1, <3>2 DEF CollectTimeout
    <2> QED
      BY <2>2, <2>3 DEF Coming
  <1> QED
    BY <1>1, <1>2, <1>3

LEMMA VerifiedStep ==
    ASSUME CourseInv, CollectInv, [Next]_vars
    PROVE  VerifiedHasAll'
  <1>1. VerifiedHasAll /\ Up' = Up
    BY HealthIsFixed DEF CollectInv
  <1>2. CASE VerifyBatch
    BY <1>1, <1>2, AllAreThere DEF VerifyBatch, VerifiedHasAll
  <1>3. CASE UserExits
    BY <1>1, <1>3 DEF UserExits, UserGone, VerifiedHasAll
  <1>4. ASSUME keys' = keys, stage' = stage \/ stage' \notin {"verified", "exited"}
        PROVE  VerifiedHasAll'
    BY <1>1, <1>4 DEF VerifiedHasAll
  <1> QED
    BY <1>2, <1>3, <1>4 DEF Next, vars, userVars, csVars, ReceiveMu1, RejectMu2, AcceptMu2, SendMu3,
       ReceiveMu3, ReceiveBatch, ReceiveData, ContactDrone, DroneRefuses, StartConnecting,
       GiveUpConnecting, Awake, SendData, AnswerUser, ReplyTimesOut, UserGone, Tick

LEMMA StaleStep ==
    ASSUME CourseInv, CollectInv, [Next]_vars
    PROVE  StaleOnlyAfterAbort'
  <1>1. StaleOnlyAfterAbort
    BY DEF CollectInv
  <1>2. ASSUME NEW m \in flight, RejectMu2(m) PROVE StaleOnlyAfterAbort'
    <2>1. m.kind = "MU2" /\ stage' = stage /\ (Fresh(t2) => stale' = stale)
      BY <1>2 DEF RejectMu2, userVars
    <2> QED
      BY <1>1, <2>1, StillFresh DEF StaleOnlyAfterAbort
  <1>3. ASSUME stale' = stale, stage' = stage \/ stage # "aborted" \/ stage' = "aborted"
        PROVE  StaleOnlyAfterAbort'
    BY <1>1, <1>3 DEF StaleOnlyAfterAbort
  <1>4. \A m : ReceiveBatch(m) => stage # "aborted"
    BY DEF ReceiveBatch, CourseInv, Course
  <1> QED
    BY <1>2, <1>3, <1>4 DEF Next, vars, userVars, csVars, ReceiveMu1, AcceptMu2, SendMu3,
       ReceiveMu3, ReceiveBatch, ReceiveData, ContactDrone, DroneRefuses, StartConnecting,
       GiveUpConnecting, Awake, SendData, AnswerUser, ReplyTimesOut, VerifyBatch, UserExits, UserGone, Tick

LEMMA CollectInvStep ==
    ASSUME CourseInv, CollectInv, [Next]_vars
    PROVE  CollectInv'
  BY ComingStep, DeadlinesStep, CountedStep, VerifiedStep, StaleStep DEF CollectInv

LEMMA CollectInvInit ==
    ASSUME Init
    PROVE  CollectInv
  <1>1. Types
    BY CourseInvInit DEF CourseInv
  <1>2. flight = {First} /\ First.kind = "MU1"
    BY DEF Init, Msg, First
  <1>3. AllComing
    BY <1>2 DEF AllComing, Coming, InFlight
  <1>4. Second \in Nat /\ 0 <= 15 * Second
    BY ConstantsAre
  <1>5. Deadlines
    BY <1>2, <1>4 DEF Init, Deadlines, ReplyTimeout
  <1>6. need >= Cardinality(Up)
    <2>1. need = Cardinality(Drones) /\ Up \subseteq Drones /\ IsFiniteSet(Drones)
      BY <1>1, DronesAreFinite DEF Init, Up
    <2> QED
      BY <2>1, FS_Subset, FS_CardinalityType
  <1> QED
    BY <1>3, <1>5, <1>6 DEF Init, CollectInv, Counted, VerifiedHasAll, StaleOnlyAfterAbort
-----------------------------------------------------------------------------
\* With every drone up, and quick, the user does not give up.
LEMMA QuickIs ==
    ASSUME CourseInv, Quick
    PROVE  /\ stage # "aborted" /\ (stage = "requesting" => now < ReplyTimeout)
           /\ ListedBefore(Last) = Drones /\ \A d \in Drones : health[d] = "up"
           /\ Len(health) \in Nat \ {0} /\ Drones = 1 .. Len(health)
           /\ Trips(Len(health)) \in Nat
           /\ Trips(Len(health)) + 4 * MaxDelay < DataDelay
  <1>1. /\ Silent = {} /\ Types /\ Up = Drones /\ Drones # {}
        /\ (Len(health) + 1) * RoundTrip < 2 * Second
    BY DEF Silent, Up, Quick, CourseInv
  <1>2. /\ AtMostOne /\ Len(health) \in Nat \ {0} /\ Drones = 1 .. Len(health)
        /\ Last = Len(health) + 1
    BY <1>1, DronesAre DEF AtMostOne, Last
  <1>3. ListedBefore(Last) = Drones /\ \A d \in Drones : health[d] = "up"
    BY <1>1, DronesAre DEF ListedBefore, Up
  <1> DEFINE n == Len(health)
  <1>4. /\ Trips(n) \in Nat /\ Trips(n + 1) = Trips(n) + RoundTrip
        /\ Trips(n + 1) = n * RoundTrip /\ Trips((n + 1) + 1) = (n + 1) * RoundTrip
        /\ Trips((n + 1) + 1) = Trips(n + 1) + RoundTrip
    BY <1>2, TripsAre
  <1>5. /\ RoundTrip \in Nat /\ RoundTrip = 2 * MaxDelay /\ MaxDelay \in Nat
        /\ Second \in Nat /\ Second >= 1
    BY ConstantsAre
  <1>6. Len(health) * RoundTrip < 5 * Second
    BY <1>1, <1>4, <1>5
  <1>7. Trips(n) + 4 * MaxDelay < DataDelay
    BY <1>1, <1>4, <1>5 DEF DataDelay
  <1>8. stage # "aborted" /\ (stage = "requesting" => now < ReplyTimeout)
    BY <1>2, <1>6, InTime DEF CourseInv, Punctual
  <1> QED
    BY <1>2, <1>3, <1>4, <1>7, <1>8

LEMMA WholeStep ==
    ASSUME CourseInv, Quick, Whole, [Next]_vars
    PROVE  Whole'
  <1>1. /\ Types /\ Up = Drones /\ Drones' = Drones /\ health' = health
        /\ Cardinality(Drones) = Len(health) /\ Len(health) \in Nat
    BY HealthIsFixed, DronesAre, DronesAreFinite DEF CourseInv, Quick
  <1>2. ASSUME NEW m \in flight, ReceiveMu3(m) PROVE Whole'
    <2>1. /\ got' = got \cup {m.drone} /\ need' = need
          /\ ready' = (ready \/ Cardinality(got') >= need)
      BY <1>2 DEF ReceiveMu3
    <2>2. got' = Drones => ready'
      <3> SUFFICES ASSUME got' = Drones PROVE Cardinality(got') >= need
        BY <2>1
      <3> QED
        BY <1>1 DEF Whole
    <2> QED
      BY <1>1, <2>1, <2>2 DEF Whole
  <1>3. ASSUME NEW m \in flight, ReceiveBatch(m) PROVE Whole'
    <2>1. /\ m.kind = "BATCH" /\ need' = Expected(listed) /\ UNCHANGED <<got, ready>>
      BY <1>3 DEF ReceiveBatch
    <2>2. Len(listed) = Cardinality(Drones)
      BY <1>3, <2>1, QuickIs DEF CourseInv, Course
    <2>3. need' = Len(health)
      BY <1>1, <2>1, <2>2 DEF Expected, Whole
    <2> QED
      BY <1>1, <2>1, <2>3 DEF Whole
  <1>4. ASSUME UNCHANGED <<need, got, ready>> PROVE Whole'
    BY <1>1, <1>4 DEF Whole
  <1> QED
    BY <1>2, <1>3, <1>4 DEF Next, vars, userVars, csVars, ReceiveMu1, RejectMu2, AcceptMu2,
       SendMu3, ReceiveData, ContactDrone, DroneRefuses, StartConnecting, GiveUpConnecting,
       Awake, SendData, AnswerUser, ReplyTimesOut, VerifyBatch, UserExits, UserGone, Tick

\* With every drone up _process_mu1 meets neither a refusal nor silence.
LEMMA AllAnswer ==
    ASSUME CourseInv, Quick
    PROVE  /\ \A d : ~DroneRefuses(d) /\ ~GiveUpConnecting(d)
           /\ ~ReplyTimesOut
  <1>1. \A d : AtDrone(d) => d \in Drones /\ health[d] = "up"
    BY QuickIs DEF AtDrone
  <1>2. \A d : ~DroneRefuses(d) /\ ~GiveUpConnecting(d)
    BY <1>1 DEF DroneRefuses, GiveUpConnecting
  <1>3. ~ReplyTimesOut
    <2>1. now \in Nat /\ (stage = "requesting" => now < ReplyTimeout)
      BY QuickIs DEF CourseInv, Types
    <2> QED
      BY <2>1 DEF ReplyTimesOut
  <1> QED
    BY <1>2, <1>3

\* The first drone is contacted: from then on its mu3, and two seconds later its
\* data, may arrive.
LEMMA FirstContact ==
    ASSUME CourseInv, Quick, Before, NEW d, ContactDrone(d)
    PROVE  \E c \in Nat : Dispatch(c)' /\ Swift(c)'
  <1>1. /\ d \in Drones /\ pos = d /\ d \in Nat \ {0} /\ now \in Nat /\ health' = health
        /\ Drones' = Drones /\ MaxDelay \in Nat /\ RoundTrip \in Nat /\ Second \in Nat
    BY DronesAre, ConstantsAre DEF ContactDrone, AtDrone, CourseInv, Types, Drones
  <1>2. pos = 1 /\ ~InFlight("MU1") /\ flight = {}
    BY <1>1 DEF Before, CourseInv, Course, InFlight
  <1>3. /\ flight' = {Msg("MU2", d)} /\ pos' = 2 /\ giveUp' = 0
        /\ UNCHANGED <<now, wake, stage>>
    BY <1>2 DEF ContactDrone, userVars
  <1>4. Trips(2) = RoundTrip /\ Trips(Len(health)) \in Nat
    <2>1. Trips(1) = 0 /\ Trips(1 + 1) = Trips(1) + RoundTrip
      BY TripsAre
    <2> QED
      BY <1>1, <2>1, QuickIs
  <1>5. LastAt(now)' = now + Trips(Len(health)) /\ Trips(pos)' = RoundTrip
    BY <1>1, <1>3, <1>4 DEF LastAt, Trips
  <1>6. \A m \in flight' : m.kind = "MU2" /\ m.due = now + MaxDelay
    BY <1>3, MsgIs
  <1>7. \A e \in Drones : wake'[e] = 0
    BY <1>3 DEF Before
  <1>8. Dispatch(now)'
    BY <1>1, <1>3, <1>4, <1>5, <1>6, <1>7 DEF Dispatch
  <1>9. Swift(now)'
    BY <1>1, <1>3, <1>4, <1>5, <1>6 DEF Swift, InFlight, Before
  <1>10. PICK c \in Nat : c = now /\ now' = c
    BY <1>1, <1>3
  <1>11. Dispatch(c)' /\ Swift(c)'
    BY <1>1, <1>3, <1>8, <1>9, <1>10 DEF Dispatch, Swift, LastAt
  <1> QED
    BY <1>11

LEMMA BeforeStep ==
    ASSUME CourseInv, Quick, Before, [Next]_vars
    PROVE  Before' \/ \E c \in Nat : Dispatch(c)' /\ Swift(c)'
  <1>1. /\ Drones' = Drones /\ stage = "requesting" /\ wake = [d \in Drones |-> 0]
        /\ \A m \in flight : m.kind = "MU1"
    BY HealthIsFixed DEF Before
  <1>2. ASSUME NEW m, ReceiveMu1(m) PROVE Before'
    <2>1. pos' = 1 /\ flight' \subseteq flight /\ UNCHANGED <<wake, stage>>
      BY <1>2 DEF ReceiveMu1, userVars
    <2> QED
      BY <1>1, <2>1 DEF Before
  <1>3. ASSUME UNCHANGED <<flight, pos, wake, stage>> PROVE Before'
    BY <1>1, <1>3 DEF Before, InFlight
  <1>4. UNCHANGED vars \/ Tick \/ (\E d : StartConnecting(d)) => UNCHANGED <<flight, pos, wake, stage>>
    BY DEF vars, csVars, userVars, Tick, StartConnecting
  <1>5. ~AnswerUser
    <2>1. pos \in {0, 1}
      BY DEF Before, CourseInv, Course
    <2> QED
      BY <2>1, QuickIs DEF AnswerUser
  <1>6. ~VerifyBatch /\ ~UserExits /\ \A d \in Drones : ~Awake(d)
    BY <1>1 DEF VerifyBatch, UserExits, Awake, Asleep
  <1>7. \A m \in flight : /\ ~RejectMu2(m) /\ ~AcceptMu2(m) /\ ~SendMu3(m) /\ ~SendData(m)
                          /\ ~ReceiveMu3(m) /\ ~ReceiveBatch(m) /\ ~ReceiveData(m)
    BY <1>1 DEF RejectMu2, AcceptMu2, SendMu3, SendData, ReceiveMu3, ReceiveBatch, ReceiveData
  <1> QED
    BY <1>2, <1>3, <1>4, <1>5, <1>6, <1>7, AllAnswer, FirstContact DEF Next

LEMMA DispatchStep ==
    ASSUME CourseInv, Quick, NEW c \in Nat, Dispatch(c), Swift(c), [Next]_vars
    PROVE  Dispatch(c)'
  <1>1. /\ now \in Nat /\ c <= now /\ MaxDelay \in Nat /\ RoundTrip = 2 * MaxDelay /\ Second \in Nat
        /\ Drones' = Drones /\ health' = health /\ wake \in [Drones -> Nat]
        /\ pos \in Nat /\ giveUp \in Nat
        /\ \A m \in flight : m.due \in Nat /\ now <= m.due
    <2>1. Types /\ Frames /\ Last \in Nat
      BY DronesAre DEF CourseInv
    <2> QED
      BY <2>1, ConstantsAre, HealthIsFixed DEF Types, Frames, Swift
  <1>2. LastAt(c)' = LastAt(c) /\ LastAt(c) = c + Trips(Len(health)) /\ Trips(Len(health)) \in Nat
    BY <1>1, QuickIs DEF LastAt, Trips
  <1>3. ASSUME NEW m \in flight, AcceptMu2(m) \/ SendMu3(m) \/ SendData(m) PROVE Dispatch(c)'
    <2>1. /\ UNCHANGED <<now, pos, giveUp>>
          /\ \/ /\ m.kind = "MU2" /\ wake' = wake
                /\ flight' = (flight \ {m}) \cup {Dial("DIAL_MU3", m.drone)}
             \/ /\ m.kind = "DIAL_MU3" /\ wake' = [wake EXCEPT ![m.drone] = now + DataDelay]
                /\ flight' = (flight \ {m}) \cup {Msg("MU3", m.drone)}
             \/ /\ m.kind = "DIAL_DATA" /\ wake' = wake
                /\ flight' = (flight \ {m}) \cup {Msg("DATA", m.drone)}
             \/ flight' = flight \ {m} /\ wake' = wake
      BY <1>3 DEF AcceptMu2, SendMu3, SendData, csVars
    <2>2. /\ m.kind = "MU2" => now + RoundTrip <= LastAt(c) + 3 * MaxDelay
          /\ m.kind = "DIAL_MU3" => now + MaxDelay <= LastAt(c) + 4 * MaxDelay
          /\ m.kind = "DIAL_DATA" => now >= c + DataDelay
      <3>1. /\ m.kind = "MU2" => m.due <= LastAt(c) + MaxDelay
            /\ m.kind = "DIAL_MU3" => m.due <= LastAt(c) + 3 * MaxDelay
            /\ m.kind = "DIAL_DATA" => now >= c + DataDelay
        BY DEF Dispatch
      <3>2. m.due \in Nat /\ now <= m.due /\ LastAt(c) \in Nat
        BY <1>1, <1>2
      <3> QED
        BY <1>1, <3>1, <3>2
    <2>3. \A k \in flight' :
             \/ k \in flight
             \/ k.kind = "DIAL_MU3" /\ k.due = now + RoundTrip /\ m.kind = "MU2"
             \/ k.kind = "MU3" /\ k.due = now + MaxDelay /\ m.kind = "DIAL_MU3"
             \/ k.kind = "DATA" /\ m.kind = "DIAL_DATA"
      BY <2>1, MsgIs
    <2>4. \A d \in Drones : wake'[d] = wake[d] \/ wake'[d] = now + DataDelay
      BY <1>1, <2>1
    <2>5. DataDelay \in Nat /\ DataDelay' = DataDelay
      BY <1>1 DEF DataDelay
    <2>6. /\ pos' # 0 => pos' > 1
          /\ pos' # 0 /\ giveUp' = 0 => now' + RoundTrip <= c + Trips(pos')
          /\ giveUp' # 0 => giveUp' <= c + Trips(pos')
      BY <2>1 DEF Dispatch
    <2>7. \A k \in flight' :
          /\ k.kind \in {"MU2", "BATCH"} => k.due <= LastAt(c) + MaxDelay
          /\ k.kind = "DIAL_MU3" => k.due <= LastAt(c) + 3 * MaxDelay
          /\ k.kind = "MU3" => k.due <= LastAt(c) + 4 * MaxDelay
          /\ k.kind \in {"DIAL_DATA", "DATA"} => now >= c + DataDelay
      BY <2>2, <2>3 DEF Dispatch
    <2>8. \A d \in Drones : wake'[d] # 0 => wake'[d] >= c + DataDelay
      BY <1>1, <2>4, <2>5 DEF Dispatch
    <2> QED
      BY <1>1, <1>2, <2>1, <2>5, <2>6, <2>7, <2>8 DEF Dispatch, Trips
  <1>4. ASSUME NEW d \in Drones, Awake(d) PROVE Dispatch(c)'
    <2>1. /\ wake[d] # 0 /\ wake[d] <= now /\ wake' = [wake EXCEPT ![d] = 0]
          /\ UNCHANGED <<now, pos, giveUp>> /\ flight' = flight \cup {Dial("DIAL_DATA", d)}
      BY <1>4 DEF Awake, Asleep, csVars
    <2>2. now >= c + DataDelay
      BY <1>1, <2>1 DEF Dispatch, DataDelay
    <2>3. \A k \in flight' : k \in flight \/ k.kind = "DIAL_DATA"
      BY <2>1, MsgIs
    <2> QED
      BY <1>1, <1>2, <2>1, <2>2, <2>3 DEF Dispatch, DataDelay, Trips
  <1>5. ASSUME NEW d \in Drones, StartConnecting(d) PROVE Dispatch(c)'
    <2>1. /\ pos = d /\ d # 0 /\ giveUp = 0 /\ giveUp' = now + RoundTrip
          /\ UNCHANGED <<now, flight, pos, wake>>
      BY <1>5, QuickIs DEF StartConnecting, AtDrone
    <2> QED
      BY <1>1, <1>2, <2>1 DEF Dispatch, DataDelay, Trips
  <1>6. ASSUME NEW d \in Drones, ContactDrone(d) PROVE Dispatch(c)'
    <2>1. /\ pos = d /\ d \in Nat \ {0} /\ giveUp # 0 /\ giveUp' = 0 /\ pos' = pos + 1
          /\ flight' = flight \cup {Msg("MU2", d)} /\ UNCHANGED <<now, wake>>
          /\ d <= Len(health)
      BY <1>6, QuickIs DEF ContactDrone, AtDrone
    <2>2. now <= giveUp /\ giveUp <= c + Trips(d)
      BY <2>1 DEF CourseInv, Course, Dispatch
    <2>3. /\ Trips(d) \in Nat /\ Trips(d + 1) = Trips(d) + RoundTrip
          /\ Trips(d) <= Trips(Len(health))
      BY <2>1, TripsAre, QuickIs
    <2>4. now + MaxDelay <= LastAt(c) + MaxDelay /\ now + RoundTrip <= c + Trips(d + 1)
      BY <1>1, <1>2, <2>2, <2>3
    <2>5. \A k \in flight' : k \in flight \/ (k.kind = "MU2" /\ k.due = now + MaxDelay)
      BY <2>1, MsgIs
    <2>6. Trips(pos)' = Trips(d + 1)
      BY <2>1 DEF Trips
    <2>7. \A k \in flight' :
          /\ k.kind \in {"MU2", "BATCH"} => k.due <= LastAt(c) + MaxDelay
          /\ k.kind = "DIAL_MU3" => k.due <= LastAt(c) + 3 * MaxDelay
          /\ k.kind = "MU3" => k.due <= LastAt(c) + 4 * MaxDelay
          /\ k.kind \in {"DIAL_DATA", "DATA"} => now >= c + DataDelay
      BY <2>4, <2>5 DEF Dispatch
    <2>8. DataDelay' = DataDelay /\ pos' > 1
      BY <2>1 DEF DataDelay
    <2> QED
      BY <1>1, <1>2, <2>1, <2>4, <2>6, <2>7, <2>8 DEF Dispatch
  <1>7. ASSUME AnswerUser PROVE Dispatch(c)'
    <2>1. /\ pos = Len(health) + 1 /\ pos' = 0 /\ UNCHANGED <<now, giveUp, wake>>
          /\ flight' = flight \cup {Msg("BATCH", 0)} \/ flight' = flight
      BY <1>7 DEF AnswerUser
    <2>2. giveUp = 0 /\ pos # 0
      BY <2>1, QuickIs DEF CourseInv, Course
    <2>3. Trips(Len(health) + 1) = Trips(Len(health)) + RoundTrip
      BY QuickIs, TripsAre
    <2>4. now + MaxDelay <= LastAt(c) + MaxDelay
      BY <1>1, <1>2, <2>1, <2>2, <2>3 DEF Dispatch
    <2>5. \A k \in flight' : k \in flight \/ (k.kind = "BATCH" /\ k.due = now + MaxDelay)
      BY <2>1, MsgIs
    <2> QED
      BY <1>1, <1>2, <2>1, <2>2, <2>4, <2>5 DEF Dispatch, DataDelay
  <1>8. ASSUME Tick PROVE Dispatch(c)'
    <2>1. now' = now + 1 /\ UNCHANGED <<flight, pos, giveUp, wake>> /\ (pos # 0 => giveUp > now)
      BY <1>8 DEF Tick, NothingDue, csVars
    <2> QED
      BY <1>1, <1>2, <2>1 DEF Dispatch, DataDelay, Trips
  <1>9. ASSUME \/ UNCHANGED vars \/ VerifyBatch \/ UserExits
               \/ \E m \in flight : RejectMu2(m) \/ ReceiveMu3(m) \/ ReceiveBatch(m) \/ ReceiveData(m)
        PROVE  Dispatch(c)'
    <2>1. UNCHANGED <<now, pos, giveUp, wake>> /\ flight' \subseteq flight
      BY <1>9 DEF vars, csVars, userVars, VerifyBatch, UserExits,
         UserGone, RejectMu2, ReceiveMu3, ReceiveBatch, ReceiveData
    <2> QED
      BY <1>1, <1>2, <2>1 DEF Dispatch, DataDelay, Trips
  <1>10. \A m \in flight : ~ReceiveMu1(m)
    BY DEF ReceiveMu1, Swift, InFlight
  <1> QED
    BY <1>3, <1>4, <1>5, <1>6, <1>7, <1>8, <1>9, <1>10, AllAnswer DEF Next

\* Time does not pass before the reply has come, nor before the last mu3 has.
LEMMA TickSwift ==
    ASSUME CourseInv, AllComing, Quick, Whole, NEW c \in Nat, Dispatch(c), Swift(c), Tick
    PROVE  Swift(c)'
  <1>1. /\ now \in Nat /\ MaxDelay \in Nat /\ Up = Drones /\ giveUp \in Nat
        /\ \A m \in flight : m.due \in Nat /\ m.due > now
    <2>1. Types /\ Frames /\ \A m \in flight : m.due > now
      BY DEF CourseInv, Tick, NothingDue
    <2> QED
      BY <2>1, ConstantsAre DEF Types, Frames, Quick
  <1>2. /\ now' = now + 1 /\ UNCHANGED <<flight, health, stage>>
        /\ pos # 0 => giveUp > now
        /\ stage = "waiting" => ~ready
    BY DEF Tick, NothingDue, csVars, userVars
  <1>3. LastAt(c)' = LastAt(c) /\ LastAt(c) = c + Trips(Len(health)) /\ Trips(Len(health)) \in Nat
    BY <1>2, QuickIs DEF LastAt, Trips
  <1>4. ASSUME stage = "requesting" PROVE now + 1 <= LastAt(c) + MaxDelay
    <2>1. CASE pos # 0
      <3>1. pos \in Drones /\ giveUp > now /\ giveUp <= c + Trips(pos)
        BY <1>1, <1>2, <2>1 DEF CourseInv, Course, Dispatch
      <3>2. pos \in Nat \ {0} /\ Len(health) \in Nat \ {0} /\ pos <= Len(health)
        BY <3>1, QuickIs
      <3>3. Trips(pos) \in Nat /\ Trips(pos) <= Trips(Len(health))
        BY <3>2, TripsAre
      <3> QED
        BY <1>1, <1>3, <3>1, <3>3
    <2>2. CASE pos = 0
      <3>1. PICK m \in flight : m.kind = "BATCH"
        BY <1>4, <2>2 DEF CourseInv, Course, InFlight, Swift
      <3>2. m.due <= LastAt(c) + MaxDelay
        BY <3>1 DEF Dispatch
      <3> QED
        BY <1>1, <1>3, <3>2
    <2> QED
      BY <2>1, <2>2
  <1>5. ASSUME stage = "waiting" PROVE now + 1 <= LastAt(c) + 4 * MaxDelay
    <2>1. got # Drones /\ got \subseteq Drones
      BY <1>1, <1>2, <1>5 DEF Whole, CourseInv, Types
    <2>2. PICK d \in Drones : d \notin got
      BY <2>1
    <2>3. Coming(d) /\ ~InFlight("MU1") /\ pos = 0
      BY <1>1, <1>5, AfterReply DEF AllComing
    <2>4. PICK m \in flight : m.kind \in {"MU2", "DIAL_MU3", "MU3"}
      BY <2>2, <2>3 DEF Coming
    <2>5. \/ m.due <= LastAt(c) + MaxDelay \/ m.due <= LastAt(c) + 3 * MaxDelay
          \/ m.due <= LastAt(c) + 4 * MaxDelay
      BY <2>4 DEF Dispatch
    <2> QED
      BY <1>1, <1>3, <2>4, <2>5
  <1> QED
    BY <1>1, <1>2, <1>3, <1>4, <1>5 DEF Swift, InFlight

LEMMA SwiftStep ==
    ASSUME CourseInv, AllComing, Quick, Whole, NEW c \in Nat, Dispatch(c), Swift(c), [Next]_vars
    PROVE  Swift(c)'
  <1>1. /\ now \in Nat /\ MaxDelay \in Nat /\ ~InFlight("MU1")
        /\ LastAt(c)' = LastAt(c) /\ LastAt(c) \in Nat
    BY ConstantsAre, QuickIs, HealthIsFixed DEF CourseInv, Types, Swift, LastAt, Trips
  <1>2. ASSUME NEW m \in flight, ReceiveBatch(m) PROVE Swift(c)'
    <2>1. stage = "requesting" /\ stage' = "waiting" /\ now' = now /\ flight' \subseteq flight
      BY <1>2 DEF ReceiveBatch, csVars, CourseInv, Course
    <2> QED
      BY <1>1, <2>1 DEF Swift, InFlight
  <1>3. ASSUME now' = now, stage' \in {"requesting", "waiting"} => stage' = stage,
               ~InFlight("MU1")'
        PROVE  Swift(c)'
    BY <1>1, <1>3 DEF Swift
  <1>4. ASSUME \/ UNCHANGED vars \/ AnswerUser \/ ReplyTimesOut \/ VerifyBatch \/ UserExits
               \/ \E m \in flight : \/ RejectMu2(m) \/ AcceptMu2(m) \/ SendMu3(m) \/ SendData(m)
                                    \/ ReceiveMu3(m) \/ ReceiveData(m)
               \/ \E d \in Drones : \/ ContactDrone(d) \/ DroneRefuses(d) \/ StartConnecting(d)
                                    \/ GiveUpConnecting(d) \/ Awake(d)
        PROVE  Swift(c)'
    <2>1. now' = now /\ (stage' \in {"requesting", "waiting"} => stage' = stage)
      BY <1>4 DEF vars, csVars, userVars, AnswerUser, ReplyTimesOut, VerifyBatch, UserExits,
         UserGone, RejectMu2, AcceptMu2, SendMu3, ReceiveMu3, ReceiveData, ContactDrone, DroneRefuses,
         StartConnecting, GiveUpConnecting, Awake, SendData
    <2>2. \A k \in flight' : k \in flight \/ k.kind # "MU1"
      BY <1>4, MsgIs DEF vars, AnswerUser, ReplyTimesOut, VerifyBatch, UserExits,
         UserGone, RejectMu2, AcceptMu2, SendMu3, ReceiveMu3, ReceiveData, ContactDrone, DroneRefuses,
         StartConnecting, GiveUpConnecting, Awake, SendData
    <2> QED
      BY <1>1, <1>3, <2>1, <2>2 DEF InFlight
  <1>5. \A m \in flight : ~ReceiveMu1(m)
    BY <1>1 DEF ReceiveMu1, InFlight
  <1> QED
    BY <1>2, <1>4, <1>5, TickSwift DEF Next

LEMMA DataIsReadStep ==
    ASSUME CourseInv, CollectInv, DataInv, [Next]_vars
    PROVE  DataIsRead'
  <1>1. DataIsRead /\ Up' = Up /\ Drones' = Drones /\ health' = health
    BY HealthIsFixed DEF DataInv
  <1>2. ASSUME NEW m \in flight, ReceiveData(m), Up = Drones,
               (Len(health) + 1) * RoundTrip < 2 * Second
        PROVE  lost' = lost
    <2>1. m.kind = "DATA" /\ (m.drone \in keys => lost' = lost)
      BY <1>2 DEF ReceiveData
    <2>2. m.drone \in Up /\ Quick
      BY <1>2, <2>1 DEF CourseInv, Frames, ToUser, Quick
    <2>3. ~Before
      BY <2>1 DEF Before
    <2>4. PICK c \in Nat : Dispatch(c) /\ Swift(c)
      BY <2>2, <2>3 DEF DataInv, Prompt
    <2>5. /\ now \in Nat /\ MaxDelay \in Nat /\ now >= c + DataDelay
          /\ Trips(Len(health)) \in Nat /\ Trips(Len(health)) + 4 * MaxDelay < DataDelay
          /\ Second \in Nat
      BY <2>1, <2>2, <2>4, ConstantsAre, QuickIs DEF CourseInv, Types, Dispatch
    <2>6. stage \notin {"requesting", "waiting"}
      BY <2>4, <2>5 DEF Swift, LastAt, DataDelay
    <2>7. stage \in {"verified", "exited"}
      BY <2>2, <2>6, QuickIs DEF CourseInv, Types
    <2> QED
      BY <2>1, <2>2, <2>7 DEF CollectInv, VerifiedHasAll
  <1>3. lost' = lost \/ \E m \in flight : ReceiveData(m)
    BY DEF Next, vars, userVars, csVars, ReceiveMu1, RejectMu2, AcceptMu2, SendMu3, ReceiveMu3,
       ReceiveBatch, ContactDrone, DroneRefuses, StartConnecting, GiveUpConnecting, Awake, SendData,
       AnswerUser, ReplyTimesOut, VerifyBatch, UserExits, UserGone, Tick
  <1> QED
    BY <1>1, <1>2, <1>3 DEF DataIsRead

LEMMA DataInvStep ==
    ASSUME CourseInv, CollectInv, DataInv, [Next]_vars
    PROVE  DataInv'
  <1>1. Quick' <=> Quick
    BY HealthIsFixed DEF Quick
  <1>2. Quick => Whole'
    BY WholeStep DEF DataInv, Prompt
  <1>3. Quick => Before' \/ \E c \in Nat : Dispatch(c)' /\ Swift(c)'
    BY BeforeStep, DispatchStep, SwiftStep DEF DataInv, Prompt, CollectInv
  <1> QED
    BY <1>1, <1>2, <1>3, DataIsReadStep DEF DataInv, Prompt

LEMMA DataInvInit ==
    ASSUME Init
    PROVE  DataInv
  <1>1. flight = {First} /\ First.kind = "MU1"
    BY DEF Init, Msg, First
  <1>2. Before
    BY <1>1 DEF Init, Before, InFlight
  <1>3. ASSUME Quick PROVE Whole
    BY <1>3 DEF Init, Whole, Quick
  <1> QED
    BY <1>2, <1>3 DEF Init, DataInv, Prompt, DataIsRead
-----------------------------------------------------------------------------
IInv == CourseInv /\ CollectInv /\ DataInv

\* What holds at every instant of an authentication: the server's and the user's
\* course, the responses under way, and what is sent when every drone is up.
THEOREM FanoutInvariant ==
    Spec => []IInv
  <1>1. Init => IInv
    BY CourseInvInit, CollectInvInit, DataInvInit DEF IInv
  <1>2. IInv /\ [Next]_vars => IInv'
    BY CourseInvStep, CollectInvStep, DataInvStep DEF IInv
  <1> QED
    BY <1>1, <1>2, PTL DEF Spec

LEMMA AtMostOneByCount ==
    ASSUME Types, Cardinality(Silent) <= 1
    PROVE  AtMostOne
  <1> SUFFICES ASSUME NEW d \in Silent, NEW e \in Silent, d # e PROVE FALSE
    BY DEF AtMostOne
  <1>1. IsFiniteSet(Silent)
    BY DronesAreFinite, FS_Subset DEF Silent
  <1>2. {d, e} \subseteq Silent
    OBVIOUS
  <1>3. Cardinality({d, e}) = 2
    <2>1. IsFiniteSet({d}) /\ Cardinality({d}) = 1
      BY FS_Singleton
    <2>2. Cardinality({d} \cup {e}) = Cardinality({d}) + 1
      BY <2>1, FS_AddElement
    <2>3. {d} \cup {e} = {d, e}
      OBVIOUS
    <2> QED
      BY <2>1, <2>2, <2>3
  <1> QED
    BY <1>1, <1>2, <1>3, FS_Subset, FS_CardinalityType

\* One drone whose host does not answer costs _process_mu1 the 10 s of
\* create_connection, once: the user's 15 s for the reply are not over before it
\* comes, wherever in all_drones() that drone stands and whatever the others are,
\* as long as a round trip to every drone takes less than 5 s in all.
THEOREM SilenceTolerated ==
    Spec => []OneSilentIsTolerated
  <1>1. IInv => OneSilentIsTolerated
    BY AtMostOneByCount DEF IInv, CourseInv, Punctual, OneSilentIsTolerated, Silent
  <1> QED
    BY <1>1, FanoutInvariant, PTL

\* batch_verify has the mu3 of every drone that follows the protocol: neither a
\* number of drones counted too low nor the end of the 30 s leaves one out.
THEOREM VerifiedAlwaysHasAll ==
    Spec => []VerifiedHasAll
  <1>1. IInv => VerifiedHasAll
    BY DEF IInv, CollectInv
  <1> QED
    BY <1>1, FanoutInvariant, PTL

\* With every drone up, the sleep(2) of _send_mu3_to_user is long enough: whenever
\* data arrives, its drone has a session key, as long as a round trip to every
\* drone and one more take less than 2 s in all.
THEOREM DataAlwaysRead ==
    Spec => []DataIsRead
  <1>1. IInv => DataIsRead
    BY DEF IInv, DataInv
  <1> QED
    BY <1>1, FanoutInvariant, PTL

\* is_fresh turns a mu2 down as too old only when the user has already given up:
\* the 120 s never cost a drone its session.
THEOREM StaleOnlyWhenAborted ==
    Spec => []StaleOnlyAfterAbort
  <1>1. IInv => StaleOnlyAfterAbort
    BY DEF IInv, CollectInv
  <1> QED
    BY <1>1, FanoutInvariant, PTL
=============================================================================
