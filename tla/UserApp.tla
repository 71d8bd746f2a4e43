------------------------------- MODULE UserApp -------------------------------
(***************************************************************************)
(* user_app.py over user.py: one process after the other enrols, sends mu1 *)
(* and collects mu3 in handler threads, until an Event or a timeout wakes  *)
(* its main thread to verify the batch and derive the session keys.        *)
(***************************************************************************)
EXTENDS Network

CONSTANT NumDronesArg   \* --drones

ASSUME NumDronesAssumption == NumDronesArg \in Nat

VARIABLES
    cur,        \* the number of the latest user process
    stage,      \* how far its main thread is
    numDrones,  \* self.num_drones
    batch,      \* _mu3_batch: whose mu1 each response answers, and from where
    counted,    \* handler threads past the append: their `received`
    ready,      \* _mu3_ready
    valid,      \* result.valid_drones
    invalid,    \* result.invalid_drones
    sessions    \* _sessions: the drone processes with a key

userVars == <<cur, stage, numDrones, batch, counted, ready, valid, invalid, sessions>>

Responses == [user : Users, rec : Records]
Stages == {"off", "started", "enrolling", "enrolled", "requesting", "waiting",
           "verified", "done"}

\* Fault: handler threads of the last process live on.
FreshButHandlers ==
    /\ numDrones' = NumDronesArg
    /\ batch' = <<>> /\ counted' = counted /\ ready' = FALSE
    /\ valid' = {} /\ invalid' = {} /\ sessions' = {}

\* UserApp.__init__.
Fresh ==
    /\ numDrones' = NumDronesArg
    /\ batch' = <<>> /\ counted' = {} /\ ready' = FALSE
    /\ valid' = {} /\ invalid' = {} /\ sessions' = {}

UserInit ==
    /\ cur = 0 /\ stage = "off"
    /\ numDrones = NumDronesArg
    /\ batch = <<>> /\ counted = {} /\ ready = FALSE
    /\ valid = {} /\ invalid = {} /\ sessions = {}

Me == UserProc(cur)

\* start_mu3_listener: ports 9200 and 9201 are open before the enrollment.
StartUser ==
    /\ stage = "off" /\ cur < MaxUsers
    /\ cur' = cur + 1
    /\ stage' = "started"
    /\ Fresh
    /\ listener' = [listener EXCEPT ![User] = cur + 1]
    /\ UNCHANGED <<net, open>>

RequestEnrollment ==
    /\ stage = "started"
    /\ stage' = "enrolling"
    /\ Connect("ENROLL_USER", Me)
    /\ UNCHANGED <<listener, cur, numDrones, batch, counted, ready, valid, invalid, sessions>>

CompleteEnrollment ==
    /\ stage = "enrolling"
    /\ Reply("USER_ACK", Me) \in net
    /\ net' = net \ {Reply("USER_ACK", Me)}
    /\ stage' = "enrolled"
    /\ UNCHANGED <<listener, open, cur, numDrones, batch, counted, ready, valid, invalid, sessions>>

SendMu1 ==
    /\ stage = "enrolled"
    /\ stage' = "requesting"
    /\ Connect("MU1", Me)
    /\ UNCHANGED <<listener, cur, numDrones, batch, counted, ready, valid, invalid, sessions>>

\* An empty list leaves num_drones at --drones.
GetBatchReply(f) ==
    /\ stage = "requesting"
    /\ f \in FramesTo(Me) /\ f.kind = "BATCH"
    /\ numDrones' = IF f.drones = <<>> THEN numDrones ELSE Len(f.drones)
    /\ stage' = "waiting"
    /\ net' = net \ {f}
    /\ UNCHANGED <<listener, open, cur, batch, counted, ready, valid, invalid, sessions>>

UserGone ==
    /\ Gone(User, Me)
    /\ stage' = "off"
    /\ Fresh
    /\ UNCHANGED cur

\* authenticate raises on an ERROR reply, enroll and authenticate on the 15 s
\* timeout or a lost connection; main exits, and its listeners with it.
UserFails ==
    /\ stage \in {"enrolling", "requesting"}
    /\ Timeouts \/ HungUp(Me) \/ Reply("ERROR", Me) \in net
    /\ UserGone

-----------------------------------------------------------------------------
(* One thread per mu3 *)

\* Under _mu3_lock; the lock is released before the count is compared.
HandleMu3(f) ==
    /\ f \in FramesTo(Me) /\ f.kind = "MU3"
    /\ batch' = Append(batch, [user |-> f.user, rec |-> f.rec])
    /\ counted' = counted \cup {Len(batch) + 1}
    /\ net' = net \ {f}
    /\ UNCHANGED <<listener, open, cur, stage, numDrones, ready, valid, invalid, sessions>>

\* Faults: one response too few, or one too many, sets the Event.
CompareLoosely(received) ==
    /\ received \in counted
    /\ ready' = (ready \/ received + 1 >= numDrones)
    /\ counted' = counted \ {received}
    /\ UNCHANGED <<netVars, cur, stage, numDrones, batch, valid, invalid, sessions>>

CompareStrictly(received) ==
    /\ received \in counted
    /\ ready' = (ready \/ received > numDrones)
    /\ counted' = counted \ {received}
    /\ UNCHANGED <<netVars, cur, stage, numDrones, batch, valid, invalid, sessions>>

CompareCount(received) ==
    /\ received \in counted
    /\ ready' = (ready \/ received >= numDrones)
    /\ counted' = counted \ {received}
    /\ UNCHANGED <<netVars, cur, stage, numDrones, batch, valid, invalid, sessions>>

-----------------------------------------------------------------------------
(* Batch verification *)

\* A response verifies iff it was made for this process's PIDu and X.  The
\* verdict on a batch is the one module BatchVerify computes.
Own(m) == m.user = cur
DidsOf(ms) == {m.rec : m \in ms}
Collected == {batch[i] : i \in DOMAIN batch}

\* The main thread goes on when the Event is set or after 30 s.
VerifyBatch ==
    /\ stage = "waiting"
    /\ ready \/ Timeouts
    /\ valid' = DidsOf({m \in Collected : Own(m)})
    /\ invalid' = DidsOf({m \in Collected : ~Own(m)})
    /\ stage' = "verified"
    /\ UNCHANGED <<netVars, cur, numDrones, batch, counted, ready, sessions>>

EstablishSessions ==
    /\ stage = "verified"
    /\ sessions' = valid
    /\ stage' = "done"
    /\ UNCHANGED <<netVars, cur, numDrones, batch, counted, ready, valid, invalid>>

\* Data without a session key is dropped; other data is decrypted, see
\* DataDecrypts in module Deployment.
HandleData(f) ==
    /\ f \in FramesTo(Me) /\ f.kind = "DATA"
    /\ net' = net \ {f}
    /\ UNCHANGED <<listener, open, userVars>>

\* main ends 5 s after authenticate, or the process is killed.
UserExits ==
    /\ stage = "done" \/ (Crashes /\ stage # "off")
    /\ UserGone

UserStep ==
    \/ RequestEnrollment \/ CompleteEnrollment \/ SendMu1
    \/ \E f \in net : GetBatchReply(f) \/ HandleMu3(f) \/ HandleData(f)
    \/ UserFails
    \/ \E received \in counted : CompareCount(received)
    \/ VerifyBatch \/ EstablishSessions

UserNext == StartUser \/ UserStep \/ UserExits
=============================================================================
