----------------------------- MODULE Enrollment ------------------------------
(***************************************************************************)
(* The classes behind the programs, with the values they exchange: Drone,  *)
(* User, ControlServer, Database and CRPStore.  Requests and replies are   *)
(* handled in any order, drones are replaced by new objects, the user      *)
(* enrols again.  The threads of the server share its tables without a     *)
(* lock: an enrollment writes one after the other, with the steps of other *)
(* threads in between, and an authentication reads what is there by then.  *)
(* Timestamps are always fresh here (Fanout has the clock).                *)
(***************************************************************************)
EXTENDS Naturals, Terms

CONSTANTS
    DroneIds,      \* IDd
    MaxDrones,     \* bound: Drone objects made
    MaxBegins,     \* bound: begin_enrollment calls of the user
    MaxReplies,    \* bound: enroll_user calls
    MaxKeys,       \* bound: mu1 built
    MaxForwards    \* bound: mu2 built for one drone

ASSUME BoundsAssumption ==
    {MaxDrones, MaxBegins, MaxReplies, MaxKeys, MaxForwards} \subseteq Nat

VARIABLES
    initialized,  \* ControlServer._initialized: s and Ppub exist
    drones,       \* db.drones: IDd to DroneRecord
    dids,         \* db.dids: DIDj to IDd
    crps,         \* CRPStore._crps: device, challenge and response
    users,        \* db.users: UID to UserRecord
    pids,         \* db.pids: PIDu to UID
    threads,      \* enroll_drone and enroll_user between their writes
    device,       \* the Drone object in use for each IDd
    user,         \* the User object
    net,          \* requests, replies, mu1, mu2 and mu3 under way
    mu1s,         \* every mu1 built
    sessions,     \* the user's session keys, and the mu3 they are from
    count,        \* numbers for fresh values
    stored,       \* history: the drones and objects whose record was written
    late          \* history: objects whose record was written after that of a
                  \* newer one of their drone

droneTables == <<drones, dids, crps>>
userTables == <<users, pids>>
dbVars == <<droneTables, userTables, threads>>
history == <<stored, late>>
vars == <<initialized, dbVars, device, user, net, mu1s, sessions, count, history>>

s == Atom("s", 0)
Password == Atom("password", 0)
Id(e) == Atom("id", e)

\* What is drawn by the n-th Drone object: its secret, and v and Cj of its
\* only enrollment.
Secret(n) == Atom("secret", n)
V(n) == Atom("v", n)
Challenge(n) == Atom("C", n)

NoDrone == [n |-> 0, did |-> Nothing, ksd |-> Nothing, kj |-> Nothing, Kj |-> Nothing,
            point |-> Nothing, pid |-> Nothing]
NoUser == [r |-> Nothing, salt |-> Nothing, uid |-> Nothing, pid |-> Nothing,
           gamma |-> Nothing, au |-> Nothing, du |-> Nothing,
           x |-> Nothing]

Init ==
    /\ initialized = FALSE
    /\ drones = <<>> /\ dids = <<>> /\ crps = {} /\ users = <<>> /\ pids = <<>> /\ threads = {}
    /\ device = [d \in DroneIds |-> NoDrone]
    /\ user = NoUser
    /\ net = {} /\ mu1s = {} /\ sessions = {}
    /\ count = [drone |-> 0, begin |-> 0, reply |-> 0, key |-> 0, forward |-> 0]
    /\ stored = {} /\ late = {}

\* A dict after an assignment to one of its keys.
Put(dict, key, value) ==
    [k \in DOMAIN dict \cup {key} |-> IF k = key THEN value ELSE dict[k]]

-----------------------------------------------------------------------------
(* The drone's side of its enrollment *)

\* simulate_puf.
PUF(challenge, secret) == H(<<challenge, secret>>)

\* A new Drone object, which begins its enrollment.
BeginDrone(d) ==
    /\ count.drone < MaxDrones
    /\ LET n == count.drone + 1 IN
          /\ count' = [count EXCEPT !.drone = n]
          /\ device' = [device EXCEPT ![d] = [NoDrone EXCEPT !.n = n]]
          /\ net' = net \cup {[kind |-> "enroll_drone", id |-> d, n |-> n]}
    /\ UNCHANGED <<initialized, dbVars, user, mu1s, sessions, history>>

\* store_credentials, unless the object has been given up.
StoreCredentials(m) ==
    /\ m \in net /\ m.kind = "credentials"
    /\ net' = net \ {m}
    /\ device' = IF device[m.id].n = m.n
                 THEN [device EXCEPT ![m.id] = [@ EXCEPT !.did = m.did, !.ksd = m.ksd,
                                                         !.kj = m.kj, !.Kj = Point(m.kj)]]
                 ELSE device
    /\ UNCHANGED <<initialized, dbVars, user, mu1s, sessions, count, history>>

-----------------------------------------------------------------------------
(* The control server's side *)

\* initialize, once.
Initialize ==
    /\ ~initialized
    /\ initialized' = TRUE
    /\ UNCHANGED <<dbVars, device, user, net, mu1s, sessions, count, history>>

\* The equations of enroll_drone.
DroneRecord(d, v, challenge, rest, secret) ==
    LET did == H(<<Id(d), v, s>>)
        ksd == H(<<Id(d), s, rest>>)
    IN  [did |-> did, ksd |-> ksd, kj |-> H(<<did, s>>),
         ej |-> Xor(H(<<ksd, challenge>>), rest),
         wj |-> H(<<did, ksd, rest>>), nj |-> H(<<Id(d), rest, s>>),
         challenge |-> challenge, rest |-> rest, secret |-> secret]

\* Fault: a record that is there already stays (setdefault).
AddDroneOnce(d, rec) ==
    drones' = IF d \in DOMAIN drones THEN drones ELSE Put(drones, d, rec)

\* add_drone inserts or replaces the record,
AddDrone(d, rec) == drones' = Put(drones, d, rec)

\* then indexes its DIDj;
AddDid(d, rec) == dids' = Put(dids, rec.did, d)

\* Fault: one pair for each device.
OnePair(d, rec) ==
    crps' = {c \in crps : c[1] # d} \cup {<<d, rec.challenge, rec.rest>>}

\* CRPStore.enroll comes last.
AddCrp(d, rec) == crps' = crps \cup {<<d, rec.challenge, rec.rest>>}

\* enroll_drone computes the record and stores it.
EnrollDrone(m) ==
    /\ initialized
    /\ m \in net /\ m.kind = "enroll_drone"
    /\ LET rest == PUF(Challenge(m.n), Secret(m.n))
           rec == DroneRecord(m.id, V(m.n), Challenge(m.n), rest, Secret(m.n))
       IN  /\ AddDrone(m.id, rec)
           /\ threads' = threads \cup
                 {[kind |-> "drone", at |-> "index", id |-> m.id, n |-> m.n, rec |-> rec]}
    /\ net' = net \ {m}
    /\ stored' = stored \cup {<<m.id, m.n>>}
    /\ late' = IF \E k \in m.n + 1 .. MaxDrones : <<m.id, k>> \in stored
               THEN late \cup {m.n} ELSE late
    /\ UNCHANGED <<initialized, dids, crps, userTables, device, user, mu1s, sessions, count>>

IndexDrone(t) ==
    /\ t \in threads /\ t.kind = "drone" /\ t.at = "index"
    /\ AddDid(t.id, t.rec)
    /\ threads' = (threads \ {t}) \cup {[t EXCEPT !.at = "pair"]}
    /\ UNCHANGED <<initialized, drones, crps, userTables, device, user, net, mu1s, sessions,
                   count, history>>

\* The last write, issue_drone_credentials and the reply.
StorePair(t) ==
    /\ t \in threads /\ t.kind = "drone" /\ t.at = "pair"
    /\ AddCrp(t.id, t.rec)
    /\ threads' = threads \ {t}
    /\ net' = net \cup {[kind |-> "credentials", id |-> t.id, n |-> t.n,
                         did |-> t.rec.did, ksd |-> t.rec.ksd, kj |-> t.rec.kj]}
    /\ UNCHANGED <<initialized, drones, dids, userTables, device, user, mu1s, sessions,
                   count, history>>

\* Fault: there is one record for the user, whatever its UID.
AddUserOnly(rec) == users' = [uid \in {rec.uid} |-> rec]

\* add_user inserts or replaces the record, then indexes its PIDu: the index of an
\* earlier PIDu stays.
AddUser(rec) == users' = Put(users, rec.uid, rec)
AddPid(rec) == pids' = Put(pids, rec.pid, rec.uid)

\* enroll_user, with a new r_s each time the request is made.
EnrollUser(m) ==
    /\ initialized /\ count.reply < MaxReplies
    /\ m \in net /\ m.kind = "enroll_user"
    /\ LET rs == count.reply + 1
           fid == H(<<Id("user"), s, Atom("rs", rs)>>)
           pid == H(<<m.uid, fid, s>>)
           rec == [uid |-> m.uid, pid |-> pid, fid |-> fid,
                   bu |-> Xor(H(<<m.uid, s>>), pid)]
       IN  /\ AddUser(rec)
           /\ threads' = threads \cup {[kind |-> "user", rec |-> rec]}
           /\ count' = [count EXCEPT !.reply = rs]
    /\ UNCHANGED <<initialized, droneTables, pids, device, user, net, mu1s, sessions, history>>

\* The last write and the reply.
IndexUser(t) ==
    /\ t \in threads /\ t.kind = "user"
    /\ AddPid(t.rec)
    /\ threads' = threads \ {t}
    /\ net' = net \cup {[kind |-> "user_reply", uid |-> t.rec.uid, pid |-> t.rec.pid,
                         bu |-> t.rec.bu]}
    /\ UNCHANGED <<initialized, droneTables, users, device, user, mu1s, sessions, count, history>>

-----------------------------------------------------------------------------
(* The user's side *)

\* begin_enrollment: r, salt and UID of an earlier enrollment are gone at once,
\* what it has stored is not.
BeginUser ==
    /\ count.begin < MaxBegins
    /\ LET k == count.begin + 1
           uid == H(<<Id("user"), Atom("r", k)>>)
       IN  /\ count' = [count EXCEPT !.begin = k]
           /\ user' = [user EXCEPT !.r = Atom("r", k), !.salt = Atom("salt", k), !.uid = uid]
           /\ net' = net \cup {[kind |-> "enroll_user", uid |-> uid]}
    /\ UNCHANGED <<initialized, dbVars, device, mu1s, sessions, history>>

SigmaBio(password) == H(<<password, user.salt>>)
Gamma(pid, bio) == H(<<pid, bio>>)
Delta(uid, bio, r) == H(<<uid, bio, r>>)

\* complete_enrollment, with a reply to the latest request: UserApp.enroll
\* waits for one reply on the connection of its request.
CompleteUser(m) ==
    /\ m \in net /\ m.kind = "user_reply" /\ m.uid = user.uid
    /\ LET bio == SigmaBio(Password)
           gamma == Gamma(m.pid, bio)
       IN  user' = [user EXCEPT !.pid = m.pid, !.gamma = gamma,
                                !.au = Xor(Xor(m.bu, m.pid), bio),
                                !.du = H(<<gamma, Delta(user.uid, bio, user.r)>>)]
    /\ net' = net \ {m}
    /\ UNCHANGED <<initialized, dbVars, device, mu1s, sessions, count, history>>

\* Fault: only what the password does not enter into is compared.
LoginPassesAlways(password) == user.au # Nothing

\* _local_login passes, and what it then returns as sigma_u.
LoginPasses(password) ==
    /\ user.au # Nothing
    /\ LET bio == SigmaBio(password)
       IN  user.du = H(<<Gamma(user.pid, bio), Delta(user.uid, bio, user.r)>>)
Login(password) == Xor(user.au, SigmaBio(password))

\* build_mu1.
BuildMu1 ==
    /\ count.key < MaxKeys
    /\ LoginPasses(Password)
    /\ LET k == count.key + 1
           X == Point(Atom("x", k))
           sigma == Login(Password)
           mu1 == [kind |-> "mu1", pid |-> user.pid, m1 |-> X,
                   m2 |-> Xor(H(<<sigma, user.pid>>), user.uid),
                   m3 |-> H(<<user.pid, user.uid, X, sigma>>)]
       IN  /\ count' = [count EXCEPT !.key = k]
           /\ user' = [user EXCEPT !.x = Atom("x", k)]
           /\ net' = net \cup {mu1}
           /\ mu1s' = mu1s \cup {mu1}
    /\ UNCHANGED <<initialized, dbVars, device, sessions, history>>

-----------------------------------------------------------------------------
(* Authentication *)

\* verify_mu1, with _recover_sigma_u.  The record is read after the index: what a
\* thread may have put in its place since has the same UID.
VerifyMu1(m) ==
    /\ m.pid \in DOMAIN pids /\ pids[m.pid] \in DOMAIN users
    /\ LET rec == users[pids[m.pid]]
           sigma == H(<<rec.uid, s>>)
       IN  /\ Xor(m.m2, H(<<sigma, m.pid>>)) = rec.uid
           /\ m.m3 = H(<<m.pid, rec.uid, m.m1, sigma>>)

\* build_mu2_batch: a mu2 for all_drones(), or for those in drone_ids; a name
\* without a record raises.  G2 is X and G3 is PIDu.
BuildMu2Batch(m, ids) ==
    /\ m \in net /\ m.kind = "mu1"
    /\ VerifyMu1(m)
    /\ ids # {} /\ ids \subseteq DOMAIN drones
    /\ count.forward < MaxForwards
    /\ count' = [count EXCEPT !.forward = @ + 1]
    /\ net' = net \cup {[kind |-> "mu2", id |-> d, g2 |-> m.m1, g3 |-> m.pid,
                         yj |-> H(<<drones[d].ksd, drones[d].did, m.pid, m.m1>>)] : d \in ids}
    /\ UNCHANGED <<initialized, dbVars, device, user, mu1s, sessions, history>>

\* handle_mu2 goes through: the drone has credentials, and Yj is right.
Accepts(o, m) ==
    /\ o.did # Nothing
    /\ m.yj = H(<<o.ksd, o.did, m.g3, m.g2>>)

\* Fault: the challenge leaves out who asked.
SchnorrAnonymous(Kj, pid, did, X) == H(<<Kj, did, X>>)

\* What a response is a signature of, besides its own R_j.
Schnorr(Kj, pid, did, X) == H(<<Kj, pid, did, X>>)

\* handle_mu2: respond, and stash PIDu and X for the session key.
HandleMu2(m) ==
    /\ m \in net /\ m.kind = "mu2"
    /\ LET o == device[m.id] IN
          IF Accepts(o, m)
          THEN /\ device' = [device EXCEPT ![m.id] = [@ EXCEPT !.point = m.g2, !.pid = m.g3]]
               /\ net' = (net \ {m}) \cup {[kind |-> "mu3", id |-> m.id, n |-> o.n, did |-> o.did,
                                            Kj |-> o.Kj, sig |-> Schnorr(o.Kj, m.g3, o.did, m.g2)]}
          ELSE /\ net' = net \ {m}
               /\ UNCHANGED device
    /\ UNCHANGED <<initialized, dbVars, user, mu1s, sessions, count, history>>

\* Drone.derive_session_key, from the stash and the credentials of now.
DroneKey(o) == H(<<o.pid, o.did, ScalarMult(o.kj, o.point), o.Kj>>)

\* User.derive_session_key.
UserKey(m) == H(<<user.pid, m.did, ScalarMult(user.x, m.Kj), m.Kj>>)

\* batch_verify and establish_sessions, for one response: see BatchVerify for
\* the rest of the batch.
VerifyMu3(m) ==
    /\ m \in net /\ m.kind = "mu3"
    /\ user.x # Nothing
    /\ net' = net \ {m}
    /\ sessions' = IF m.sig = Schnorr(m.Kj, user.pid, m.did, Point(user.x))
                   THEN sessions \cup {[id |-> m.id, n |-> m.n, X |-> Point(user.x), key |-> UserKey(m)]}
                   ELSE sessions
    /\ UNCHANGED <<initialized, dbVars, device, user, mu1s, count, history>>

Next ==
    \/ Initialize
    \/ \E d \in DroneIds : BeginDrone(d)
    \/ BeginUser \/ BuildMu1
    \/ \E m \in net :
          \/ EnrollDrone(m) \/ StoreCredentials(m)
          \/ EnrollUser(m) \/ CompleteUser(m)
          \/ \E ids \in SUBSET DroneIds : BuildMu2Batch(m, ids)
          \/ HandleMu2(m) \/ VerifyMu3(m)
    \/ \E t \in threads : IndexDrone(t) \/ StorePair(t) \/ IndexUser(t)

Spec == Init /\ [][Next]_vars

-----------------------------------------------------------------------------
\* Properties

\* The threads of an enrollment of drone d, or of the user as uid.
DroneAtWork(d) == \E t \in threads : t.kind = "drone" /\ t.id = d
UserAtWork(uid) == \E t \in threads : t.kind = "user" /\ t.rec.uid = uid

\* All tables know the record: its DIDj leads to the drone, and the CRP store, Ej
\* and the secret of the device all lead to the same PUF response (puf.py:212).
DroneKnown(d, rec) ==
    /\ rec.did \in DOMAIN dids /\ dids[rec.did] = d
    /\ <<d, rec.challenge, rec.rest>> \in crps
    /\ Xor(rec.ej, H(<<rec.ksd, rec.challenge>>)) = rec.rest
    /\ PUF(rec.challenge, rec.secret) = rec.rest

\* In whichever order the threads of concurrent enrollments write, the tables
\* agree on a drone and on a user as soon as no thread is at work for it; and at
\* all times an index entry leads to a record, and who has been answered is in
\* all tables.
TablesAgree ==
    /\ \A d \in DOMAIN drones : DroneAtWork(d) \/ DroneKnown(d, drones[d])
    /\ \A uid \in DOMAIN users :
          UserAtWork(uid) \/ (users[uid].pid \in DOMAIN pids /\ pids[users[uid].pid] = uid)
    /\ \A did \in DOMAIN dids : dids[did] \in DOMAIN drones
    /\ \A pid \in DOMAIN pids : pids[pid] \in DOMAIN users
    /\ \A d \in DroneIds : device[d].did # Nothing =>
          /\ device[d].did \in DOMAIN dids /\ dids[device[d].did] = d
          /\ <<d, Challenge(device[d].n), PUF(Challenge(device[d].n), Secret(device[d].n))>> \in crps
    /\ user.pid # Nothing => user.pid \in DOMAIN pids

\* The password, and no other, opens what the user has stored, from each
\* completed enrollment until the next one begins; what it yields is the
\* secret the server recomputes.
LoginIsSound ==
    /\ ~LoginPasses(Atom("password", 1))
    /\ LoginPasses(Password) => Login(Password) = H(<<user.uid, s>>)
    /\ LoginPasses(Password) <=> user.uid # Nothing /\ user.uid \in DOMAIN users
                                   /\ user.pid \in DOMAIN pids /\ pids[user.pid] = user.uid

\* Any mu1 ever built is one the server accepts, also when the user, or the
\* server on a repeated request, has enrolled again since.
Mu1Accepted == \A m \in mu1s : VerifyMu1(m)

\* server_app.py:117: a drone is shut out of the batches only while the server
\* holds the record of an earlier object, enrolled after the drone itself.
AcceptedUnlessOvertaken ==
    \A d \in DroneIds :
        device[d].did # Nothing =>
            \/ \A m \in mu1s : Accepts(device[d],
                    [g2 |-> m.m1, g3 |-> m.pid,
                     yj |-> H(<<drones[d].ksd, drones[d].did, m.pid, m.m1>>)])
            \/ \E n \in late : n < device[d].n /\ drones[d].challenge = Challenge(n)

\* A response the user has verified gives both the same key, whatever was
\* enrolled again between mu1, mu2, mu3 and the derivations.
KeysAgree ==
    \A k \in sessions :
        LET o == device[k.id] IN
        o.n = k.n /\ o.point = k.X => DroneKey(o) = k.key
=============================================================================
