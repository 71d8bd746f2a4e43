-------------------------- MODULE EnrollmentProofs ---------------------------
(***************************************************************************)
(* However often drones are replaced, the user enrols again and requests   *)
(* are repeated, and in whatever order they are handled: the server's      *)
(* tables agree, what the user has stored opens for the password alone,    *)
(* its mu1 is accepted, an enrolled drone takes part unless an older one   *)
(* overtook it, and both ends of a session derive the same key.            *)
(***************************************************************************)
EXTENDS Enrollment, TLAPS

USE DEF dbVars, droneTables, userTables, history

\* What the n-th Drone object is enrolled with as drone d.
Rest(n) == PUF(Challenge(n), Secret(n))
Record(d, n) == DroneRecord(d, V(n), Challenge(n), Rest(n), Secret(n))
Crp(d, n) == <<d, Challenge(n), Rest(n)>>
Did(d, n) == H(<<Id(d), V(n), s>>)
Ksd(d, n) == H(<<Id(d), s, Rest(n)>>)
Kj(d, n) == H(<<Did(d, n), s>>)

\* A Drone object before and after store_credentials.
Unenrolled(n) == [NoDrone EXCEPT !.n = n]
Enrolled(d, n, point, pid) ==
    [n |-> n, did |-> Did(d, n), ksd |-> Ksd(d, n), kj |-> Kj(d, n), Kj |-> Point(Kj(d, n)),
     point |-> point, pid |-> pid]

\* The object is in all tables, and the thread of its enrollment between writes.
Done(d, n) == <<d, n>> \in stored /\ Did(d, n) \in DOMAIN dids /\ Crp(d, n) \in crps
Writing(at, d, n) == [kind |-> "drone", at |-> at, id |-> d, n |-> n, rec |-> Record(d, n)]

Numbered ==
    /\ count = [drone |-> count.drone, begin |-> count.begin, reply |-> count.reply,
                key |-> count.key, forward |-> count.forward]
    /\ count.drone \in 0 .. MaxDrones /\ count.begin \in Nat /\ count.reply \in Nat
    /\ count.key \in Nat

\* Drones of the device table are new, or have what the server gave them.
Objects ==
    /\ device = [d \in DroneIds |-> device[d]]
    /\ \A d \in DroneIds :
          LET o == device[d] IN
          /\ o.n \in 0 .. count.drone
          /\ \/ o = Unenrolled(o.n)
             \/ o = Enrolled(d, o.n, o.point, o.pid) /\ Done(d, o.n)

\* Requests and credentials under way belong to an object that was begun.
DroneFrames ==
    \A m \in net :
        /\ m.kind = "enroll_drone" =>
              /\ m.id \in DroneIds /\ m.n \in 1 .. count.drone /\ m.n <= device[m.id].n
        /\ m.kind = "credentials" =>
              /\ m.id \in DroneIds /\ m.n \in 1 .. count.drone
              /\ m.did = Did(m.id, m.n) /\ m.ksd = Ksd(m.id, m.n) /\ m.kj = Kj(m.id, m.n)
              /\ Done(m.id, m.n)

\* The record of a drone is that of one of its objects, the newest enrolled or
\* a late one.
Records ==
    \A d \in DOMAIN drones :
        \E n \in 1 .. count.drone :
            /\ drones[d] = Record(d, n) /\ <<d, n>> \in stored /\ n <= device[d].n
            /\ d \in DroneIds
            /\ (\E k \in n + 1 .. MaxDrones : <<d, k>> \in stored) => n \in late

\* An enrollment has written to all tables, or its thread is still at work.
Stored ==
    \A d, n : <<d, n>> \in stored =>
        /\ d \in DOMAIN drones
        /\ Done(d, n) \/ \E t \in threads : t.kind = "drone" /\ t.id = d /\ t.n = n

Writers ==
    \A t \in threads : t.kind = "drone" =>
        /\ t = Writing(t.at, t.id, t.n) /\ t.id \in DroneIds /\ t.n \in 1 .. count.drone
        /\ <<t.id, t.n>> \in stored
        /\ t.at = "index" \/ Did(t.id, t.n) \in DOMAIN dids

\* An entry of the index leads from an object's DIDj to its drone.
Index == \A did \in DOMAIN dids :
            dids[did] \in DOMAIN drones /\ \E n \in 1 .. count.drone : did = Did(dids[did], n)

DroneInv == Numbered /\ Objects /\ DroneFrames /\ Records /\ Stored /\ Writers /\ Index
-----------------------------------------------------------------------------
\* What enrollment k of the user computes, and the server on the rs-th reply.
Uid(k) == H(<<Id("user"), Atom("r", k)>>)
Bio(k) == H(<<Password, Atom("salt", k)>>)
Sigma(uid) == H(<<uid, s>>)
Fid(rs) == H(<<Id("user"), s, Atom("rs", rs)>>)
Pid(uid, rs) == H(<<uid, Fid(rs), s>>)
Du(k, pid) == H(<<Gamma(pid, Bio(k)), Delta(Uid(k), Bio(k), Atom("r", k))>>)

\* The thread of an enroll_user between its writes.
Replying(rec) == [kind |-> "user", rec |-> rec]

\* Every PIDu belongs to one UID, and neither is forgotten.
Accounts ==
    /\ \A pid \in DOMAIN pids :
          /\ pids[pid] \in DOMAIN users
          /\ \E rs \in 1 .. count.reply : pid = Pid(pids[pid], rs)
    /\ \A uid \in DOMAIN users :
          /\ users[uid].uid = uid
          /\ users[uid].pid \in DOMAIN pids \/ Replying(users[uid]) \in threads
          /\ \E rs \in 1 .. count.reply : users[uid].pid = Pid(uid, rs)

\* What a thread has still to index is the record of a UID that is known.
Repliers ==
    \A t \in threads : t.kind = "user" =>
        /\ t = Replying(t.rec) /\ t.rec.uid \in DOMAIN users
        /\ \E k \in 1 .. count.begin : t.rec.uid = Uid(k)
        /\ \E rs \in 1 .. count.reply : t.rec.pid = Pid(t.rec.uid, rs)
        /\ t.rec.bu = Xor(Sigma(t.rec.uid), t.rec.pid)

UserFrames ==
    \A m \in net :
        /\ m.kind = "enroll_user" => \E k \in 1 .. count.begin : m.uid = Uid(k)
        /\ m.kind = "user_reply" =>
              /\ \E k \in 1 .. count.begin : m.uid = Uid(k)
              /\ m.pid \in DOMAIN pids /\ pids[m.pid] = m.uid
              /\ m.bu = Xor(Sigma(m.uid), m.pid)

\* The user has begun the latest enrollment, and has stored what it got from
\* the latest one it completed.
Wallet ==
    /\ user = [r |-> user.r, salt |-> user.salt, uid |-> user.uid, pid |-> user.pid,
               gamma |-> user.gamma, au |-> user.au, du |-> user.du, x |-> user.x]
    /\ IF count.begin = 0
       THEN user.uid = Nothing
       ELSE /\ user.r = Atom("r", count.begin) /\ user.salt = Atom("salt", count.begin)
            /\ user.uid = Uid(count.begin)
    /\ \/ user.pid = Nothing /\ user.au = Nothing
       \/ \E k \in 1 .. count.begin :
              /\ user.pid \in DOMAIN pids /\ pids[user.pid] = Uid(k)
              /\ user.au = Xor(Sigma(Uid(k)), Bio(k)) /\ user.du = Du(k, user.pid)

UserInv == Numbered /\ Accounts /\ Repliers /\ UserFrames /\ Wallet /\ Mu1Accepted
-----------------------------------------------------------------------------
\* The x of a mu1 is drawn for it alone.
Keys ==
    /\ \A m \in mu1s : \E k \in 1 .. count.key : m.m1 = Point(Atom("x", k))
    /\ \A m, k \in mu1s : m.m1 = k.m1 => m.pid = k.pid
    /\ user.x = Nothing \/ \E k \in 1 .. count.key : user.x = Atom("x", k)

\* What a drone has stashed, and every mu2 and mu3, goes back to a mu1.
Stashed ==
    \A d \in DroneIds :
        device[d].point # Nothing =>
            /\ device[d].did # Nothing
            /\ \E m \in mu1s : device[d].point = m.m1 /\ device[d].pid = m.pid

BatchFrames ==
    \A m \in net :
        /\ m.kind = "mu1" => m \in mu1s
        /\ m.kind = "mu2" =>
              m.id \in DroneIds /\ \E k \in mu1s : m.g2 = k.m1 /\ m.g3 = k.pid
        /\ m.kind = "mu3" =>
              /\ m.id \in DroneIds /\ m.did = Did(m.id, m.n) /\ m.Kj = Point(Kj(m.id, m.n))
              /\ \E k \in mu1s : m.sig = Schnorr(m.Kj, k.pid, m.did, k.m1)

\* A session key is made from the x and PIDu of one mu1.
Sessions ==
    \A e \in sessions :
        e.id \in DroneIds /\
        \E m \in mu1s, k \in 1 .. count.key :
            LET Kj_ == Point(Kj(e.id, e.n)) IN
            /\ e.X = Point(Atom("x", k)) /\ m.m1 = e.X
            /\ e.key = H(<<m.pid, Did(e.id, e.n), ScalarMult(Atom("x", k), Kj_), Kj_>>)

SessionInv == Keys /\ Stashed /\ BatchFrames /\ Sessions
-----------------------------------------------------------------------------
(* The terms *)

LEMMA HashIsInjective ==
    ASSUME NEW a, NEW b, H(a) = H(b)
    PROVE  a = b
  <1>1. <<"H", a>> = <<"H", b>>
    BY DEF H
  <1> QED
    BY <1>1

LEMMA AtomIsInjective ==
    ASSUME NEW a, NEW b, NEW i, NEW k, Atom(a, i) = Atom(b, k)
    PROVE  a = b /\ i = k
  <1>1. <<a, i>> = <<b, k>>
    BY DEF Atom
  <1> QED
    BY <1>1

LEMMA TermsAreNotNothing ==
    ASSUME NEW a, NEW i
    PROVE  H(a) # Nothing /\ Atom(a, i) # Nothing /\ Point(a) # Nothing
  BY DEF H, Atom, Point, Nothing

LEMMA PointIsInjective ==
    ASSUME NEW a, NEW b, Point(a) = Point(b)
    PROVE  a = b
  <1>1. <<"Q", {a}>> = <<"Q", {b}>>
    BY DEF Point
  <1>2. {a} = {b}
    BY <1>1
  <1> QED
    BY <1>2

LEMMA XorCancels ==
    ASSUME NEW a, NEW b
    PROVE  Xor(Xor(a, b), a) = b /\ Xor(Xor(a, b), b) = a
  BY DEF Xor

\* Each end multiplies the other one's point by its own scalar.
LEMMA DiffieHellman ==
    ASSUME NEW a, NEW b
    PROVE  ScalarMult(a, Point(b)) = ScalarMult(b, Point(a))
  <1>1. ScalarMult(a, Point(b)) = {<<"Q", {a} \cup {b}>>}
    BY DEF ScalarMult, Point
  <1>2. ScalarMult(b, Point(a)) = {<<"Q", {b} \cup {a}>>}
    BY DEF ScalarMult, Point
  <1>3. {a} \cup {b} = {b} \cup {a}
    OBVIOUS
  <1> QED
    BY <1>1, <1>2, <1>3

LEMMA DidsDiffer ==
    ASSUME NEW d, NEW e, NEW n, NEW k, Did(d, n) = Did(e, k)
    PROVE  d = e
  <1>1. <<Id(d), V(n), s>> = <<Id(e), V(k), s>>
    BY HashIsInjective DEF Did
  <1>2. Id(d) = Id(e)
    BY <1>1
  <1> QED
    BY <1>2, AtomIsInjective DEF Id

LEMMA RecordIs ==
    ASSUME NEW d, NEW n
    PROVE  /\ Record(d, n).did = Did(d, n) /\ Record(d, n).ksd = Ksd(d, n)
           /\ Record(d, n).kj = Kj(d, n) /\ Record(d, n).rest = Rest(n)
           /\ Record(d, n).ej = Xor(H(<<Ksd(d, n), Challenge(n)>>), Rest(n))
           /\ Record(d, n).challenge = Challenge(n) /\ Record(d, n).secret = Secret(n)
  BY DEF Record, DroneRecord, Did, Ksd, Kj

LEMMA ObjectIs ==
    ASSUME NEW d, NEW n, NEW point, NEW pid
    PROVE  /\ Unenrolled(n).n = n /\ Unenrolled(n).did = Nothing
           /\ Unenrolled(n).point = Nothing
           /\ Enrolled(d, n, point, pid).n = n /\ Enrolled(d, n, point, pid).did = Did(d, n)
           /\ Enrolled(d, n, point, pid).did # Nothing
           /\ Enrolled(d, n, point, pid).kj = Kj(d, n)
           /\ Enrolled(d, n, point, pid).Kj = Point(Kj(d, n))
           /\ Enrolled(d, n, point, pid).point = point /\ Enrolled(d, n, point, pid).pid = pid
  BY TermsAreNotNothing DEF Unenrolled, NoDrone, Enrolled, Did

-----------------------------------------------------------------------------
(* The drones and the server's tables about them *)

LEMMA CredentialsAre ==
    ASSUME DroneInv, NEW d \in DroneIds, device[d].did # Nothing
    PROVE  /\ device[d] = Enrolled(d, device[d].n, device[d].point, device[d].pid)
           /\ device[d].did = Did(d, device[d].n) /\ device[d].kj = Kj(d, device[d].n)
           /\ device[d].Kj = Point(Kj(d, device[d].n)) /\ Done(d, device[d].n)
  <1>1. /\ device[d] = Enrolled(d, device[d].n, device[d].point, device[d].pid)
        /\ Done(d, device[d].n)
    BY ObjectIs DEF DroneInv, Objects
  <1> DEFINE o == Enrolled(d, device[d].n, device[d].point, device[d].pid)
  <1>2. /\ o.did = Did(d, device[d].n) /\ o.kj = Kj(d, device[d].n)
        /\ o.Kj = Point(Kj(d, device[d].n))
    BY ObjectIs
  <1> HIDE DEF o
  <1>3. device[d] = o
    BY <1>1 DEF o
  <1> QED
    BY <1>1, <1>2, <1>3

LEMMA NumberedStep ==
    ASSUME Numbered, [Next]_vars
    PROVE  Numbered'
  <1>1. MaxDrones \in Nat
    BY BoundsAssumption
  <1>2. CASE UNCHANGED count
    BY <1>2 DEF Numbered
  <1>3. ASSUME NEW d \in DroneIds, BeginDrone(d) PROVE Numbered'
    BY <1>1, <1>3 DEF BeginDrone, Numbered
  <1>4. CASE BeginUser
    BY <1>4 DEF BeginUser, Numbered
  <1>5. CASE BuildMu1
    BY <1>5 DEF BuildMu1, Numbered
  <1>6. ASSUME NEW m, EnrollUser(m) PROVE Numbered'
    BY <1>6 DEF EnrollUser, Numbered
  <1>7. ASSUME NEW m, NEW ids, BuildMu2Batch(m, ids) PROVE Numbered'
    BY <1>7 DEF BuildMu2Batch, Numbered
  <1> QED
    BY <1>2, <1>3, <1>4, <1>5, <1>6, <1>7
    DEF Next, vars, Initialize, EnrollDrone, IndexDrone, StorePair, IndexUser, StoreCredentials,
        CompleteUser, HandleMu2, VerifyMu3

\* Steps that leave the drones alone, but for the frames of others.
LEMMA DroneInvStable ==
    ASSUME DroneInv, Numbered', count'.drone = count.drone,
           UNCHANGED <<device, drones, dids, crps, stored, late>>,
           \A t \in threads' : t \in threads \/ t.kind = "user",
           \A t \in threads : t \in threads' \/ t.kind = "user",
           \A m \in net' : m \in net \/ m.kind \notin {"enroll_drone", "credentials"}
    PROVE  DroneInv'
  <1>1. Objects'
    BY DEF DroneInv, Objects, Done
  <1>2. DroneFrames'
    BY DEF DroneInv, DroneFrames, Done
  <1>3. Records'
    BY DEF DroneInv, Records
  <1>4. Stored'
    BY DEF DroneInv, Stored, Done
  <1>5. Writers'
    BY DEF DroneInv, Writers
  <1>6. Index'
    BY DEF DroneInv, Index
  <1> QED
    BY <1>1, <1>2, <1>3, <1>4, <1>5, <1>6 DEF DroneInv

\* handle_mu2 changes the stash of a drone that has credentials.
LEMMA StashKeepsDroneInv ==
    ASSUME DroneInv, Numbered', UNCHANGED <<count, drones, dids, crps, threads, stored, late>>,
           \A m \in net' : m \in net \/ m.kind \notin {"enroll_drone", "credentials"},
           NEW d \in DroneIds, NEW point, NEW pid, device[d].did # Nothing,
           device' = [device EXCEPT ![d] = [@ EXCEPT !.point = point, !.pid = pid]]
    PROVE  DroneInv'
  <1>1. device[d] = Enrolled(d, device[d].n, device[d].point, device[d].pid)
    BY ObjectIs DEF DroneInv, Objects
  <1>2. device'[d] = Enrolled(d, device[d].n, point, pid)
    <2>1. device'[d] = [device[d] EXCEPT !.point = point, !.pid = pid]
      BY DEF DroneInv, Objects
    <2> DEFINE o == Enrolled(d, device[d].n, device[d].point, device[d].pid)
    <2>2. [o EXCEPT !.point = point] = Enrolled(d, device[d].n, point, device[d].pid)
      BY DEF Enrolled
    <2> DEFINE w == Enrolled(d, device[d].n, point, device[d].pid)
    <2>3. [w EXCEPT !.pid = pid] = Enrolled(d, device[d].n, point, pid)
      BY DEF Enrolled
    <2> HIDE DEF o, w
    <2>4. [o EXCEPT !.point = point, !.pid = pid] = [[o EXCEPT !.point = point] EXCEPT !.pid = pid]
      OBVIOUS
    <2>5. device[d] = o /\ [o EXCEPT !.point = point] = w
      BY <1>1, <2>2 DEF o, w
    <2> QED
      BY <2>1, <2>3, <2>4, <2>5
  <1>3. /\ device' = [e \in DroneIds |-> device'[e]]
        /\ \A e \in DroneIds : e # d => device'[e] = device[e]
    BY DEF DroneInv, Objects
  <1>4. \A e \in DroneIds : device'[e].n = device[e].n
    BY <1>2, <1>3 DEF Enrolled
  <1>5. Objects'
    <2>1. device'[d].n = device[d].n /\ device'[d].point = point /\ device'[d].pid = pid
      BY <1>2, ObjectIs
    <2>2. device[d].n \in 0 .. count.drone /\ Done(d, device[d].n)
      BY CredentialsAre DEF DroneInv, Objects
    <2>3. \A e, n : Done(e, n)' <=> Done(e, n)
      BY DEF Done
    <2> QED
      BY <1>2, <1>3, <2>1, <2>2, <2>3 DEF DroneInv, Objects
  <1>6. DroneFrames'
    BY <1>4 DEF DroneInv, DroneFrames, Done
  <1>7. Records'
    BY <1>4 DEF DroneInv, Records
  <1>8. Stored' /\ Writers' /\ Index'
    BY DEF DroneInv, Stored, Writers, Index, Done
  <1> QED
    BY <1>5, <1>6, <1>7, <1>8 DEF DroneInv

LEMMA BeginDroneStep ==
    ASSUME DroneInv, Numbered', NEW d \in DroneIds, BeginDrone(d)
    PROVE  DroneInv'
  <1> DEFINE n == count.drone + 1
  <1>1. /\ count'.drone = n /\ count.drone \in Nat /\ MaxDrones \in Nat
        /\ UNCHANGED <<drones, dids, crps, threads, stored, late>>
        /\ net' = net \cup {[kind |-> "enroll_drone", id |-> d, n |-> n]}
        /\ device' = [device EXCEPT ![d] = Unenrolled(n)]
    BY BoundsAssumption DEF BeginDrone, DroneInv, Numbered, Unenrolled
  <1>2. /\ device' = [e \in DroneIds |-> device'[e]]
        /\ \A e \in DroneIds : e # d => device'[e] = device[e]
        /\ device'[d] = Unenrolled(n) /\ device'[d].n = n
    BY <1>1, ObjectIs DEF DroneInv, Objects
  <1>3. \A e \in DroneIds :
            device[e].n \in 0 .. count.drone /\ device'[e].n \in 0 .. n /\ device[e].n <= device'[e].n
    BY <1>1, <1>2 DEF DroneInv, Objects
  <1>4. Objects'
    BY <1>1, <1>2, <1>3 DEF DroneInv, Objects, Done
  <1>5. DroneFrames'
    <2> SUFFICES ASSUME NEW m \in net'
                 PROVE  (/\ m.kind = "enroll_drone" =>
                             /\ m.id \in DroneIds /\ m.n \in 1 .. n /\ m.n <= device'[m.id].n
                         /\ m.kind = "credentials" =>
                             /\ m.id \in DroneIds /\ m.n \in 1 .. n
                             /\ m.did = Did(m.id, m.n) /\ m.ksd = Ksd(m.id, m.n)
                             /\ m.kj = Kj(m.id, m.n) /\ Done(m.id, m.n))
      BY <1>1 DEF DroneFrames, Done
    <2>1. CASE m \in net
      <3>1. m.kind = "enroll_drone" =>
                m.id \in DroneIds /\ m.n \in 1 .. count.drone /\ m.n <= device[m.id].n
        BY <2>1 DEF DroneInv, DroneFrames
      <3>2. m.kind = "enroll_drone" => m.n <= device'[m.id].n
        BY <1>1, <1>3, <3>1
      <3> QED
        BY <1>1, <2>1, <3>1, <3>2 DEF DroneInv, DroneFrames
    <2>2. CASE m = [kind |-> "enroll_drone", id |-> d, n |-> n]
      BY <1>1, <1>2, <2>2
    <2> QED
      BY <1>1, <2>1, <2>2
  <1>6. Records'
    <2>1. ASSUME NEW e \in DOMAIN drones
          PROVE  \E k \in 1 .. n :
                    /\ drones[e] = Record(e, k) /\ <<e, k>> \in stored /\ k <= device'[e].n
                    /\ e \in DroneIds
                    /\ (\E l \in k + 1 .. MaxDrones : <<e, l>> \in stored) => k \in late
      <3>1. PICK k \in 1 .. count.drone :
                    /\ drones[e] = Record(e, k) /\ <<e, k>> \in stored /\ k <= device[e].n
                    /\ e \in DroneIds
                    /\ (\E l \in k + 1 .. MaxDrones : <<e, l>> \in stored) => k \in late
        BY <2>1 DEF DroneInv, Records
      <3>2. k \in 1 .. n /\ k <= device'[e].n
        BY <1>1, <1>2, <1>3, <3>1
      <3> QED
        BY <3>1, <3>2
    <2> QED
      BY <1>1, <2>1 DEF Records
  <1>7. Stored' /\ Writers' /\ Index'
    BY <1>1 DEF DroneInv, Stored, Writers, Index, Done
  <1> QED
    BY <1>4, <1>5, <1>6, <1>7 DEF DroneInv

\* store_credentials gives an object what EnrollDrone made for it.
LEMMA StoreCredentialsEffect ==
    ASSUME DroneInv, NEW m, StoreCredentials(m), device' # device
    PROVE  /\ m.id \in DroneIds /\ m.n \in 1 .. count.drone /\ device[m.id].n = m.n
           /\ Done(m.id, m.n)
           /\ device' = [e \in DroneIds |-> device'[e]]
           /\ \A e \in DroneIds : e # m.id => device'[e] = device[e]
           /\ device'[m.id] = Enrolled(m.id, m.n, device[m.id].point, device[m.id].pid)
  <1> DEFINE d == m.id
             o == device[d]
  <1>1. m \in net /\ m.kind = "credentials" /\ o.n = m.n
    BY DEF StoreCredentials
  <1>2. /\ d \in DroneIds /\ m.n \in 1 .. count.drone
        /\ m.did = Did(d, m.n) /\ m.ksd = Ksd(d, m.n) /\ m.kj = Kj(d, m.n)
        /\ Done(d, m.n)
    BY <1>1 DEF DroneInv, DroneFrames
  <1>3. device' = [device EXCEPT ![d] = [o EXCEPT !.did = m.did, !.ksd = m.ksd,
                                                  !.kj = m.kj, !.Kj = Point(m.kj)]]
    BY <1>1 DEF StoreCredentials
  <1>4. /\ device' = [e \in DroneIds |-> device'[e]]
        /\ \A e \in DroneIds : e # d => device'[e] = device[e]
        /\ device'[d] = [o EXCEPT !.did = m.did, !.ksd = m.ksd,
                                  !.kj = m.kj, !.Kj = Point(m.kj)]
    BY <1>2, <1>3 DEF DroneInv, Objects
  <1>5. o = Unenrolled(o.n) \/ o = Enrolled(d, o.n, o.point, o.pid)
    BY <1>2 DEF DroneInv, Objects
  <1>6. o = [n |-> o.n, did |-> o.did, ksd |-> o.ksd, kj |-> o.kj, Kj |-> o.Kj,
             point |-> o.point, pid |-> o.pid]
    <2>1. CASE o = Unenrolled(o.n)
      BY <2>1 DEF Unenrolled, NoDrone
    <2>2. CASE o = Enrolled(d, o.n, o.point, o.pid)
      BY <2>2 DEF Enrolled
    <2> QED
      BY <1>5, <2>1, <2>2
  <1>7. device'[d] = Enrolled(d, m.n, o.point, o.pid)
    <2> DEFINE o1 == [o EXCEPT !.did = m.did]
               o2 == [o1 EXCEPT !.ksd = m.ksd]
               o3 == [o2 EXCEPT !.kj = m.kj]
               o4 == [o3 EXCEPT !.Kj = Point(m.kj)]
    <2> HIDE DEF o, d
    <2>1. o1 = [n |-> o.n, did |-> m.did, ksd |-> o.ksd, kj |-> o.kj, Kj |-> o.Kj,
                point |-> o.point, pid |-> o.pid]
      BY <1>6
    <2> HIDE DEF o1
    <2>2. o2 = [n |-> o.n, did |-> m.did, ksd |-> m.ksd, kj |-> o.kj, Kj |-> o.Kj,
                point |-> o.point, pid |-> o.pid]
      BY <2>1
    <2> HIDE DEF o2
    <2>3. o3 = [n |-> o.n, did |-> m.did, ksd |-> m.ksd, kj |-> m.kj, Kj |-> o.Kj,
                point |-> o.point, pid |-> o.pid]
      BY <2>2
    <2> HIDE DEF o3
    <2>4. o4 = [n |-> o.n, did |-> m.did, ksd |-> m.ksd, kj |-> m.kj, Kj |-> Point(m.kj),
                point |-> o.point, pid |-> o.pid]
      BY <2>3
    <2>5. [o EXCEPT !.did = m.did, !.ksd = m.ksd, !.kj = m.kj, !.Kj = Point(m.kj)] = o4
      BY DEF o1, o2, o3
    <2> QED
      BY <1>1, <1>2, <1>4, <2>4, <2>5 DEF Enrolled
  <1> QED
    BY <1>1, <1>2, <1>4, <1>7

LEMMA StoreCredentialsStep ==
    ASSUME DroneInv, Numbered', NEW m, StoreCredentials(m)
    PROVE  DroneInv'
  <1>1. UNCHANGED <<count, drones, dids, crps, threads, stored, late>> /\ net' \subseteq net
    BY DEF StoreCredentials
  <1>2. CASE UNCHANGED device
    BY <1>1, <1>2, DroneInvStable
  <1>3. CASE device' # device
    <2> DEFINE d == m.id
               o == device[d]
    <2>1. /\ d \in DroneIds /\ m.n \in 1 .. count.drone /\ o.n = m.n
          /\ Done(d, m.n)
          /\ device' = [e \in DroneIds |-> device'[e]]
          /\ \A e \in DroneIds : e # d => device'[e] = device[e]
          /\ device'[d] = Enrolled(d, m.n, o.point, o.pid)
      BY <1>3, StoreCredentialsEffect
    <2>2. /\ device'[d].n = m.n /\ device'[d].point = o.point /\ device'[d].pid = o.pid
          /\ device'[d] = Enrolled(d, device'[d].n, device'[d].point, device'[d].pid)
      BY <2>1, ObjectIs
    <2>3. \A e \in DroneIds : device'[e].n = device[e].n
      BY <2>1, <2>2
    <2>4. Objects'
      <3>1. m.n \in 0 .. count.drone
        BY <2>1
      <3> QED
        BY <1>1, <2>1, <2>2, <3>1 DEF DroneInv, Objects, Done
    <2>5. DroneFrames'
      BY <1>1, <2>3 DEF DroneInv, DroneFrames, Done
    <2>6. Records'
      BY <1>1, <2>3 DEF DroneInv, Records
    <2>7. Stored' /\ Writers' /\ Index'
      BY <1>1 DEF DroneInv, Stored, Writers, Index, Done
    <2> QED
      BY <2>4, <2>5, <2>6, <2>7 DEF DroneInv
  <1> QED
    BY <1>2, <1>3

LEMMA EnrollDroneStep ==
    ASSUME DroneInv, Numbered', NEW m, EnrollDrone(m)
    PROVE  DroneInv'
  <1> DEFINE d == m.id
             n == m.n
             rec == Record(d, n)
             t0 == Writing("index", d, n)
  <1>1. /\ m \in net /\ d \in DroneIds /\ n \in 1 .. count.drone /\ n <= device[d].n
        /\ UNCHANGED <<device, count, dids, crps>> /\ count.drone \in Nat /\ MaxDrones \in Nat
        /\ net' = net \ {m}
    BY BoundsAssumption DEF EnrollDrone, DroneInv, DroneFrames, Numbered
  <1>2. /\ drones' = Put(drones, d, rec) /\ threads' = threads \cup {t0}
        /\ stored' = stored \cup {<<d, n>>}
        /\ (\E k \in n + 1 .. MaxDrones : <<d, k>> \in stored) => n \in late'
        /\ late \subseteq late'
    BY DEF EnrollDrone, AddDrone, Record, Rest, Writing
  <1>3. /\ DOMAIN drones' = DOMAIN drones \cup {d} /\ drones'[d] = rec
        /\ \A e \in DOMAIN drones : e # d => drones'[e] = drones[e]
    <2> HIDE DEF d, rec
    <2> QED
      BY <1>2 DEF Put
  <1>4. /\ t0.kind = "drone" /\ t0.id = d /\ t0.n = n /\ t0.at = "index"
        /\ t0 = Writing(t0.at, t0.id, t0.n)
    BY DEF Writing
  <1> HIDE DEF t0
  <1>5. Objects'
    BY <1>1, <1>2 DEF DroneInv, Objects, Done
  <1>6. DroneFrames'
    BY <1>1, <1>2 DEF DroneInv, DroneFrames, Done
  <1>7. Records'
    <2>1. ASSUME NEW e \in DOMAIN drones'
          PROVE  \E k \in 1 .. count.drone :
                    /\ drones'[e] = Record(e, k) /\ <<e, k>> \in stored' /\ k <= device[e].n
                    /\ e \in DroneIds
                    /\ (\E l \in k + 1 .. MaxDrones : <<e, l>> \in stored') => k \in late'
      <3>1. CASE e = d
        <4>1. ASSUME NEW l \in n + 1 .. MaxDrones, <<d, l>> \in stored' PROVE <<d, l>> \in stored
          <5>1. l # n
            BY <1>1, <4>1
          <5> QED
            BY <1>2, <4>1, <5>1
        <4> QED
          BY <1>1, <1>2, <1>3, <3>1, <4>1
      <3>2. CASE e # d
        <4>1. PICK k \in 1 .. count.drone :
                    /\ drones[e] = Record(e, k) /\ <<e, k>> \in stored /\ k <= device[e].n
                    /\ e \in DroneIds
                    /\ (\E l \in k + 1 .. MaxDrones : <<e, l>> \in stored) => k \in late
          BY <1>3, <3>2 DEF DroneInv, Records
        <4>2. \A l : <<e, l>> \in stored' => <<e, l>> \in stored
          BY <1>2, <3>2
        <4> QED
          BY <1>2, <1>3, <3>2, <4>1, <4>2
      <3> QED
        BY <3>1, <3>2
    <2> QED
      BY <1>1, <2>1 DEF Records
  <1>8. Stored'
    <2>1. ASSUME NEW e, NEW k, <<e, k>> \in stored'
          PROVE  /\ e \in DOMAIN drones'
                 /\ Done(e, k)' \/ \E t \in threads' : t.kind = "drone" /\ t.id = e /\ t.n = k
      <3>1. CASE <<e, k>> \in stored
        BY <1>1, <1>2, <1>3, <3>1 DEF DroneInv, Stored, Done
      <3>2. CASE e = d /\ k = n
        BY <1>2, <1>3, <1>4, <3>2
      <3> QED
        BY <1>2, <2>1, <3>1, <3>2
    <2> QED
      BY <2>1 DEF Stored
  <1>9. Writers'
    BY <1>1, <1>2, <1>4 DEF DroneInv, Writers
  <1>10. Index'
    BY <1>1, <1>3 DEF DroneInv, Index
  <1> QED
    BY <1>5, <1>6, <1>7, <1>8, <1>9, <1>10 DEF DroneInv

\* add_did, with the record in place already.
LEMMA IndexDroneStep ==
    ASSUME DroneInv, Numbered', NEW t, IndexDrone(t)
    PROVE  DroneInv'
  <1> DEFINE d == t.id
             n == t.n
             t0 == Writing("pair", d, n)
  <1>1. /\ t \in threads /\ t.kind = "drone" /\ t.at = "index" /\ t = Writing("index", d, n)
        /\ d \in DroneIds /\ n \in 1 .. count.drone /\ <<d, n>> \in stored
        /\ UNCHANGED <<device, count, drones, crps, net, stored, late>>
    BY DEF IndexDrone, DroneInv, Writers
  <1>2. dids' = Put(dids, Did(d, n), d) /\ threads' = (threads \ {t}) \cup {t0}
    <2>1. t.rec.did = Did(d, n)
      <3> DEFINE rec == Record(d, n)
      <3>1. rec.did = Did(d, n)
        BY RecordIs
      <3>2. t.rec = rec
        BY <1>1 DEF Writing
      <3> HIDE DEF rec
      <3> QED
        BY <3>1, <3>2
    <2>2. [t EXCEPT !.at = "pair"] = t0
      <3> HIDE DEF d, n
      <3> QED
        BY <1>1 DEF Writing
    <2> QED
      BY <2>1, <2>2 DEF IndexDrone, AddDid
  <1>3. /\ DOMAIN dids' = DOMAIN dids \cup {Did(d, n)} /\ dids'[Did(d, n)] = d
        /\ \A did \in DOMAIN dids : did # Did(d, n) => dids'[did] = dids[did]
    <2> DEFINE key == Did(d, n)
    <2>1. dids' = Put(dids, key, d)
      BY <1>2
    <2> HIDE DEF key, d
    <2>2. /\ DOMAIN dids' = DOMAIN dids \cup {key} /\ dids'[key] = d
          /\ \A did \in DOMAIN dids : did # key => dids'[did] = dids[did]
      BY <2>1 DEF Put
    <2> QED
      BY <2>2 DEF key
  <1>4. /\ t0.kind = "drone" /\ t0.id = d /\ t0.n = n /\ t0.at = "pair"
        /\ t0 = Writing(t0.at, t0.id, t0.n)
    BY DEF Writing
  <1> HIDE DEF t0, d, n
  <1>5. Objects' /\ DroneFrames' /\ Records'
    BY <1>1, <1>3 DEF DroneInv, Objects, DroneFrames, Records, Done
  <1>6. Stored'
    <2>1. \A e, k : (\E w \in threads : w.kind = "drone" /\ w.id = e /\ w.n = k) =>
                        \E w \in threads' : w.kind = "drone" /\ w.id = e /\ w.n = k
      BY <1>2, <1>4 DEF d, n
    <2> QED
      BY <1>1, <1>3, <2>1 DEF DroneInv, Stored, Done
  <1>7. Writers'
    BY <1>1, <1>2, <1>3, <1>4 DEF DroneInv, Writers
  <1>8. Index'
    <2>1. d \in DOMAIN drones
      BY <1>1 DEF DroneInv, Stored
    <2> QED
      BY <1>1, <1>3, <2>1 DEF DroneInv, Index
  <1> QED
    BY <1>5, <1>6, <1>7, <1>8 DEF DroneInv

\* CRPStore.enroll, after both tables of the database.
LEMMA StorePairEffect ==
    ASSUME DroneInv, NEW t, StorePair(t)
    PROVE  /\ t \in threads /\ t.kind = "drone"
           /\ t.id \in DroneIds /\ t.n \in 1 .. count.drone
           /\ UNCHANGED <<device, count, drones, dids, stored, late>>
           /\ crps \subseteq crps' /\ threads' = threads \ {t} /\ Done(t.id, t.n)'
           /\ net' = net \cup {[kind |-> "credentials", id |-> t.id, n |-> t.n,
                                did |-> Did(t.id, t.n), ksd |-> Ksd(t.id, t.n),
                                kj |-> Kj(t.id, t.n)]}
  <1> DEFINE d == t.id
             n == t.n
  <1>1. /\ t \in threads /\ t.kind = "drone" /\ t.at = "pair" /\ t = Writing("pair", d, n)
        /\ d \in DroneIds /\ n \in 1 .. count.drone /\ <<d, n>> \in stored
        /\ Did(d, n) \in DOMAIN dids
        /\ UNCHANGED <<device, count, drones, dids, stored, late>>
    BY DEF StorePair, DroneInv, Writers
  <1>2. t.rec = Record(d, n)
    BY <1>1 DEF Writing
  <1> DEFINE rec == Record(d, n)
  <1>3. /\ rec.did = Did(d, n) /\ rec.ksd = Ksd(d, n) /\ rec.kj = Kj(d, n)
        /\ rec.challenge = Challenge(n) /\ rec.rest = Rest(n)
    BY RecordIs
  <1> HIDE DEF rec
  <1>4. t.rec = rec
    BY <1>2 DEF rec
  <1>5. crps' = crps \cup {Crp(d, n)}
    BY <1>3, <1>4 DEF StorePair, AddCrp, Crp
  <1>6. Done(d, n)'
    BY <1>1, <1>5 DEF Done
  <1>7. /\ threads' = threads \ {t}
        /\ net' = net \cup {[kind |-> "credentials", id |-> d, n |-> n, did |-> Did(d, n),
                             ksd |-> Ksd(d, n), kj |-> Kj(d, n)]}
    BY <1>3, <1>4 DEF StorePair
  <1> QED
    BY <1>1, <1>5, <1>6, <1>7

LEMMA StorePairStep ==
    ASSUME DroneInv, Numbered', NEW t, StorePair(t)
    PROVE  DroneInv'
  <1>1. /\ t \in threads /\ t.kind = "drone"
        /\ t.id \in DroneIds /\ t.n \in 1 .. count.drone
        /\ UNCHANGED <<device, count, drones, dids, stored, late>>
        /\ crps \subseteq crps' /\ threads' = threads \ {t} /\ Done(t.id, t.n)'
        /\ net' = net \cup {[kind |-> "credentials", id |-> t.id, n |-> t.n,
                             did |-> Did(t.id, t.n), ksd |-> Ksd(t.id, t.n),
                             kj |-> Kj(t.id, t.n)]}
    BY StorePairEffect
  <1>2. Objects'
    BY <1>1 DEF DroneInv, Objects, Done
  <1>3. DroneFrames'
    <2> DEFINE f == [kind |-> "credentials", id |-> t.id, n |-> t.n, did |-> Did(t.id, t.n),
                     ksd |-> Ksd(t.id, t.n), kj |-> Kj(t.id, t.n)]
    <2>1. /\ f.kind = "credentials" /\ f.id = t.id /\ f.n = t.n
          /\ f.did = Did(f.id, f.n) /\ f.ksd = Ksd(f.id, f.n) /\ f.kj = Kj(f.id, f.n)
      OBVIOUS
    <2>2. net' = net \cup {f}
      BY <1>1
    <2> HIDE DEF f
    <2>3. \A d, n : Done(d, n) => Done(d, n)'
      BY <1>1 DEF Done
    <2> QED
      BY <1>1, <2>1, <2>2, <2>3 DEF DroneInv, DroneFrames
  <1>4. Records' /\ Writers' /\ Index'
    BY <1>1 DEF DroneInv, Records, Writers, Index
  <1>5. Stored'
    <2>1. ASSUME NEW e, NEW k, <<e, k>> \in stored'
          PROVE  /\ e \in DOMAIN drones'
                 /\ Done(e, k)' \/ \E w \in threads' : w.kind = "drone" /\ w.id = e /\ w.n = k
      <3>1. CASE e = t.id /\ k = t.n
        BY <1>1, <2>1, <3>1 DEF DroneInv, Stored
      <3>2. CASE ~(e = t.id /\ k = t.n)
        BY <1>1, <2>1, <3>2 DEF DroneInv, Stored, Done
      <3> QED
        BY <3>1, <3>2
    <2> QED
      BY <2>1 DEF Stored
  <1> QED
    BY <1>2, <1>3, <1>4, <1>5 DEF DroneInv

LEMMA Mu2Frames ==
    ASSUME NEW m, NEW ids, BuildMu2Batch(m, ids)
    PROVE  /\ ids \subseteq DOMAIN drones
           /\ \A k \in net' : \/ k \in net
                              \/ k.kind = "mu2" /\ k.id \in ids /\ k.g2 = m.m1 /\ k.g3 = m.pid
  <1> DEFINE yj(d) == H(<<drones[d].ksd, drones[d].did, m.pid, m.m1>>)
             frame(d) == [kind |-> "mu2", id |-> d, g2 |-> m.m1, g3 |-> m.pid, yj |-> yj(d)]
  <1>1. net' = net \cup {frame(d) : d \in ids} /\ ids \subseteq DOMAIN drones
    BY DEF BuildMu2Batch
  <1>2. \A d : frame(d).kind = "mu2" /\ frame(d).id = d /\ frame(d).g2 = m.m1 /\ frame(d).g3 = m.pid
    OBVIOUS
  <1> HIDE DEF frame
  <1> QED
    BY <1>1, <1>2

LEMMA DroneInvStep ==
    ASSUME DroneInv, [Next]_vars
    PROVE  DroneInv'
  <1>1. Numbered'
    BY NumberedStep DEF DroneInv
  <1>2. CASE UNCHANGED vars
    BY <1>1, <1>2, DroneInvStable DEF vars
  <1>3. CASE Initialize
    BY <1>1, <1>3, DroneInvStable DEF Initialize
  <1>4. ASSUME NEW d \in DroneIds, BeginDrone(d) PROVE DroneInv'
    BY <1>1, <1>4, BeginDroneStep
  <1>5. CASE BeginUser
    <2>1. /\ UNCHANGED <<device, drones, dids, crps, threads, stored, late>>
          /\ count'.drone = count.drone
          /\ \A m \in net' : m \in net \/ m.kind = "enroll_user"
      BY <1>5 DEF BeginUser, DroneInv, Numbered
    <2> QED
      BY <1>1, <2>1, DroneInvStable
  <1>6. CASE BuildMu1
    <2>1. /\ UNCHANGED <<device, drones, dids, crps, threads, stored, late>>
          /\ count'.drone = count.drone
          /\ \A m \in net' : m \in net \/ m.kind = "mu1"
      BY <1>6 DEF BuildMu1, DroneInv, Numbered
    <2> QED
      BY <1>1, <2>1, DroneInvStable
  <1>7. ASSUME NEW m, EnrollDrone(m) PROVE DroneInv'
    BY <1>1, <1>7, EnrollDroneStep
  <1>8. ASSUME NEW m, StoreCredentials(m) PROVE DroneInv'
    BY <1>1, <1>8, StoreCredentialsStep
  <1>9. ASSUME NEW m, EnrollUser(m) PROVE DroneInv'
    <2>1. PICK rec : threads' = threads \cup {[kind |-> "user", rec |-> rec]}
      BY <1>9 DEF EnrollUser
    <2>2. /\ UNCHANGED <<device, drones, dids, crps, stored, late, net>>
          /\ count'.drone = count.drone
      BY <1>9 DEF EnrollUser, DroneInv, Numbered
    <2> QED
      BY <1>1, <2>1, <2>2, DroneInvStable
  <1>10. ASSUME NEW m, CompleteUser(m) PROVE DroneInv'
    BY <1>1, <1>10, DroneInvStable DEF CompleteUser
  <1>11. ASSUME NEW m, NEW ids, BuildMu2Batch(m, ids) PROVE DroneInv'
    <2>1. /\ UNCHANGED <<device, drones, dids, crps, threads, stored, late>>
          /\ count'.drone = count.drone
      BY <1>11 DEF BuildMu2Batch, DroneInv, Numbered
    <2>2. \A k \in net' : k \in net \/ k.kind = "mu2"
      BY <1>11, Mu2Frames
    <2> QED
      BY <1>1, <2>1, <2>2, DroneInvStable
  <1>12. ASSUME NEW m, HandleMu2(m) PROVE DroneInv'
    <2>1. /\ UNCHANGED <<count, drones, dids, crps, threads, stored, late>>
          /\ \A k \in net' : k \in net \/ k.kind = "mu3"
      BY <1>12 DEF HandleMu2
    <2>2. CASE Accepts(device[m.id], m) /\ m.id \in DroneIds
      BY <1>1, <1>12, <2>1, <2>2, StashKeepsDroneInv DEF HandleMu2, Accepts
    <2>3. CASE Accepts(device[m.id], m) /\ m.id \notin DroneIds
      <3>1. UNCHANGED device
        BY <1>12, <2>3 DEF HandleMu2, DroneInv, Objects
      <3> QED
        BY <1>1, <2>1, <3>1, DroneInvStable
    <2>4. CASE ~Accepts(device[m.id], m)
      BY <1>1, <1>12, <2>1, <2>4, DroneInvStable DEF HandleMu2
    <2> QED
      BY <2>2, <2>3, <2>4
  <1>13. ASSUME NEW m, VerifyMu3(m) PROVE DroneInv'
    BY <1>1, <1>13, DroneInvStable DEF VerifyMu3
  <1>14. ASSUME NEW t, IndexDrone(t) PROVE DroneInv'
    BY <1>1, <1>14, IndexDroneStep
  <1>15. ASSUME NEW t, StorePair(t) PROVE DroneInv'
    BY <1>1, <1>15, StorePairStep
  <1>16. ASSUME NEW t, IndexUser(t) PROVE DroneInv'
    <2>1. /\ UNCHANGED <<count, device, drones, dids, crps, stored, late>>
          /\ threads' = threads \ {t} /\ t.kind = "user"
          /\ \A k \in net' : k \in net \/ k.kind = "user_reply"
      BY <1>16 DEF IndexUser
    <2> QED
      BY <1>1, <2>1, DroneInvStable
  <1> QED
    BY <1>2, <1>3, <1>4, <1>5, <1>6, <1>7, <1>8, <1>9, <1>10, <1>11, <1>12, <1>13, <1>14,
       <1>15, <1>16 DEF Next

LEMMA DroneInvInit ==
    ASSUME Init
    PROVE  DroneInv
  <1>1. MaxDrones \in Nat
    BY BoundsAssumption
  <1>2. Numbered
    BY <1>1 DEF Init, Numbered
  <1>3. Objects
    <2>1. \A d \in DroneIds : device[d] = Unenrolled(0) /\ device[d].n = 0
      BY ObjectIs DEF Init, Unenrolled, NoDrone
    <2> QED
      BY <1>1, <2>1 DEF Init, Objects
  <1>4. DOMAIN drones = {} /\ DOMAIN dids = {} /\ stored = {} /\ threads = {} /\ net = {}
    BY DEF Init
  <1> QED
    BY <1>2, <1>3, <1>4 DEF DroneInv, DroneFrames, Records, Stored, Writers, Index

\* The tables about the drones, once every record and entry is traced to the
\* object it was made for.
LEMMA DroneTablesAgree ==
    ASSUME DroneInv
    PROVE  /\ \A d \in DOMAIN drones : DroneAtWork(d) \/ DroneKnown(d, drones[d])
           /\ \A did \in DOMAIN dids : dids[did] \in DOMAIN drones
           /\ \A d \in DroneIds : device[d].did # Nothing =>
                 /\ device[d].did \in DOMAIN dids /\ dids[device[d].did] = d
                 /\ Crp(d, device[d].n) \in crps
  <1>1. ASSUME NEW d, NEW n, Done(d, n)
        PROVE  Did(d, n) \in DOMAIN dids /\ dids[Did(d, n)] = d /\ Crp(d, n) \in crps
    <2>1. Did(d, n) \in DOMAIN dids /\ Crp(d, n) \in crps
      BY <1>1 DEF Done
    <2>2. \E k : Did(d, n) = Did(dids[Did(d, n)], k)
      BY <2>1 DEF DroneInv, Index
    <2> QED
      BY <2>1, <2>2, DidsDiffer
  <1>2. ASSUME NEW d \in DOMAIN drones, ~DroneAtWork(d)
        PROVE  DroneKnown(d, drones[d])
    <2>1. PICK n : drones[d] = Record(d, n) /\ <<d, n>> \in stored
      BY <1>2 DEF DroneInv, Records
    <2>2. Done(d, n)
      BY <1>2, <2>1 DEF DroneInv, Stored, DroneAtWork
    <2>3. Xor(Xor(H(<<Ksd(d, n), Challenge(n)>>), Rest(n)), H(<<Ksd(d, n), Challenge(n)>>)) = Rest(n)
      BY XorCancels
    <2> QED
      BY <1>1, <2>1, <2>2, <2>3, RecordIs DEF DroneKnown, Crp, Rest
  <1>3. ASSUME NEW d \in DroneIds, device[d].did # Nothing
        PROVE  /\ device[d].did \in DOMAIN dids /\ dids[device[d].did] = d
               /\ Crp(d, device[d].n) \in crps
    <2>1. device[d].did = Did(d, device[d].n) /\ Done(d, device[d].n)
      BY <1>3, CredentialsAre
    <2> QED
      BY <1>1, <2>1
  <1> QED
    BY <1>2, <1>3 DEF DroneInv, Index

-----------------------------------------------------------------------------
(* The user and its accounts *)

LEMMA UidsDiffer ==
    ASSUME NEW j, NEW k, Uid(j) = Uid(k)
    PROVE  j = k
  <1>1. <<Id("user"), Atom("r", j)>> = <<Id("user"), Atom("r", k)>>
    BY HashIsInjective DEF Uid
  <1>2. Atom("r", j) = Atom("r", k)
    BY <1>1
  <1> QED
    BY <1>2, AtomIsInjective

LEMMA PidsDiffer ==
    ASSUME NEW u, NEW v, NEW i, NEW k, Pid(u, i) = Pid(v, k)
    PROVE  u = v
  <1>1. <<u, Fid(i), s>> = <<v, Fid(k), s>>
    BY HashIsInjective DEF Pid
  <1> QED
    BY <1>1

LEMMA PidIsNotNothing ==
    ASSUME NEW u, NEW i
    PROVE  Pid(u, i) # Nothing /\ Uid(i) # Nothing
  BY TermsAreNotNothing DEF Pid, Uid

\* Of the enrollments of the user, its stored Du is from that of the salt alone.
LEMMA DuIsOfOne ==
    ASSUME NEW j, NEW k, NEW pid, NEW password,
           Du(j, pid) = H(<<Gamma(pid, H(<<password, Atom("salt", k)>>)),
                            Delta(Uid(k), H(<<password, Atom("salt", k)>>), Atom("r", k))>>)
    PROVE  password = Password /\ j = k
  <1> DEFINE bio == H(<<password, Atom("salt", k)>>)
             delta1 == Delta(Uid(j), Bio(j), Atom("r", j))
             delta2 == Delta(Uid(k), bio, Atom("r", k))
  <1>1. <<Gamma(pid, Bio(j)), delta1>> = <<Gamma(pid, bio), delta2>>
    BY HashIsInjective DEF Du
  <1>2. Gamma(pid, Bio(j)) = Gamma(pid, bio)
    BY <1>1
  <1>3. <<pid, Bio(j)>> = <<pid, bio>>
    BY <1>2, HashIsInjective DEF Gamma
  <1>4. Bio(j) = bio
    BY <1>3
  <1>5. <<Password, Atom("salt", j)>> = <<password, Atom("salt", k)>>
    BY <1>4, HashIsInjective DEF Bio
  <1>6. password = Password /\ Atom("salt", j) = Atom("salt", k)
    BY <1>5
  <1> QED
    BY <1>6, AtomIsInjective

LEMMA SealedIsNotNothing ==
    ASSUME NEW uid, NEW k
    PROVE  Xor(Sigma(uid), Bio(k)) # Nothing
  <1>1. s # Atom("salt", k)
    BY AtomIsInjective DEF s
  <1>2. <<uid, s>> # <<Password, Atom("salt", k)>>
    BY <1>1
  <1>3. Sigma(uid) # Bio(k)
    BY <1>2, HashIsInjective DEF Sigma, Bio
  <1>4. Sigma(uid) = {<<"H", <<uid, s>>>>} /\ Bio(k) = {<<"H", <<Password, Atom("salt", k)>>>>}
    BY DEF Sigma, Bio, H
  <1> DEFINE a == <<"H", <<uid, s>>>>
             b == <<"H", <<Password, Atom("salt", k)>>>>
  <1>5. Sigma(uid) = {a} /\ Bio(k) = {b} /\ a # b
    BY <1>3, <1>4
  <1> HIDE DEF a, b
  <1> QED
    BY <1>5 DEF Xor, Nothing

\* verify_mu1 asks of a mu1 what the index of PIDu says of it.
Genuine(m, index) ==
    /\ m.pid \in DOMAIN index
    /\ Xor(m.m2, H(<<Sigma(index[m.pid]), m.pid>>)) = index[m.pid]
    /\ m.m3 = H(<<m.pid, index[m.pid], m.m1, Sigma(index[m.pid])>>)

LEMMA VerifyMeansGenuine ==
    ASSUME NEW m
    PROVE  /\ Accounts => (VerifyMu1(m) <=> Genuine(m, pids))
           /\ Accounts' => (VerifyMu1(m)' <=> Genuine(m, pids'))
  BY DEF Accounts, VerifyMu1, Genuine, Sigma

\* The three ways to say that the user can log in.
LEMMA LoginIs ==
    ASSUME UserInv
    PROVE  /\ \A password : LoginPasses(password) =>
                /\ password = Password /\ user.uid # Nothing
                /\ user.pid \in DOMAIN pids /\ pids[user.pid] = user.uid
                /\ Login(Password) = Sigma(user.uid)
           /\ user.uid # Nothing /\ user.pid \in DOMAIN pids /\ pids[user.pid] = user.uid
                => LoginPasses(Password)
  <1>1. ASSUME user.au = Nothing, user.pid = Nothing
        PROVE  user.pid \notin DOMAIN pids /\ \A password : ~LoginPasses(password)
    BY <1>1, PidIsNotNothing DEF UserInv, Accounts, LoginPasses
  <1>2. ASSUME NEW k \in 1 .. count.begin, user.pid \in DOMAIN pids, pids[user.pid] = Uid(k),
               user.au = Xor(Sigma(Uid(k)), Bio(k)), user.du = Du(k, user.pid)
        PROVE  /\ \A password : LoginPasses(password) =>
                    /\ password = Password /\ user.uid # Nothing
                    /\ user.pid \in DOMAIN pids /\ pids[user.pid] = user.uid
                    /\ Login(Password) = Sigma(user.uid)
               /\ pids[user.pid] = user.uid => LoginPasses(Password)
    <2> DEFINE n == count.begin
    <2>1. user.r = Atom("r", n) /\ user.salt = Atom("salt", n) /\ user.uid = Uid(n)
      <3>1. n # 0
        BY <1>2
      <3> QED
        BY <3>1 DEF UserInv, Wallet
    <2>2. \A password : SigmaBio(password) = H(<<password, Atom("salt", n)>>)
      BY <2>1 DEF SigmaBio
    <2>3. user.au # Nothing
      BY <1>2, SealedIsNotNothing
    <2>4. ASSUME NEW password, LoginPasses(password)
          PROVE  password = Password /\ k = n
      <3> DEFINE bio == H(<<password, Atom("salt", n)>>)
      <3>1. Du(k, user.pid) = H(<<Gamma(user.pid, bio), Delta(Uid(n), bio, Atom("r", n))>>)
        <4>1. user.du = H(<<Gamma(user.pid, SigmaBio(password)),
                            Delta(user.uid, SigmaBio(password), user.r)>>)
          BY <2>4 DEF LoginPasses
        <4> QED
          BY <1>2, <2>1, <2>2, <4>1
      <3> QED
        BY <3>1, DuIsOfOne
    <2>5. k = n => Login(Password) = Sigma(user.uid)
      <3>1. SigmaBio(Password) = Bio(n)
        BY <2>2 DEF Bio
      <3>2. Xor(Xor(Sigma(Uid(n)), Bio(n)), Bio(n)) = Sigma(Uid(n))
        BY XorCancels
      <3> QED
        BY <1>2, <2>1, <3>1, <3>2 DEF Login
    <2>6. k = n => LoginPasses(Password)
      BY <1>2, <2>1, <2>2, <2>3 DEF LoginPasses, Du, Bio
    <2> QED
      BY <1>2, <2>1, <2>4, <2>5, <2>6, UidsDiffer, PidIsNotNothing
  <1> QED
    BY <1>1, <1>2 DEF UserInv, Wallet

\* Steps that leave the user's accounts alone, but for the frames of others.
LEMMA UserInvStable ==
    ASSUME UserInv, Numbered', count'.begin = count.begin, count'.reply = count.reply,
           UNCHANGED <<users, pids, user, mu1s>>,
           \A t \in threads' : t \in threads \/ t.kind = "drone",
           \A t \in threads : t \in threads' \/ t.kind = "drone",
           \A m \in net' : m \in net \/ m.kind \notin {"enroll_user", "user_reply"}
    PROVE  UserInv'
  <1>1. Accounts'
    <2>1. \A rec : Replying(rec).kind = "user"
      BY DEF Replying
    <2> QED
      BY <2>1 DEF UserInv, Accounts
  <1>2. Repliers'
    BY DEF UserInv, Repliers
  <1>3. UserFrames'
    BY DEF UserInv, UserFrames
  <1>4. Wallet'
    BY DEF UserInv, Wallet
  <1>5. Mu1Accepted'
    BY DEF UserInv, Mu1Accepted, VerifyMu1
  <1> QED
    BY <1>1, <1>2, <1>3, <1>4, <1>5 DEF UserInv

LEMMA BeginUserStep ==
    ASSUME UserInv, Numbered', BeginUser
    PROVE  UserInv'
  <1> DEFINE k == count.begin + 1
  <1>1. /\ count'.begin = k /\ count'.reply = count.reply /\ count.begin \in Nat
        /\ net' = net \cup {[kind |-> "enroll_user", uid |-> Uid(k)]}
        /\ user' = [user EXCEPT !.r = Atom("r", k), !.salt = Atom("salt", k), !.uid = Uid(k)]
        /\ UNCHANGED <<users, pids, threads, mu1s>>
    BY DEF BeginUser, UserInv, Numbered, Uid
  <1>2. Accounts' /\ Repliers'
    BY <1>1 DEF UserInv, Accounts, Repliers
  <1>3. UserFrames'
    BY <1>1 DEF UserInv, UserFrames
  <1>4. user' = [r |-> Atom("r", k), salt |-> Atom("salt", k), uid |-> Uid(k), pid |-> user.pid,
                 gamma |-> user.gamma, au |-> user.au, du |-> user.du, x |-> user.x]
    <2> DEFINE u1 == [user EXCEPT !.r = Atom("r", k)]
               u2 == [u1 EXCEPT !.salt = Atom("salt", k)]
               u3 == [u2 EXCEPT !.uid = Uid(k)]
    <2>1. u1 = [r |-> Atom("r", k), salt |-> user.salt, uid |-> user.uid, pid |-> user.pid,
                gamma |-> user.gamma, au |-> user.au, du |-> user.du, x |-> user.x]
      BY DEF UserInv, Wallet
    <2> HIDE DEF u1
    <2>2. u2 = [r |-> Atom("r", k), salt |-> Atom("salt", k), uid |-> user.uid, pid |-> user.pid,
                gamma |-> user.gamma, au |-> user.au, du |-> user.du, x |-> user.x]
      BY <2>1
    <2> HIDE DEF u2
    <2>3. u3 = [r |-> Atom("r", k), salt |-> Atom("salt", k), uid |-> Uid(k), pid |-> user.pid,
                gamma |-> user.gamma, au |-> user.au, du |-> user.du, x |-> user.x]
      BY <2>2
    <2>4. user' = u3
      BY <1>1 DEF u1, u2
    <2> QED
      BY <2>3, <2>4
  <1>5. Wallet'
    <2>1. k \in Nat /\ k # 0
      BY <1>1
    <2>2. /\ user'.r = Atom("r", k) /\ user'.salt = Atom("salt", k) /\ user'.uid = Uid(k)
          /\ user'.pid = user.pid /\ user'.gamma = user.gamma /\ user'.au = user.au
          /\ user'.du = user.du /\ user'.x = user.x
      BY <1>4
    <2>3. \/ user.pid = Nothing /\ user.au = Nothing
          \/ \E j \in 1 .. k :
              /\ user.pid \in DOMAIN pids /\ pids[user.pid] = Uid(j)
              /\ user.au = Xor(Sigma(Uid(j)), Bio(j)) /\ user.du = Du(j, user.pid)
      BY <1>1 DEF UserInv, Wallet
    <2> HIDE DEF k
    <2> QED
      BY <1>1, <1>4, <2>1, <2>2, <2>3 DEF Wallet
  <1>6. Mu1Accepted'
    BY <1>1 DEF UserInv, Mu1Accepted, VerifyMu1
  <1> QED
    BY <1>2, <1>3, <1>5, <1>6 DEF UserInv

LEMMA EnrollUserStep ==
    ASSUME UserInv, Numbered', NEW m, EnrollUser(m)
    PROVE  UserInv'
  <1> DEFINE rs == count.reply + 1
             uid == m.uid
             pid == Pid(uid, rs)
             bu == Xor(Sigma(uid), pid)
             rec == [uid |-> uid, pid |-> pid, fid |-> Fid(rs), bu |-> bu]
  <1>1. /\ m \in net /\ m.kind = "enroll_user"
        /\ count'.reply = rs /\ count'.begin = count.begin /\ count.reply \in Nat
        /\ users' = Put(users, uid, rec) /\ threads' = threads \cup {Replying(rec)}
        /\ UNCHANGED <<user, mu1s, pids, net>>
    BY DEF EnrollUser, AddUser, UserInv, Numbered, Pid, Fid, Sigma, Replying
  <1>2. /\ rec.uid = uid /\ rec.pid = pid /\ rec.bu = bu
        /\ Replying(rec).kind = "user" /\ Replying(rec).rec = rec
    BY DEF Replying
  <1>3. \E i \in 1 .. rs : pid = Pid(uid, i)
    BY <1>1
  <1> HIDE DEF uid, pid, rec, bu
  <1>4. /\ DOMAIN users' = DOMAIN users \cup {uid} /\ users'[uid] = rec
        /\ \A u \in DOMAIN users : u # uid => users'[u] = users[u]
    BY <1>1 DEF Put
  <1>5. Accounts'
    <2>1. ASSUME NEW p \in DOMAIN pids
          PROVE  pids[p] \in DOMAIN users' /\ \E i \in 1 .. rs : p = Pid(pids[p], i)
      BY <1>1, <1>4 DEF UserInv, Accounts
    <2>2. ASSUME NEW u \in DOMAIN users'
          PROVE  /\ users'[u].uid = u
                 /\ users'[u].pid \in DOMAIN pids \/ Replying(users'[u]) \in threads'
                 /\ \E i \in 1 .. rs : users'[u].pid = Pid(u, i)
      <3>1. CASE u = uid
        BY <1>1, <1>2, <1>3, <1>4, <3>1
      <3>2. CASE u # uid
        <4>1. u \in DOMAIN users /\ users'[u] = users[u]
          BY <1>4, <3>2
        <4>2. /\ users[u].uid = u
              /\ users[u].pid \in DOMAIN pids \/ Replying(users[u]) \in threads
              /\ \E i \in 1 .. count.reply : users[u].pid = Pid(u, i)
          BY <4>1 DEF UserInv, Accounts
        <4> QED
          BY <1>1, <4>1, <4>2
      <3> QED
        BY <3>1, <3>2
    <2> QED
      BY <1>1, <2>1, <2>2 DEF Accounts
  <1>6. Repliers'
    <2>1. \E k \in 1 .. count.begin : uid = Uid(k)
      BY <1>1 DEF UserInv, UserFrames, uid
    <2>2. ASSUME NEW t \in threads', t.kind = "user"
          PROVE  /\ t = Replying(t.rec) /\ t.rec.uid \in DOMAIN users'
                 /\ \E k \in 1 .. count.begin : t.rec.uid = Uid(k)
                 /\ \E i \in 1 .. rs : t.rec.pid = Pid(t.rec.uid, i)
                 /\ t.rec.bu = Xor(Sigma(t.rec.uid), t.rec.pid)
      <3>1. CASE t \in threads
        BY <1>1, <1>4, <2>2, <3>1 DEF UserInv, Repliers
      <3>2. CASE t = Replying(rec)
        BY <1>2, <1>3, <1>4, <2>1, <3>2 DEF bu
      <3> QED
        BY <1>1, <3>1, <3>2
    <2> QED
      BY <1>1, <2>2 DEF Repliers
  <1>7. UserFrames' /\ Wallet'
    BY <1>1 DEF UserInv, UserFrames, Wallet
  <1>8. Mu1Accepted'
    <2>1. ASSUME NEW k \in mu1s PROVE Genuine(k, pids)
      BY <2>1, VerifyMeansGenuine DEF UserInv, Mu1Accepted
    <2> QED
      BY <1>1, <1>5, <2>1, VerifyMeansGenuine DEF Mu1Accepted
  <1> QED
    BY <1>5, <1>6, <1>7, <1>8 DEF UserInv

\* add_pid and the reply, with the record in place already.
LEMMA IndexUserStep ==
    ASSUME UserInv, Numbered', NEW t, IndexUser(t)
    PROVE  UserInv'
  <1> DEFINE rec == t.rec
             uid == rec.uid
             pid == rec.pid
             reply == [kind |-> "user_reply", uid |-> uid, pid |-> pid, bu |-> rec.bu]
  <1>1. /\ t \in threads /\ t.kind = "user"
        /\ pids' = Put(pids, pid, uid) /\ threads' = threads \ {t} /\ net' = net \cup {reply}
        /\ UNCHANGED <<count, users, user, mu1s>>
    BY DEF IndexUser, AddPid
  <1>2. /\ t = Replying(rec) /\ uid \in DOMAIN users
        /\ \E k \in 1 .. count.begin : uid = Uid(k)
        /\ \E rs \in 1 .. count.reply : pid = Pid(uid, rs)
        /\ rec.bu = Xor(Sigma(uid), pid)
    BY <1>1 DEF UserInv, Repliers
  <1>3. /\ reply.kind = "user_reply" /\ reply.uid = uid /\ reply.pid = pid
        /\ reply.bu = rec.bu
    OBVIOUS
  <1> HIDE DEF uid, pid, rec, reply
  <1>4. /\ DOMAIN pids' = DOMAIN pids \cup {pid} /\ pids'[pid] = uid
        /\ \A p \in DOMAIN pids : p # pid => pids'[p] = pids[p]
    BY <1>1 DEF Put
  <1>5. \A p \in DOMAIN pids : p \in DOMAIN pids' /\ pids'[p] = pids[p]
    <2>1. ASSUME pid \in DOMAIN pids PROVE pids[pid] = uid
      BY <1>2, <2>1, PidsDiffer DEF UserInv, Accounts
    <2> QED
      BY <1>4, <2>1
  <1>6. Accounts'
    <2>1. ASSUME NEW p \in DOMAIN pids'
          PROVE  pids'[p] \in DOMAIN users /\ \E i \in 1 .. count.reply : p = Pid(pids'[p], i)
      <3>1. CASE p = pid
        BY <1>2, <1>4, <3>1
      <3>2. CASE p # pid
        BY <1>4, <3>2 DEF UserInv, Accounts
      <3> QED
        BY <3>1, <3>2
    <2>2. ASSUME NEW u \in DOMAIN users
          PROVE  users[u].pid \in DOMAIN pids' \/ Replying(users[u]) \in threads'
      <3>1. users[u].pid \in DOMAIN pids \/ Replying(users[u]) \in threads
        BY <2>2 DEF UserInv, Accounts
      <3>2. CASE Replying(users[u]) = t
        <4>1. users[u] = rec
          BY <1>2, <3>2 DEF Replying
        <4> QED
          BY <1>4, <4>1 DEF pid
      <3> QED
        BY <1>1, <1>5, <3>1, <3>2
    <2> QED
      BY <1>1, <2>1, <2>2 DEF UserInv, Accounts
  <1>7. UserFrames'
    <2>1. ASSUME NEW f \in net'
          PROVE  (/\ f.kind = "enroll_user" => \E k \in 1 .. count.begin : f.uid = Uid(k)
                  /\ f.kind = "user_reply" =>
                        /\ \E k \in 1 .. count.begin : f.uid = Uid(k)
                        /\ f.pid \in DOMAIN pids' /\ pids'[f.pid] = f.uid
                        /\ f.bu = Xor(Sigma(f.uid), f.pid))
      <3>1. CASE f \in net
        BY <1>5, <3>1 DEF UserInv, UserFrames
      <3>2. CASE f = reply
        BY <1>2, <1>3, <1>4, <3>2
      <3> QED
        BY <1>1, <3>1, <3>2
    <2> QED
      BY <1>1, <2>1 DEF UserFrames
  <1>8. Repliers' /\ Wallet'
    BY <1>1, <1>5 DEF UserInv, Repliers, Wallet
  <1>9. Mu1Accepted'
    <2>1. ASSUME NEW k \in mu1s PROVE Genuine(k, pids')
      <3>1. Genuine(k, pids)
        BY <2>1, VerifyMeansGenuine DEF UserInv, Mu1Accepted
      <3> QED
        BY <1>5, <3>1 DEF Genuine
    <2> QED
      BY <1>1, <1>6, <2>1, VerifyMeansGenuine DEF Mu1Accepted
  <1> QED
    BY <1>6, <1>7, <1>8, <1>9 DEF UserInv

LEMMA CompleteUserStep ==
    ASSUME UserInv, Numbered', NEW m, CompleteUser(m)
    PROVE  UserInv'
  <1> DEFINE n == count.begin
             gamma == Gamma(m.pid, Bio(n))
             au == Xor(Sigma(Uid(n)), Bio(n))
             du == Du(n, m.pid)
  <1>1. /\ m \in net /\ m.kind = "user_reply" /\ m.uid = user.uid
        /\ UNCHANGED <<count, users, pids, threads, mu1s>> /\ net' \subseteq net
    BY DEF CompleteUser
  <1>2. /\ m.pid \in DOMAIN pids /\ pids[m.pid] = m.uid /\ m.bu = Xor(Sigma(m.uid), m.pid)
        /\ n \in Nat /\ n # 0
    BY <1>1 DEF UserInv, UserFrames, Numbered
  <1>3. /\ user.r = Atom("r", n) /\ user.salt = Atom("salt", n) /\ user.uid = Uid(n)
        /\ user = [r |-> user.r, salt |-> user.salt, uid |-> user.uid, pid |-> user.pid,
                   gamma |-> user.gamma, au |-> user.au, du |-> user.du, x |-> user.x]
    BY <1>2 DEF UserInv, Wallet
  <1>4. SigmaBio(Password) = Bio(n)
    BY <1>3 DEF SigmaBio, Bio
  <1>5. Xor(Xor(m.bu, m.pid), Bio(n)) = au
    <2>1. Xor(m.bu, m.pid) = Sigma(m.uid)
      BY <1>2, XorCancels
    <2> QED
      BY <1>1, <1>3, <2>1
  <1>6. user' = [user EXCEPT !.pid = m.pid, !.gamma = gamma, !.au = au, !.du = du]
    <2>1. user' = [user EXCEPT !.pid = m.pid, !.gamma = Gamma(m.pid, SigmaBio(Password)),
                       !.au = Xor(Xor(m.bu, m.pid), SigmaBio(Password)),
                       !.du = H(<<Gamma(m.pid, SigmaBio(Password)),
                                  Delta(user.uid, SigmaBio(Password), user.r)>>)]
      BY DEF CompleteUser
    <2>2. H(<<gamma, Delta(user.uid, Bio(n), user.r)>>) = du
      BY <1>3 DEF Du
    <2> QED
      BY <1>4, <1>5, <2>1, <2>2
  <1>7. user' = [r |-> user.r, salt |-> user.salt, uid |-> user.uid, pid |-> m.pid,
                 gamma |-> gamma, au |-> au, du |-> du, x |-> user.x]
    <2> HIDE DEF gamma, au, du
    <2> DEFINE u1 == [user EXCEPT !.pid = m.pid]
               u2 == [u1 EXCEPT !.gamma = gamma]
               u3 == [u2 EXCEPT !.au = au]
               u4 == [u3 EXCEPT !.du = du]
    <2>1. u1 = [r |-> user.r, salt |-> user.salt, uid |-> user.uid, pid |-> m.pid,
                gamma |-> user.gamma, au |-> user.au, du |-> user.du, x |-> user.x]
      BY <1>3
    <2> HIDE DEF u1
    <2>2. u2 = [r |-> user.r, salt |-> user.salt, uid |-> user.uid, pid |-> m.pid,
                gamma |-> gamma, au |-> user.au, du |-> user.du, x |-> user.x]
      BY <2>1
    <2> HIDE DEF u2
    <2>3. u3 = [r |-> user.r, salt |-> user.salt, uid |-> user.uid, pid |-> m.pid,
                gamma |-> gamma, au |-> au, du |-> user.du, x |-> user.x]
      BY <2>2
    <2> HIDE DEF u3
    <2>4. u4 = [r |-> user.r, salt |-> user.salt, uid |-> user.uid, pid |-> m.pid,
                gamma |-> gamma, au |-> au, du |-> du, x |-> user.x]
      BY <2>3
    <2>5. user' = u4
      BY <1>6 DEF u1, u2, u3
    <2> QED
      BY <2>4, <2>5
  <1>8. Accounts' /\ Repliers'
    BY <1>1 DEF UserInv, Accounts, Repliers
  <1>9. UserFrames'
    BY <1>1 DEF UserInv, UserFrames
  <1>10. Wallet'
    <2>1. /\ user'.r = user.r /\ user'.salt = user.salt /\ user'.uid = user.uid
          /\ user'.pid = m.pid /\ user'.gamma = gamma /\ user'.au = au
          /\ user'.du = du /\ user'.x = user.x
      BY <1>7
    <2>2. \E k \in 1 .. n : /\ m.pid \in DOMAIN pids /\ pids[m.pid] = Uid(k)
                            /\ au = Xor(Sigma(Uid(k)), Bio(k)) /\ du = Du(k, m.pid)
      <3>1. n \in 1 .. n
        BY <1>2
      <3> QED
        BY <1>1, <1>2, <1>3, <3>1
    <2> HIDE DEF gamma, au, du
    <2> QED
      BY <1>1, <1>2, <1>3, <1>7, <2>1, <2>2 DEF Wallet
  <1>11. Mu1Accepted'
    BY <1>1 DEF UserInv, Mu1Accepted, VerifyMu1
  <1> QED
    BY <1>8, <1>9, <1>10, <1>11 DEF UserInv

LEMMA BuildMu1Step ==
    ASSUME UserInv, Numbered', BuildMu1
    PROVE  UserInv'
  <1> DEFINE x == Atom("x", count.key + 1)
             sigma == Login(Password)
             mu1 == [kind |-> "mu1", pid |-> user.pid, m1 |-> Point(x),
                     m2 |-> Xor(H(<<sigma, user.pid>>), user.uid),
                     m3 |-> H(<<user.pid, user.uid, Point(x), sigma>>)]
  <1>1. /\ LoginPasses(Password)
        /\ count'.begin = count.begin /\ count'.reply = count.reply
        /\ net' = net \cup {mu1} /\ mu1s' = mu1s \cup {mu1}
        /\ user' = [user EXCEPT !.x = x] /\ UNCHANGED <<users, pids, threads>>
    BY DEF BuildMu1, UserInv, Numbered
  <1>2. user.pid \in DOMAIN pids /\ pids[user.pid] = user.uid /\ sigma = Sigma(user.uid)
    BY <1>1, LoginIs
  <1>3. Genuine(mu1, pids)
    <2>1. Xor(Xor(H(<<sigma, user.pid>>), user.uid), H(<<sigma, user.pid>>)) = user.uid
      BY XorCancels
    <2>2. /\ mu1.pid = user.pid /\ mu1.m1 = Point(x)
          /\ mu1.m2 = Xor(H(<<sigma, user.pid>>), user.uid)
          /\ mu1.m3 = H(<<user.pid, user.uid, Point(x), sigma>>)
      OBVIOUS
    <2> HIDE DEF mu1, sigma
    <2> QED
      BY <1>2, <2>1, <2>2 DEF Genuine
  <1>4. mu1.kind = "mu1"
    OBVIOUS
  <1> HIDE DEF mu1, x
  <1>5. Accounts' /\ Repliers'
    BY <1>1 DEF UserInv, Accounts, Repliers
  <1>6. UserFrames'
    BY <1>1, <1>4 DEF UserInv, UserFrames
  <1>7. Wallet'
    <2>1. user' = [r |-> user.r, salt |-> user.salt, uid |-> user.uid, pid |-> user.pid,
                   gamma |-> user.gamma, au |-> user.au, du |-> user.du, x |-> x]
      BY <1>1 DEF UserInv, Wallet
    <2>2. /\ user'.r = user.r /\ user'.salt = user.salt /\ user'.uid = user.uid
          /\ user'.pid = user.pid /\ user'.gamma = user.gamma /\ user'.au = user.au
          /\ user'.du = user.du /\ user'.x = x
      BY <2>1
    <2> QED
      BY <1>1, <2>1, <2>2 DEF UserInv, Wallet
  <1>8. Mu1Accepted'
    <2>1. ASSUME NEW k \in mu1s PROVE Genuine(k, pids)
      BY <2>1, VerifyMeansGenuine DEF UserInv, Mu1Accepted
    <2> QED
      BY <1>1, <1>3, <1>5, <2>1, VerifyMeansGenuine DEF Mu1Accepted
  <1> QED
    BY <1>5, <1>6, <1>7, <1>8 DEF UserInv

LEMMA UserInvStep ==
    ASSUME DroneInv, UserInv, [Next]_vars
    PROVE  UserInv'
  <1>1. Numbered'
    BY NumberedStep DEF UserInv
  <1>2. CASE UNCHANGED vars
    BY <1>1, <1>2, UserInvStable DEF vars
  <1>3. CASE Initialize
    BY <1>1, <1>3, UserInvStable DEF Initialize
  <1>4. ASSUME NEW d \in DroneIds, BeginDrone(d) PROVE UserInv'
    <2>1. /\ UNCHANGED <<users, pids, threads, user, mu1s>>
          /\ count'.begin = count.begin /\ count'.reply = count.reply
          /\ \A m \in net' : m \in net \/ m.kind = "enroll_drone"
      BY <1>4 DEF BeginDrone, UserInv, Numbered
    <2> QED
      BY <1>1, <2>1, UserInvStable
  <1>5. CASE BeginUser
    BY <1>1, <1>5, BeginUserStep
  <1>6. CASE BuildMu1
    BY <1>1, <1>6, BuildMu1Step
  <1>7. ASSUME NEW m, EnrollDrone(m) PROVE UserInv'
    <2>1. PICK t : threads' = threads \cup {t} /\ t.kind = "drone"
      <3> DEFINE t == Writing("index", m.id, m.n)
      <3>1. threads' = threads \cup {t}
        BY <1>7 DEF EnrollDrone, Writing, Record, Rest
      <3>2. t.kind = "drone"
        BY DEF Writing
      <3> QED
        BY <3>1, <3>2
    <2>2. UNCHANGED <<users, pids, user, mu1s, count>> /\ net' \subseteq net
      BY <1>7 DEF EnrollDrone
    <2> QED
      BY <1>1, <2>1, <2>2, UserInvStable
  <1>8. ASSUME NEW m, StoreCredentials(m) PROVE UserInv'
    BY <1>1, <1>8, UserInvStable DEF StoreCredentials
  <1>9. ASSUME NEW m, EnrollUser(m) PROVE UserInv'
    BY <1>1, <1>9, EnrollUserStep
  <1>10. ASSUME NEW m, CompleteUser(m) PROVE UserInv'
    BY <1>1, <1>10, CompleteUserStep
  <1>11. ASSUME NEW m, NEW ids, BuildMu2Batch(m, ids) PROVE UserInv'
    <2>1. /\ UNCHANGED <<users, pids, threads, user, mu1s>>
          /\ count'.begin = count.begin /\ count'.reply = count.reply
      BY <1>11 DEF BuildMu2Batch, UserInv, Numbered
    <2>2. \A k \in net' : k \in net \/ k.kind = "mu2"
      BY <1>11, Mu2Frames
    <2> QED
      BY <1>1, <2>1, <2>2, UserInvStable
  <1>12. ASSUME NEW m, HandleMu2(m) PROVE UserInv'
    <2>1. /\ UNCHANGED <<users, pids, threads, user, mu1s, count>>
          /\ \A k \in net' : k \in net \/ k.kind = "mu3"
      BY <1>12 DEF HandleMu2
    <2> QED
      BY <1>1, <2>1, UserInvStable
  <1>13. ASSUME NEW m, VerifyMu3(m) PROVE UserInv'
    BY <1>1, <1>13, UserInvStable DEF VerifyMu3
  <1>14. ASSUME NEW t, IndexDrone(t) PROVE UserInv'
    <2>1. t = Writing(t.at, t.id, t.n)
      BY <1>14 DEF IndexDrone, DroneInv, Writers
    <2>2. [t EXCEPT !.at = "pair"].kind = "drone"
      BY <2>1 DEF Writing
    <2>3. /\ UNCHANGED <<users, pids, user, mu1s, count, net>> /\ t.kind = "drone"
          /\ threads' = (threads \ {t}) \cup {[t EXCEPT !.at = "pair"]}
      BY <1>14 DEF IndexDrone
    <2> QED
      BY <1>1, <2>2, <2>3, UserInvStable
  <1>15. ASSUME NEW t, StorePair(t) PROVE UserInv'
    <2>1. /\ UNCHANGED <<users, pids, user, mu1s, count>> /\ t.kind = "drone"
          /\ threads' = threads \ {t}
          /\ \A k \in net' : k \in net \/ k.kind = "credentials"
      BY <1>15 DEF StorePair
    <2> QED
      BY <1>1, <2>1, UserInvStable
  <1>16. ASSUME NEW t, IndexUser(t) PROVE UserInv'
    BY <1>1, <1>16, IndexUserStep
  <1> QED
    BY <1>2, <1>3, <1>4, <1>5, <1>6, <1>7, <1>8, <1>9, <1>10, <1>11, <1>12, <1>13, <1>14,
       <1>15, <1>16 DEF Next

LEMMA UserInvInit ==
    ASSUME Init
    PROVE  UserInv
  <1>1. Numbered
    BY DroneInvInit DEF DroneInv
  <1>2. DOMAIN users = {} /\ DOMAIN pids = {} /\ threads = {} /\ net = {} /\ mu1s = {}
    BY DEF Init
  <1>3. Wallet
    BY DEF Init, Wallet, NoUser
  <1> QED
    BY <1>1, <1>2, <1>3 DEF UserInv, Accounts, Repliers, UserFrames, Mu1Accepted

-----------------------------------------------------------------------------
(* The sessions *)

LEMMA SchnorrIsOfOne ==
    ASSUME NEW Kj_, NEW did, NEW pid, NEW X, NEW p, NEW Y,
           Schnorr(Kj_, pid, did, X) = Schnorr(Kj_, p, did, Y)
    PROVE  pid = p /\ X = Y
  <1>1. <<Kj_, pid, did, X>> = <<Kj_, p, did, Y>>
    BY HashIsInjective DEF Schnorr
  <1> QED
    BY <1>1

\* Steps that build no mu1 and establish no session, and change no stash but to
\* empty it.
LEMMA SessionInvStable ==
    ASSUME SessionInv, count'.key = count.key, user'.x = user.x, UNCHANGED <<mu1s, sessions>>,
           \A d \in DroneIds :
               \/ device'[d] = device[d]
               \/ device'[d].point = Nothing
               \/ /\ device'[d].point = device[d].point /\ device'[d].pid = device[d].pid
                  /\ device'[d].did # Nothing,
           \A m \in net' : m \in net \/ m.kind \notin {"mu1", "mu2", "mu3"}
    PROVE  SessionInv'
  <1>1. Keys'
    BY DEF SessionInv, Keys
  <1>2. Stashed'
    BY DEF SessionInv, Stashed
  <1>3. BatchFrames'
    BY DEF SessionInv, BatchFrames
  <1>4. Sessions'
    BY DEF SessionInv, Sessions
  <1> QED
    BY <1>1, <1>2, <1>3, <1>4 DEF SessionInv

LEMMA DrawKeyStep ==
    ASSUME Numbered, UserInv, SessionInv, BuildMu1
    PROVE  SessionInv'
  <1> DEFINE k == count.key + 1
             x == Atom("x", k)
             mu1 == [kind |-> "mu1", pid |-> user.pid, m1 |-> Point(x),
                     m2 |-> Xor(H(<<Login(Password), user.pid>>), user.uid),
                     m3 |-> H(<<user.pid, user.uid, Point(x), Login(Password)>>)]
  <1>1. /\ count'.key = k /\ count.key \in Nat /\ UNCHANGED <<device, sessions>>
        /\ net' = net \cup {mu1} /\ mu1s' = mu1s \cup {mu1} /\ user'.x = x
    BY DEF BuildMu1, Numbered, UserInv, Wallet
  <1>2. mu1.kind = "mu1" /\ mu1.m1 = Point(x)
    OBVIOUS
  <1> HIDE DEF mu1
  <1>3. k \in 1 .. k /\ \A j \in 1 .. count.key : j # k /\ j \in 1 .. k
    BY <1>1
  <1>4. Keys'
    <2>1. \A m \in mu1s' : \E j \in 1 .. k : m.m1 = Point(Atom("x", j))
      BY <1>1, <1>2, <1>3 DEF SessionInv, Keys
    <2>2. ASSUME NEW m \in mu1s PROVE m.m1 # mu1.m1
      <3>1. PICK j \in 1 .. count.key : m.m1 = Point(Atom("x", j))
        BY <2>2 DEF SessionInv, Keys
      <3>2. Atom("x", j) # x
        BY <1>3, AtomIsInjective
      <3> QED
        BY <1>2, <3>1, <3>2, PointIsInjective
    <2>3. \A m, j \in mu1s' : m.m1 = j.m1 => m.pid = j.pid
      BY <1>1, <2>2 DEF SessionInv, Keys
    <2> QED
      BY <1>1, <1>3, <2>1, <2>3 DEF Keys
  <1>5. Stashed'
    BY <1>1 DEF SessionInv, Stashed
  <1>6. BatchFrames'
    <2>1. ASSUME NEW m \in net'
          PROVE  (/\ m.kind = "mu1" => m \in mu1s'
                  /\ m.kind = "mu2" =>
                        m.id \in DroneIds /\ \E j \in mu1s' : m.g2 = j.m1 /\ m.g3 = j.pid
                  /\ m.kind = "mu3" =>
                        /\ m.id \in DroneIds /\ m.did = Did(m.id, m.n) /\ m.Kj = Point(Kj(m.id, m.n))
                        /\ \E j \in mu1s' : m.sig = Schnorr(m.Kj, j.pid, m.did, j.m1))
      <3>1. CASE m \in net
        BY <1>1, <3>1 DEF SessionInv, BatchFrames
      <3>2. CASE m = mu1
        BY <1>1, <1>2, <3>2
      <3> QED
        BY <1>1, <3>1, <3>2
    <2> QED
      BY <2>1 DEF BatchFrames
  <1>7. Sessions'
    BY <1>1, <1>3 DEF SessionInv, Sessions
  <1> QED
    BY <1>4, <1>5, <1>6, <1>7 DEF SessionInv

LEMMA RespondStep ==
    ASSUME DroneInv, SessionInv, NEW m, HandleMu2(m)
    PROVE  SessionInv'
  <1> DEFINE d == m.id
             o == device[d]
  <1>1. /\ UNCHANGED <<count, user, mu1s, sessions>> /\ m \in net /\ m.kind = "mu2"
    BY DEF HandleMu2
  <1>2. CASE ~Accepts(o, m)
    BY <1>1, <1>2, SessionInvStable DEF HandleMu2
  <1>3. CASE Accepts(o, m)
    <2> DEFINE mu3 == [kind |-> "mu3", id |-> d, n |-> o.n, did |-> o.did, Kj |-> o.Kj,
                       sig |-> Schnorr(o.Kj, m.g3, o.did, m.g2)]
    <2>1. d \in DroneIds
      BY <1>1 DEF SessionInv, BatchFrames
    <2>2. PICK k \in mu1s : m.g2 = k.m1 /\ m.g3 = k.pid
      BY <1>1 DEF SessionInv, BatchFrames
    <2>3. o.did = Did(d, o.n) /\ o.Kj = Point(Kj(d, o.n)) /\ o.did # Nothing
      BY <1>3, <2>1, CredentialsAre DEF Accepts
    <2>4. /\ device' = [device EXCEPT ![d] = [o EXCEPT !.point = m.g2, !.pid = m.g3]]
          /\ net' = (net \ {m}) \cup {mu3}
      BY <1>3 DEF HandleMu2
    <2>5. /\ device'[d].point = m.g2 /\ device'[d].pid = m.g3 /\ device'[d].did = o.did
          /\ \A e \in DroneIds : e # d => device'[e] = device[e]
      <3>1. /\ device'[d] = [[o EXCEPT !.point = m.g2] EXCEPT !.pid = m.g3]
            /\ \A e \in DroneIds : e # d => device'[e] = device[e]
        BY <2>1, <2>4 DEF DroneInv, Objects
      <3>2. o = Enrolled(d, o.n, o.point, o.pid)
        BY <2>1, <2>3, CredentialsAre
      <3>3. o = [n |-> o.n, did |-> o.did, ksd |-> o.ksd, kj |-> o.kj, Kj |-> o.Kj,
                 point |-> o.point, pid |-> o.pid]
        BY <3>2 DEF Enrolled
      <3> HIDE DEF o, d
      <3> QED
        BY <3>1, <3>3
    <2>6. Stashed'
      BY <1>1, <2>2, <2>3, <2>5 DEF SessionInv, Stashed
    <2>7. BatchFrames'
      <3>1. /\ mu3.kind = "mu3" /\ mu3.id = d /\ mu3.n = o.n /\ mu3.did = o.did /\ mu3.Kj = o.Kj
            /\ mu3.sig = Schnorr(o.Kj, m.g3, o.did, m.g2)
        OBVIOUS
      <3> HIDE DEF mu3
      <3>2. ASSUME NEW f \in net'
            PROVE  (/\ f.kind = "mu1" => f \in mu1s
                    /\ f.kind = "mu2" =>
                          f.id \in DroneIds /\ \E j \in mu1s : f.g2 = j.m1 /\ f.g3 = j.pid
                    /\ f.kind = "mu3" =>
                          /\ f.id \in DroneIds /\ f.did = Did(f.id, f.n)
                          /\ f.Kj = Point(Kj(f.id, f.n))
                          /\ \E j \in mu1s : f.sig = Schnorr(f.Kj, j.pid, f.did, j.m1))
        <4>1. CASE f \in net
          BY <4>1 DEF SessionInv, BatchFrames
        <4>2. CASE f = mu3
          <5>1. f.id \in DroneIds /\ f.did = Did(f.id, f.n) /\ f.Kj = Point(Kj(f.id, f.n))
            BY <2>1, <2>3, <3>1, <4>2
          <5>2. f.sig = Schnorr(f.Kj, k.pid, f.did, k.m1)
            BY <2>2, <3>1, <4>2
          <5> QED
            BY <3>1, <4>2, <5>1, <5>2
        <4> QED
          BY <2>4, <4>1, <4>2
      <3> QED
        BY <1>1, <3>2 DEF BatchFrames
    <2>8. Keys' /\ Sessions'
      BY <1>1 DEF SessionInv, Keys, Sessions
    <2> QED
      BY <2>6, <2>7, <2>8 DEF SessionInv
  <1> QED
    BY <1>2, <1>3

LEMMA ForwardStep ==
    ASSUME Numbered, DroneInv, SessionInv, NEW m, NEW ids, BuildMu2Batch(m, ids)
    PROVE  SessionInv'
  <1>1. /\ UNCHANGED <<device, user, mu1s, sessions>> /\ count'.key = count.key
        /\ m \in mu1s
    BY DEF BuildMu2Batch, Numbered, SessionInv, BatchFrames
  <1>2. ids \subseteq DroneIds
    BY Mu2Frames DEF DroneInv, Records
  <1>3. BatchFrames'
    <2>1. ASSUME NEW f \in net'
          PROVE  (/\ f.kind = "mu1" => f \in mu1s
                  /\ f.kind = "mu2" =>
                        f.id \in DroneIds /\ \E j \in mu1s : f.g2 = j.m1 /\ f.g3 = j.pid
                  /\ f.kind = "mu3" =>
                        /\ f.id \in DroneIds /\ f.did = Did(f.id, f.n)
                        /\ f.Kj = Point(Kj(f.id, f.n))
                        /\ \E j \in mu1s : f.sig = Schnorr(f.Kj, j.pid, f.did, j.m1))
      <3>1. CASE f \in net
        BY <3>1 DEF SessionInv, BatchFrames
      <3>2. CASE f.kind = "mu2" /\ f.id \in ids /\ f.g2 = m.m1 /\ f.g3 = m.pid
        BY <1>1, <1>2, <3>2
      <3> QED
        BY <3>1, <3>2, Mu2Frames
    <2> QED
      BY <1>1, <2>1 DEF BatchFrames
  <1>4. Keys' /\ Stashed' /\ Sessions'
    BY <1>1 DEF SessionInv, Keys, Stashed, Sessions
  <1> QED
    BY <1>3, <1>4 DEF SessionInv

LEMMA EstablishStep ==
    ASSUME SessionInv, NEW m, VerifyMu3(m)
    PROVE  SessionInv'
  <1> DEFINE entry == [id |-> m.id, n |-> m.n, X |-> Point(user.x), key |-> UserKey(m)]
  <1>1. /\ UNCHANGED <<count, device, user, mu1s>> /\ net' \subseteq net
        /\ m \in net /\ m.kind = "mu3" /\ user.x # Nothing
    BY DEF VerifyMu3
  <1>2. Keys' /\ Stashed' /\ BatchFrames'
    BY <1>1 DEF SessionInv, Keys, Stashed, BatchFrames
  <1>3. CASE UNCHANGED sessions
    BY <1>1, <1>2, <1>3 DEF SessionInv, Sessions
  <1>4. CASE sessions' # sessions
    <2>1. /\ m.sig = Schnorr(m.Kj, user.pid, m.did, Point(user.x))
          /\ sessions' = sessions \cup {entry}
      BY <1>4 DEF VerifyMu3
    <2>2. PICK k \in 1 .. count.key : user.x = Atom("x", k)
      BY <1>1 DEF SessionInv, Keys
    <2>3. /\ m.id \in DroneIds /\ m.did = Did(m.id, m.n) /\ m.Kj = Point(Kj(m.id, m.n))
          /\ \E j \in mu1s : m.sig = Schnorr(m.Kj, j.pid, m.did, j.m1)
      BY <1>1 DEF SessionInv, BatchFrames
    <2>4. PICK j \in mu1s : m.sig = Schnorr(m.Kj, j.pid, m.did, j.m1)
      BY <2>3
    <2>5. j.pid = user.pid /\ j.m1 = Point(user.x)
      <3> DEFINE X == Point(user.x)
                 Kj_ == m.Kj
                 did == m.did
      <3>1. Schnorr(Kj_, j.pid, did, j.m1) = Schnorr(Kj_, user.pid, did, X)
        BY <2>1, <2>4
      <3> HIDE DEF X, Kj_, did
      <3>2. j.pid = user.pid /\ j.m1 = X
        BY <3>1, SchnorrIsOfOne
      <3> QED
        BY <3>2 DEF X
    <2>6. entry.id = m.id /\ entry.n = m.n /\ entry.X = Point(user.x) /\ entry.key = UserKey(m)
      OBVIOUS
    <2> HIDE DEF entry
    <2>7. /\ entry.id \in DroneIds /\ entry.X = Point(Atom("x", k)) /\ j.m1 = entry.X
          /\ entry.key = H(<<j.pid, Did(entry.id, entry.n),
                             ScalarMult(Atom("x", k), Point(Kj(entry.id, entry.n))),
                             Point(Kj(entry.id, entry.n))>>)
      BY <2>2, <2>3, <2>5, <2>6 DEF UserKey
    <2>8. Sessions'
      BY <1>1, <2>1, <2>7 DEF SessionInv, Sessions
    <2> QED
      BY <1>2, <2>8 DEF SessionInv
  <1> QED
    BY <1>3, <1>4

LEMMA SessionInvStep ==
    ASSUME DroneInv, UserInv, SessionInv, [Next]_vars
    PROVE  SessionInv'
  <1>1. Numbered
    BY DEF DroneInv
  <1>2. CASE UNCHANGED vars
    BY <1>2, SessionInvStable DEF vars
  <1>3. CASE Initialize
    BY <1>3, SessionInvStable DEF Initialize
  <1>4. ASSUME NEW d \in DroneIds, BeginDrone(d) PROVE SessionInv'
    <2>1. /\ UNCHANGED <<user, mu1s, sessions>> /\ count'.key = count.key
          /\ \A m \in net' : m \in net \/ m.kind = "enroll_drone"
          /\ device' = [device EXCEPT ![d] = Unenrolled(count.drone + 1)]
      BY <1>1, <1>4 DEF BeginDrone, Numbered, Unenrolled
    <2>2. \A e \in DroneIds : device'[e] = device[e] \/ device'[e].point = Nothing
      BY <2>1, ObjectIs DEF DroneInv, Objects
    <2> QED
      BY <2>1, <2>2, SessionInvStable
  <1>5. CASE BeginUser
    <2>1. /\ UNCHANGED <<device, mu1s, sessions>> /\ count'.key = count.key
          /\ \A m \in net' : m \in net \/ m.kind = "enroll_user"
      BY <1>1, <1>5 DEF BeginUser, Numbered
    <2>2. user'.x = user.x
      BY <1>5 DEF BeginUser, UserInv, Wallet
    <2> QED
      BY <2>1, <2>2, SessionInvStable
  <1>6. CASE BuildMu1
    BY <1>1, <1>6, DrawKeyStep
  <1>7. ASSUME NEW m, EnrollDrone(m) PROVE SessionInv'
    <2>1. UNCHANGED <<device, user, mu1s, sessions, count>> /\ net' \subseteq net
      BY <1>7 DEF EnrollDrone
    <2> QED
      BY <2>1, SessionInvStable
  <1>8. ASSUME NEW m, StoreCredentials(m) PROVE SessionInv'
    <2>1. UNCHANGED <<user, mu1s, sessions, count>> /\ net' \subseteq net
      BY <1>8 DEF StoreCredentials
    <2>2. CASE UNCHANGED device
      BY <2>1, <2>2, SessionInvStable
    <2>3. CASE device' # device
      <3>1. /\ \A e \in DroneIds : e # m.id => device'[e] = device[e]
            /\ device'[m.id] = Enrolled(m.id, m.n, device[m.id].point, device[m.id].pid)
        BY <1>8, <2>3, StoreCredentialsEffect
      <3>2. /\ device'[m.id].point = device[m.id].point /\ device'[m.id].pid = device[m.id].pid
            /\ device'[m.id].did # Nothing
        BY <3>1, ObjectIs
      <3> QED
        BY <2>1, <3>1, <3>2, SessionInvStable
    <2> QED
      BY <2>2, <2>3
  <1>9. ASSUME NEW m, EnrollUser(m) PROVE SessionInv'
    <2>1. UNCHANGED <<device, user, mu1s, sessions, net>> /\ count'.key = count.key
      BY <1>1, <1>9 DEF EnrollUser, Numbered
    <2> QED
      BY <2>1, SessionInvStable
  <1>10. ASSUME NEW m, CompleteUser(m) PROVE SessionInv'
    <2>1. UNCHANGED <<device, mu1s, sessions, count>> /\ net' \subseteq net
      BY <1>10 DEF CompleteUser
    <2>2. user'.x = user.x
      BY <1>10 DEF CompleteUser, UserInv, Wallet
    <2> QED
      BY <2>1, <2>2, SessionInvStable
  <1>11. ASSUME NEW m, NEW ids, BuildMu2Batch(m, ids) PROVE SessionInv'
    BY <1>1, <1>11, ForwardStep
  <1>12. ASSUME NEW m, HandleMu2(m) PROVE SessionInv'
    BY <1>12, RespondStep
  <1>13. ASSUME NEW m, VerifyMu3(m) PROVE SessionInv'
    BY <1>13, EstablishStep
  <1>14. ASSUME NEW t, IndexDrone(t) PROVE SessionInv'
    BY <1>14, SessionInvStable DEF IndexDrone
  <1>15. ASSUME NEW t, StorePair(t) PROVE SessionInv'
    <2>1. /\ UNCHANGED <<device, user, mu1s, sessions, count>>
          /\ \A k \in net' : k \in net \/ k.kind = "credentials"
      BY <1>15 DEF StorePair
    <2> QED
      BY <2>1, SessionInvStable
  <1>16. ASSUME NEW t, IndexUser(t) PROVE SessionInv'
    <2>1. /\ UNCHANGED <<device, user, mu1s, sessions, count>>
          /\ \A k \in net' : k \in net \/ k.kind = "user_reply"
      BY <1>16 DEF IndexUser
    <2> QED
      BY <2>1, SessionInvStable
  <1> QED
    BY <1>2, <1>3, <1>4, <1>5, <1>6, <1>7, <1>8, <1>9, <1>10, <1>11, <1>12, <1>13, <1>14,
       <1>15, <1>16 DEF Next

LEMMA SessionInvInit ==
    ASSUME Init
    PROVE  SessionInv
  <1>1. \A d \in DroneIds : device[d].point = Nothing
    BY DEF Init, NoDrone
  <1> QED
    BY <1>1 DEF Init, SessionInv, Keys, Stashed, BatchFrames, Sessions, NoUser

-----------------------------------------------------------------------------
(* What the runs check *)

IInv == DroneInv /\ UserInv /\ SessionInv

\* The inductive invariant of the classes: every table, frame and stash goes
\* back to the object or the enrollment it was made for.
THEOREM EnrollmentInvariant == Spec => []IInv
  <1>1. Init => IInv
    BY DroneInvInit, UserInvInit, SessionInvInit DEF IInv
  <1>2. IInv /\ [Next]_vars => IInv'
    BY DroneInvStep, UserInvStep, SessionInvStep DEF IInv
  <1> QED
    BY <1>1, <1>2, PTL DEF Spec

\* add_drone, add_user and CRPStore.enroll: the writes of concurrent enrollments
\* mix in any way, and the tables agree on whom no thread is at work for; an
\* index entry always leads to a record, and who was answered is in all tables.
THEOREM TablesAlwaysAgree == Spec => []TablesAgree
  <1>1. IInv => TablesAgree
    <2> SUFFICES ASSUME IInv PROVE TablesAgree
      OBVIOUS
    <2>1. \A pid \in DOMAIN pids : pids[pid] \in DOMAIN users
      BY DEF IInv, UserInv, Accounts
    <2>2. ASSUME NEW uid \in DOMAIN users, ~UserAtWork(uid)
          PROVE  users[uid].pid \in DOMAIN pids /\ pids[users[uid].pid] = uid
      <3> DEFINE rec == users[uid]
      <3>1. /\ rec.uid = uid
            /\ rec.pid \in DOMAIN pids \/ Replying(rec) \in threads
            /\ \E i : rec.pid = Pid(uid, i)
        BY <2>2 DEF IInv, UserInv, Accounts
      <3>2. Replying(rec).kind = "user" /\ Replying(rec).rec = rec
        BY DEF Replying
      <3> HIDE DEF rec
      <3>3. rec.pid \in DOMAIN pids
        BY <2>2, <3>1, <3>2 DEF UserAtWork
      <3>4. \E i : rec.pid = Pid(pids[rec.pid], i)
        BY <3>3 DEF IInv, UserInv, Accounts
      <3>5. pids[rec.pid] = uid
        BY <3>1, <3>4, PidsDiffer
      <3> QED
        BY <3>3, <3>5 DEF rec
    <2>3. user.pid # Nothing => user.pid \in DOMAIN pids
      BY DEF IInv, UserInv, Wallet
    <2> QED
      BY <2>1, <2>2, <2>3, DroneTablesAgree DEF IInv, TablesAgree, Crp, Rest
  <1> QED
    BY <1>1, EnrollmentInvariant, PTL

\* _local_login: the password opens what the latest completed enrollment has
\* stored until the next begins, no other does, and it yields the server's secret.
THEOREM LoginAlwaysSound == Spec => []LoginIsSound
  <1>1. IInv => LoginIsSound
    <2> SUFFICES ASSUME IInv PROVE LoginIsSound
      OBVIOUS
    <2>1. Atom("password", 1) # Password
      BY AtomIsInjective DEF Password
    <2>2. user.pid \in DOMAIN pids => pids[user.pid] \in DOMAIN users
      BY DEF IInv, UserInv, Accounts
    <2> QED
      BY <2>1, <2>2, LoginIs DEF IInv, LoginIsSound, Sigma
  <1> QED
    BY <1>1, EnrollmentInvariant, PTL

\* verify_mu1: a mu1 stays acceptable whatever is enrolled after it was built.
THEOREM Mu1AlwaysAccepted == Spec => []Mu1Accepted
  <1>1. IInv => Mu1Accepted
    BY DEF IInv, UserInv
  <1> QED
    BY <1>1, EnrollmentInvariant, PTL

\* handle_mu2: only a record that a late enrollment left keeps an enrolled drone
\* from accepting what build_mu2_batch makes for it.
THEOREM ShutOutOnlyWhenOvertaken == Spec => []AcceptedUnlessOvertaken
  <1>1. IInv => AcceptedUnlessOvertaken
    <2> SUFFICES ASSUME IInv, NEW d \in DroneIds, device[d].did # Nothing,
                        ~ \E n \in late : n < device[d].n /\ drones[d].challenge = Challenge(n),
                        NEW m \in mu1s
                 PROVE  Accepts(device[d],
                            [g2 |-> m.m1, g3 |-> m.pid,
                             yj |-> H(<<drones[d].ksd, drones[d].did, m.pid, m.m1>>)])
      BY DEF AcceptedUnlessOvertaken
    <2> DEFINE k == device[d].n
    <2>1. /\ device[d] = Enrolled(d, k, device[d].point, device[d].pid)
          /\ device[d].did = Did(d, k) /\ <<d, k>> \in stored
      BY CredentialsAre DEF IInv, Done
    <2>2. k \in 0 .. count.drone /\ count.drone \in 0 .. MaxDrones /\ MaxDrones \in Nat
      BY BoundsAssumption DEF IInv, DroneInv, Objects, Numbered
    <2>3. d \in DOMAIN drones
      BY <2>1 DEF IInv, DroneInv, Stored
    <2>4. PICK n \in 1 .. count.drone :
              /\ drones[d] = Record(d, n) /\ n <= k
              /\ (\E l \in n + 1 .. MaxDrones : <<d, l>> \in stored) => n \in late
      BY <2>3 DEF IInv, DroneInv, Records
    <2>5. n = k
      <3> SUFFICES ASSUME n # k PROVE FALSE
        OBVIOUS
      <3>1. n < k /\ k \in n + 1 .. MaxDrones
        BY <2>2, <2>4
      <3>2. n \in late
        BY <2>1, <2>4, <3>1
      <3>3. drones[d].challenge = Challenge(n)
        BY <2>4, RecordIs
      <3> QED
        BY <3>1, <3>2, <3>3
    <2>6. device[d].ksd = Ksd(d, k)
      BY <2>1 DEF Enrolled
    <2>7. drones[d].ksd = device[d].ksd /\ drones[d].did = device[d].did
      <3> DEFINE rec == Record(d, k)
      <3>1. rec.ksd = Ksd(d, k) /\ rec.did = Did(d, k)
        <4> HIDE DEF k
        <4> QED
          BY RecordIs
      <3> HIDE DEF rec
      <3>2. drones[d] = rec
        BY <2>4, <2>5 DEF rec
      <3> QED
        BY <2>1, <2>6, <3>1, <3>2
    <2> DEFINE yj == H(<<drones[d].ksd, drones[d].did, m.pid, m.m1>>)
               f == [g2 |-> m.m1, g3 |-> m.pid, yj |-> yj]
    <2>8. f.g2 = m.m1 /\ f.g3 = m.pid /\ f.yj = yj
      OBVIOUS
    <2>9. yj = H(<<device[d].ksd, device[d].did, m.pid, m.m1>>)
      BY <2>7
    <2> HIDE DEF yj, f
    <2>10. Accepts(device[d], f)
      BY <2>8, <2>9 DEF Accepts
    <2> QED
      BY <2>10 DEF yj, f
  <1> QED
    BY <1>1, EnrollmentInvariant, PTL

\* derive_session_key of Drone and of User: the two keys of a session are one,
\* whatever was enrolled again between mu1 and the derivations.
THEOREM KeysAlwaysAgree == Spec => []KeysAgree
  <1>1. IInv => KeysAgree
    <2> SUFFICES ASSUME IInv, NEW e \in sessions,
                        device[e.id].n = e.n, device[e.id].point = e.X
                 PROVE  DroneKey(device[e.id]) = e.key
      BY DEF KeysAgree
    <2> DEFINE o == device[e.id]
               Kd == Kj(e.id, e.n)
    <2>1. PICK m \in mu1s, k \in 1 .. count.key :
              /\ e.X = Point(Atom("x", k)) /\ m.m1 = e.X
              /\ e.key = H(<<m.pid, Did(e.id, e.n), ScalarMult(Atom("x", k), Point(Kd)), Point(Kd)>>)
      BY DEF IInv, SessionInv, Sessions
    <2>2. e.id \in DroneIds
      BY DEF IInv, SessionInv, Sessions
    <2>3. o.point # Nothing
      BY <2>1, TermsAreNotNothing
    <2>4. o.did # Nothing /\ \E j \in mu1s : o.point = j.m1 /\ o.pid = j.pid
      BY <2>2, <2>3 DEF IInv, SessionInv, Stashed
    <2>5. o.pid = m.pid
      BY <2>1, <2>4 DEF IInv, SessionInv, Keys
    <2>6. o.did = Did(e.id, e.n) /\ o.kj = Kd /\ o.Kj = Point(Kd)
      BY <2>2, <2>4, CredentialsAre DEF IInv
    <2>7. ScalarMult(Kd, Point(Atom("x", k))) = ScalarMult(Atom("x", k), Point(Kd))
      BY DiffieHellman
    <2> QED
      BY <2>1, <2>5, <2>6, <2>7 DEF DroneKey
  <1> QED
    BY <1>1, EnrollmentInvariant, PTL
=============================================================================
