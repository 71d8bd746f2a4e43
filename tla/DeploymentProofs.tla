-------------------------- MODULE DeploymentProofs ---------------------------
(***************************************************************************)
(* Proofs about the socket deployment, for any number of drones, users,    *)
(* process starts and server restarts: the two drone lists that            *)
(* _process_mu1 zips stay aligned, and no drone is sent another one's mu2; *)
(* variables and frames have their types; an acknowledged drone is known   *)
(* to the server; and a user's request fails only by a restart.            *)
(***************************************************************************)
EXTENDS Deployment, SequenceTheorems, TLAPS

\* A list was read from the database at some time: the database may have grown
\* since and have newer records, but the drones of the list are still the first.
ReadFrom(list, table) ==
    /\ Len(list) <= Len(table)
    /\ \A i \in 1 .. Len(list) : list[i].id = table[i].id

\* Threads inside _process_mu1.
ThreadInv ==
    \A u \in Users :
        /\ auth[u].mu2 \in Seq(Records) /\ ReadFrom(auth[u].mu2, drones)
        /\ auth[u].snap \in Seq(Records) /\ ReadFrom(auth[u].snap, drones)
        /\ auth[u].pos \in Nat
        /\ auth[u].pc = "sending" => auth[u].pos >= 1

\* Frames that carry a drone's identity.
FrameOK(f) ==
    /\ f.kind = "ENROLL_DRONE" => f.from[1] \in Drones /\ f.from[2] \in Incarnations
    /\ f.kind = "MU2" => f.to[1] = f.rec.id

\* The inductive invariant.
IInv ==
    /\ drones \in Seq(Records)
    /\ auth \in [Users -> [pc : {"idle", "built", "sending"}, mu2 : Seq(Records),
                           snap : Seq(Records), pos : Nat, info : Seq(Records)]]
    /\ ThreadInv
    /\ \A f \in net : FrameOK(f)
    /\ inc \in [Drones -> 0 .. MaxIncarnations]

-----------------------------------------------------------------------------
(* The database *)

\* Assigning a key again keeps its place; a new key goes to the end.
LEMMA PutProperties ==
    ASSUME NEW t \in Seq(Records), NEW r \in Records
    PROVE  /\ Put(t, r) \in Seq(Records)
           /\ Len(t) <= Len(Put(t, r))
           /\ \A i \in 1 .. Len(t) : Put(t, r)[i].id = t[i].id
<1>1. Len(t) \in Nat /\ DOMAIN t = 1 .. Len(t) /\ \A i \in 1 .. Len(t) : t[i] \in Records
  BY LenProperties, ElementOfSeq
<1>2. CASE \E i \in DOMAIN t : t[i].id = r.id
  <2> DEFINE s == [i \in 1 .. Len(t) |-> IF t[i].id = r.id THEN r ELSE t[i]]
  <2>1. Put(t, r) = s
    BY <1>1, <1>2 DEF Put
  <2>2. \A i \in 1 .. Len(t) : s[i] \in Records /\ s[i].id = t[i].id
    BY <1>1
  <2>3. s \in Seq(Records) /\ Len(s) = Len(t)
    BY <1>1, <2>2
  <2> QED
    BY <1>1, <2>1, <2>2, <2>3
<1>3. CASE ~\E i \in DOMAIN t : t[i].id = r.id
  <2>1. Put(t, r) = Append(t, r)
    BY <1>3 DEF Put
  <2>2. Append(t, r) \in Seq(Records) /\ Len(Append(t, r)) = Len(t) + 1
        /\ \A i \in 1 .. Len(t) : Append(t, r)[i] = t[i]
    BY <1>1, AppendProperties
  <2> QED
    BY <1>1, <2>1, <2>2
<1> QED
  BY <1>2, <1>3

\* A list read from a table is one read from the table after a Put.
LEMMA ReadFromPut ==
    ASSUME NEW t \in Seq(Records), NEW r \in Records, NEW list \in Seq(Records),
           ReadFrom(list, t)
    PROVE  ReadFrom(list, Put(t, r))
<1>1. Len(list) \in Nat /\ Len(t) \in Nat /\ Len(Put(t, r)) \in Nat
  BY PutProperties, LenProperties
<1>2. Len(list) <= Len(t) /\ \A i \in 1 .. Len(list) : i \in 1 .. Len(t)
  BY <1>1 DEF ReadFrom
<1> QED
  BY <1>1, <1>2, PutProperties DEF ReadFrom

LEMMA ReadFromSelf == ASSUME NEW t \in Seq(Records) PROVE ReadFrom(t, t)
  BY LenProperties DEF ReadFrom

LEMMA ReadFromEmpty ==
    ASSUME NEW t \in Seq(Records)
    PROVE  /\ <<>> \in Seq(Records) /\ ReadFrom(<<>>, t)
  BY LenProperties, EmptySeq DEF ReadFrom

-----------------------------------------------------------------------------
(* Steps that only exchange other frames *)

\* Drones and users add no mu2, and enrol under their own identity.
LEMMA OthersKeepIInv ==
    ASSUME IInv, UNCHANGED csVars, inc' \in [Drones -> 0 .. MaxIncarnations],
           \A f \in net' : f \in net \/ FrameOK(f)
    PROVE  IInv'
<1>1. \A f \in net' : FrameOK(f)
  BY DEF IInv
<1> QED
  BY <1>1 DEF IInv, ThreadInv, csVars, ReadFrom, FrameOK

LEMMA GoneRemoves ==
    ASSUME NEW e, NEW p, Gone(e, p)
    PROVE  net' \subseteq net
  BY DEF Gone

LEMMA AnswerAdds ==
    ASSUME NEW c, NEW p, NEW g, Answer(c, p, g)
    PROVE  net' \subseteq net \cup {g}
  BY DEF Answer

\* The replies of the server carry no drone identity.
LEMMA ReplyOK ==
    /\ \A kind \in {"DRONE_ACK", "USER_ACK", "ERROR"} : \A p : FrameOK(Reply(kind, p))
    /\ \A p, l : FrameOK(BatchReply(p, l))
  BY DEF FrameOK, Reply, BatchReply

LEMMA DroneKeepsIInv ==
    ASSUME IInv, DroneNext, UNCHANGED <<csVars, userVars>>
    PROVE  IInv'
<1>1. PICK d \in Drones : StartDrone(d) \/ DroneStep(d) \/ CrashDrone(d)
  BY DEF DroneNext
<1>2. inc \in [Drones -> 0 .. MaxIncarnations] /\ MaxIncarnations \in Nat
  BY NetworkAssumption DEF IInv
<1>3. CASE StartDrone(d)
  <2>1. inc' = [inc EXCEPT ![d] = @ + 1] /\ inc[d] < MaxIncarnations
        /\ net' = net \cup {Request("ENROLL_DRONE", DroneProc(d, inc[d] + 1))}
    BY <1>3 DEF StartDrone, Connect
  <2>2. inc' \in [Drones -> 0 .. MaxIncarnations] /\ inc[d] + 1 \in Incarnations
    BY <1>2, <2>1 DEF Incarnations
  <2>3. FrameOK(Request("ENROLL_DRONE", DroneProc(d, inc[d] + 1)))
    BY <2>2 DEF FrameOK, Request, DroneProc
  <2> QED
    BY <2>1, <2>2, <2>3, OthersKeepIInv
<1>4. CASE ~StartDrone(d)
  <2>1. inc' = inc
    BY <1>1, <1>4 DEF DroneStep, CrashDrone, StoreCredentials, BindListener, EnrollmentFails,
          DroneGone, RejectMu2, AcceptMu2, ServeStep, StashPid, SendMu3, SendRefused, ReadPid,
          ReadPoint, SendData, droneVars
  <2>2. \A f \in net' : f \in net \/ FrameOK(f)
    <3>1. CASE CrashDrone(d) \/ EnrollmentFails(d)
      BY <3>1, GoneRemoves DEF CrashDrone, EnrollmentFails, DroneGone
    <3>2. CASE StoreCredentials(d) \/ BindListener(d)
      BY <3>2 DEF StoreCredentials, BindListener
    <3>3. CASE \E f \in net : RejectMu2(d, f) \/ AcceptMu2(d, f)
      BY <3>3 DEF RejectMu2, AcceptMu2
    <3>4. ASSUME NEW u \in Users, ServeStep(d, u) PROVE \A f \in net' : f \in net \/ FrameOK(f)
      <4>1. \A p, r : FrameOK(Mu3Frame(p, u, r))
        BY DEF FrameOK, Mu3Frame
      <4>2. \A p, r, x, y : FrameOK(DataFrame(p, r, x, y))
        BY DEF FrameOK, DataFrame
      <4>3. CASE SendMu3(d, u)
        BY <4>1, <4>3 DEF SendMu3
      <4>4. CASE SendData(d, u)
        BY <4>2, <4>4 DEF SendData
      <4>5. CASE StashPid(d, u) \/ SendRefused(d, u) \/ ReadPid(d, u) \/ ReadPoint(d, u)
        BY <4>5 DEF StashPid, SendRefused, ReadPid, ReadPoint, netVars
      <4> QED
        BY <3>4, <4>3, <4>4, <4>5 DEF ServeStep
    <3> QED
      BY <1>1, <1>4, <3>1, <3>2, <3>3, <3>4 DEF DroneStep
  <2> QED
    BY <1>2, <2>1, <2>2, OthersKeepIInv
<1> QED
  BY <1>3, <1>4

LEMMA UserKeepsIInv ==
    ASSUME IInv, UserNext, UNCHANGED <<csVars, droneVars>>
    PROVE  IInv'
<1>1. inc' \in [Drones -> 0 .. MaxIncarnations]
  BY DEF IInv, droneVars
<1>2. \A f \in net' : f \in net \/ FrameOK(f)
  <2>1. \A p : FrameOK(Request("ENROLL_USER", p)) /\ FrameOK(Request("MU1", p))
    BY DEF FrameOK, Request
  <2>2. CASE RequestEnrollment \/ SendMu1
    BY <2>1, <2>2 DEF RequestEnrollment, SendMu1, Connect
  <2>3. CASE UserFails \/ UserExits
    BY <2>3, GoneRemoves DEF UserFails, UserExits, UserGone
  <2>4. CASE StartUser \/ CompleteEnrollment \/ VerifyBatch \/ EstablishSessions
    BY <2>4 DEF StartUser, CompleteEnrollment, VerifyBatch, EstablishSessions, netVars
  <2>5. CASE \E f \in net : GetBatchReply(f) \/ HandleMu3(f) \/ HandleData(f)
    BY <2>5 DEF GetBatchReply, HandleMu3, HandleData
  <2>6. CASE \E received \in counted : CompareCount(received)
    BY <2>6 DEF CompareCount, netVars
  <2> QED
    BY <2>2, <2>3, <2>4, <2>5, <2>6 DEF UserNext, UserStep
<1> QED
  BY <1>1, <1>2, OthersKeepIInv

-----------------------------------------------------------------------------
(* The steps of the control server *)

\* Steps that leave the lists alone.
LEMMA ListsUnchanged ==
    ASSUME IInv, UNCHANGED <<drones, auth, inc>>, \A f \in net' : f \in net \/ FrameOK(f)
    PROVE  IInv'
<1>1. \A f \in net' : FrameOK(f)
  BY DEF IInv
<1> QED
  BY <1>1 DEF IInv, ThreadInv, ReadFrom, FrameOK

\* Steps of one authentication thread.
LEMMA ThreadSteps ==
    ASSUME IInv, UNCHANGED <<drones, inc>>, \A f \in net' : f \in net \/ FrameOK(f),
           NEW u \in Users,
           NEW t \in AuthThreads, auth' = [auth EXCEPT ![u] = t],
           ReadFrom(t.mu2, drones), ReadFrom(t.snap, drones),
           t.pc = "sending" => t.pos >= 1
    PROVE  IInv'
<1>1. \A f \in net' : FrameOK(f)
  BY DEF IInv
<1>2. auth' \in [Users -> AuthThreads]
  BY DEF IInv, AuthThreads
<1>3. ThreadInv'
  <2> SUFFICES ASSUME NEW v \in Users
               PROVE  /\ auth'[v].mu2 \in Seq(Records) /\ ReadFrom(auth'[v].mu2, drones)
                      /\ auth'[v].snap \in Seq(Records) /\ ReadFrom(auth'[v].snap, drones)
                      /\ auth'[v].pos \in Nat
                      /\ auth'[v].pc = "sending" => auth'[v].pos >= 1
    BY DEF ThreadInv, ReadFrom
  <2>1. CASE v = u
    <3>1. auth'[v] = t
      BY <2>1 DEF IInv
    <3> QED
      BY <3>1 DEF AuthThreads
  <2>2. CASE v # u
    <3>1. auth'[v] = auth[v]
      BY <2>2 DEF IInv
    <3> QED
      BY <3>1 DEF IInv, ThreadInv
  <2> QED
    BY <2>1, <2>2
<1> QED
  BY <1>1, <1>2, <1>3 DEF IInv, FrameOK, AuthThreads

LEMMA EnrollDroneStep ==
    ASSUME IInv, NEW f \in net, EnrollDrone(f), UNCHANGED <<droneVars, userVars>>
    PROVE  IInv'
<1> DEFINE rec == Record(f.from[1], f.from[2])
<1>1. drones' = Put(drones, rec) /\ auth' = auth /\ net' \subseteq net /\ inc' = inc
  BY DEF EnrollDrone, droneVars
<1>2. rec \in Records
  BY DEF IInv, FrameOK, EnrollDrone, Record, Records
<1> HIDE DEF rec
<1>3. drones \in Seq(Records)
  BY DEF IInv
<1>4. drones' \in Seq(Records)
  BY <1>1, <1>2, <1>3, PutProperties
<1>5. ASSUME NEW list \in Seq(Records), ReadFrom(list, drones)
      PROVE  ReadFrom(list, drones')
  BY <1>1, <1>2, <1>3, <1>5, ReadFromPut
<1>6. ThreadInv'
  <2> SUFFICES ASSUME NEW v \in Users
               PROVE  /\ auth[v].mu2 \in Seq(Records) /\ ReadFrom(auth[v].mu2, drones')
                      /\ auth[v].snap \in Seq(Records) /\ ReadFrom(auth[v].snap, drones')
                      /\ auth[v].pos \in Nat
                      /\ auth[v].pc = "sending" => auth[v].pos >= 1
    BY <1>1 DEF ThreadInv, ReadFrom
  <2> QED
    BY <1>5 DEF IInv, ThreadInv
<1> QED
  BY <1>1, <1>4, <1>6 DEF IInv, FrameOK

\* The mu2 list and the second list are both read from the database, so the
\* mu2 sent at a position is the one of the drone at that position.
LEMMA SameDrone ==
    ASSUME IInv, NEW u \in Users, NEW i \in Nat, i >= 1,
           i <= Len(auth[u].mu2), i <= Len(auth[u].snap)
    PROVE  auth[u].mu2[i].id = auth[u].snap[i].id
<1>1. /\ auth[u].mu2 \in Seq(Records) /\ ReadFrom(auth[u].mu2, drones)
      /\ auth[u].snap \in Seq(Records) /\ ReadFrom(auth[u].snap, drones)
  BY DEF IInv, ThreadInv
<1>2. Len(auth[u].mu2) \in Nat /\ Len(auth[u].snap) \in Nat
  BY <1>1, LenProperties
<1>3. i \in 1 .. Len(auth[u].mu2) /\ i \in 1 .. Len(auth[u].snap)
  BY <1>2
<1> QED
  BY <1>1, <1>3 DEF ReadFrom

LEMMA AuthStepKeepsIInv ==
    ASSUME IInv, NEW u \in Users, AuthStep(u), UNCHANGED <<droneVars, userVars>>
    PROVE  IInv'
<1>1. /\ auth \in [Users -> AuthThreads] /\ auth[u] \in AuthThreads
      /\ drones \in Seq(Records) /\ inc' = inc /\ drones' = drones
      /\ ReadFrom(auth[u].mu2, drones) /\ ReadFrom(auth[u].snap, drones)
      /\ auth[u].pos \in Nat /\ (auth[u].pc = "sending" => auth[u].pos >= 1)
  BY DEF IInv, AuthThreads, ThreadInv, droneVars, AuthStep, SnapshotDrones, SkipUnaddressed,
         ForwardMu2, ForwardFails, ReplyToUser
<1>2. IdleThread \in AuthThreads /\ ReadFrom(<<>>, drones)
  BY <1>1, ReadFromEmpty DEF IdleThread, AuthThreads
<1>3. CASE SnapshotDrones(u)
  <2> DEFINE t == [auth[u] EXCEPT !.pc = "sending", !.snap = drones, !.pos = 1]
  <2>1. t \in AuthThreads /\ t.mu2 = auth[u].mu2 /\ t.snap = drones /\ t.pos = 1
    BY <1>1 DEF AuthThreads
  <2>2. auth' = [auth EXCEPT ![u] = t] /\ net' = net
    BY <1>1, <1>3 DEF SnapshotDrones, netVars
  <2>3. ReadFrom(t.mu2, drones) /\ ReadFrom(t.snap, drones) /\ t.pos >= 1
    BY <1>1, <2>1, ReadFromSelf
  <2>4. \A f \in net' : f \in net \/ FrameOK(f)
    BY <2>2
  <2> HIDE DEF t
  <2> QED
    BY <1>1, <2>1, <2>2, <2>3, <2>4, ThreadSteps
<1>4. CASE SkipUnaddressed(u) \/ ForwardFails(u)
  <2> DEFINE t == [auth[u] EXCEPT !.pos = @ + 1]
  <2> DEFINE a == auth[u]
  <2>1. t \in AuthThreads /\ t.mu2 = auth[u].mu2 /\ t.snap = auth[u].snap /\ t.pos >= 1
    <3>1. a \in AuthThreads /\ a.pos + 1 \in Nat /\ a.pos + 1 >= 1
      BY <1>1
    <3>2. t = [a EXCEPT !.pos = a.pos + 1]
      OBVIOUS
    <3> HIDE DEF a, t
    <3>3. t \in AuthThreads /\ t.mu2 = a.mu2 /\ t.snap = a.snap /\ t.pos = a.pos + 1
      BY <3>1, <3>2 DEF AuthThreads
    <3> QED
      BY <3>1, <3>3 DEF a
  <2>2. auth' = [auth EXCEPT ![u] = t] /\ net' = net
    BY <1>1, <1>4 DEF SkipUnaddressed, ForwardFails, Advance, netVars
  <2> HIDE DEF t
  <2> QED
    BY <1>1, <2>1, <2>2, ThreadSteps
<1>5. CASE ForwardMu2(u)
  <2> DEFINE i == auth[u].pos
             t == [auth[u] EXCEPT !.pos = @ + 1, !.info = Append(@, auth[u].snap[i])]
             g == Mu2Frame(DroneProc(Target(u), listener[Target(u)]), u, auth[u].mu2[i])
  <2>1. i >= 1 /\ i <= Len(auth[u].mu2) /\ i <= Len(auth[u].snap)
    BY <1>1, <1>5 DEF ForwardMu2, Zipping
  <2>2. auth[u].snap[i] \in Records
    BY <1>1, <2>1, ElementOfSeq DEF AuthThreads
  <2> DEFINE a == auth[u]
             info == Append(a.info, a.snap[i])
  <2>3. t \in AuthThreads /\ t.mu2 = auth[u].mu2 /\ t.snap = auth[u].snap /\ t.pos >= 1
    <3>1. a \in AuthThreads /\ a.pos + 1 \in Nat /\ a.pos + 1 >= 1
      BY <1>1
    <3>2. t = [a EXCEPT !.pos = a.pos + 1, !.info = info]
      OBVIOUS
    <3>3. info \in Seq(Records)
      BY <1>1, <2>2, AppendProperties DEF AuthThreads
    <3> HIDE DEF a, t, info
    <3>4. t \in AuthThreads /\ t.mu2 = a.mu2 /\ t.snap = a.snap /\ t.pos = a.pos + 1
      BY <3>1, <3>2, <3>3 DEF AuthThreads
    <3> QED
      BY <3>1, <3>4 DEF a
  <2>4. auth' = [auth EXCEPT ![u] = t] /\ net' = net \cup {g}
    BY <1>1, <1>5 DEF ForwardMu2, Advance
  <2>5. FrameOK(g)
    BY <1>1, <2>1, SameDrone DEF FrameOK, Mu2Frame, DroneProc, Target
  <2> HIDE DEF t, g
  <2> QED
    BY <1>1, <2>3, <2>4, <2>5, ThreadSteps
<1>6. CASE ReplyToUser(u)
  <2>1. net' \subseteq net \cup {BatchReply(UserProc(u), auth[u].info)}
    BY <1>6, AnswerAdds DEF ReplyToUser
  <2>2. auth' = [auth EXCEPT ![u] = IdleThread]
    BY <1>6 DEF ReplyToUser
  <2>3. IdleThread.mu2 = <<>> /\ IdleThread.snap = <<>> /\ IdleThread.pc # "sending"
    BY DEF IdleThread
  <2> QED
    BY <1>1, <1>2, <2>1, <2>2, <2>3, ReplyOK, ThreadSteps
<1> QED
  BY <1>3, <1>4, <1>5, <1>6 DEF AuthStep

LEMMA CSKeepsIInv ==
    ASSUME IInv, CSNext, UNCHANGED <<droneVars, userVars>>
    PROVE  IInv'
<1>1. inc' = inc /\ drones \in Seq(Records)
  BY DEF IInv, droneVars
<1>2. ASSUME NEW f \in net, EnrollUser(f) \/ RejectMu1(f) PROVE IInv'
  <2>1. \E kind \in {"USER_ACK", "ERROR"} : net' \subseteq net \cup {Reply(kind, f.from)}
    BY <1>2, AnswerAdds DEF EnrollUser, RejectMu1
  <2>2. UNCHANGED <<drones, auth>>
    BY <1>2 DEF EnrollUser, RejectMu1, csVars
  <2> QED
    BY <1>1, <2>1, <2>2, ReplyOK, ListsUnchanged
<1>3. ASSUME NEW t \in enrolling, RegisterAddress(t) \/ AckDrone(t) PROVE IInv'
  <2>1. UNCHANGED <<drones, auth>>
    BY <1>3 DEF RegisterAddress, AckDrone
  <2>2. \A f \in net' : f \in net \/ FrameOK(f)
    <3>1. CASE RegisterAddress(t)
      BY <3>1 DEF RegisterAddress, netVars
    <3>2. CASE AckDrone(t)
      BY <3>2, AnswerAdds, ReplyOK DEF AckDrone
    <3> QED
      BY <1>3, <3>1, <3>2
  <2> QED
    BY <1>1, <2>1, <2>2, ListsUnchanged
<1>4. ASSUME NEW f \in net, BuildMu2Batch(f) PROVE IInv'
  <2> DEFINE u == f.from[2]
             t == [IdleThread EXCEPT !.pc = "built", !.mu2 = drones]
  <2>1. CASE u \in Users
    <3>1. t \in AuthThreads /\ t.mu2 = drones /\ t.snap = <<>> /\ t.pc = "built"
      BY <1>1, EmptySeq DEF AuthThreads, IdleThread
    <3>2. auth' = [auth EXCEPT ![u] = t] /\ net' \subseteq net /\ drones' = drones
      BY <1>4 DEF BuildMu2Batch
    <3> HIDE DEF t, u
    <3> QED
      BY <1>1, <2>1, <3>1, <3>2, ReadFromSelf, ReadFromEmpty, ThreadSteps
  <2>2. CASE u \notin Users
    <3>1. auth' = auth /\ net' \subseteq net /\ drones' = drones
      BY <1>4, <2>2 DEF BuildMu2Batch, IInv
    <3> QED
      BY <1>1, <3>1, ListsUnchanged
  <2> QED
    BY <2>1, <2>2
<1>5. CASE Restart
  <2>1. /\ drones' = <<>> /\ auth' = [u \in Users |-> IdleThread] /\ net' \subseteq net
    BY <1>5 DEF Restart
  <2>2. IdleThread \in AuthThreads /\ <<>> \in Seq(Records) /\ ReadFrom(<<>>, <<>>)
    BY EmptySeq, ReadFromEmpty DEF IdleThread, AuthThreads
  <2>3. ThreadInv'
    BY <2>1, <2>2 DEF ThreadInv, IdleThread, ReadFrom
  <2> QED
    BY <1>1, <2>1, <2>2, <2>3 DEF IInv, FrameOK, AuthThreads
<1> QED
  BY <1>2, <1>3, <1>4, <1>5, EnrollDroneStep, AuthStepKeepsIInv DEF CSNext, CSStep, EnrollStep

-----------------------------------------------------------------------------
(* The theorems *)

\* Every list that a thread of _process_mu1 has read from the database begins as
\* the database does now, whatever is enrolled meanwhile.
THEOREM Invariant == Spec => []IInv
<1>1. Init => IInv
  <2> SUFFICES ASSUME Init PROVE IInv
    OBVIOUS
  <2>1. /\ drones = <<>> /\ auth = [u \in Users |-> IdleThread] /\ net = {}
        /\ inc = [d \in Drones |-> 0]
    BY DEF Init, CSInit, NetInit, DroneInit
  <2>2. IdleThread \in AuthThreads /\ <<>> \in Seq(Records) /\ ReadFrom(<<>>, <<>>)
    BY EmptySeq, ReadFromEmpty DEF IdleThread, AuthThreads
  <2>3. ThreadInv
    BY <2>1, <2>2 DEF ThreadInv, IdleThread
  <2>4. inc \in [Drones -> 0 .. MaxIncarnations]
    BY <2>1, NetworkAssumption
  <2> QED
    BY <2>1, <2>2, <2>3, <2>4 DEF IInv, AuthThreads
<1>2. IInv /\ [Next]_vars => IInv'
  <2> SUFFICES ASSUME IInv, [Next]_vars PROVE IInv'
    OBVIOUS
  <2>1. CASE UNCHANGED vars
    <3>1. UNCHANGED <<drones, auth, inc, net>>
      BY <2>1 DEF vars, netVars, csVars, droneVars
    <3> QED
      BY <3>1, ListsUnchanged
  <2> QED
    BY <2>1, CSKeepsIInv, DroneKeepsIInv, UserKeepsIInv DEF Next
<1> QED
  BY <1>1, <1>2, PTL DEF Spec

\* _process_mu1 pairs each drone with its own mu2, however many drones enrol,
\* or enrol again, between the two reads of the database.
THEOREM ZipStaysAligned == Spec => []ZipAligned
<1>1. ASSUME IInv PROVE ZipAligned
  <2> SUFFICES ASSUME NEW u \in Users,
                      NEW i \in DOMAIN auth[u].mu2 \cap DOMAIN auth[u].snap
               PROVE  auth[u].mu2[i].id = auth[u].snap[i].id
    BY DEF ZipAligned
  <2>1. auth[u].mu2 \in Seq(Records) /\ auth[u].snap \in Seq(Records)
    BY <1>1 DEF IInv, ThreadInv
  <2>2. i \in 1 .. Len(auth[u].mu2) /\ i \in 1 .. Len(auth[u].snap)
    BY <2>1, LenProperties
  <2>3. Len(auth[u].mu2) \in Nat
    BY <2>1, LenProperties
  <2> QED
    BY <1>1, <2>2, <2>3, SameDrone
<1> QED
  BY Invariant, <1>1, PTL

\* No drone process is ever sent a mu2 made for another drone.
THEOREM Mu2IsNotMisrouted == Spec => []Mu2ReachesItsDrone
<1>1. IInv => Mu2ReachesItsDrone
  BY DEF IInv, FrameOK, Mu2ReachesItsDrone
<1> QED
  BY Invariant, <1>1, PTL
-----------------------------------------------------------------------------
(* Types: the frames on the wire *)

Procs == (Drones \X Incarnations) \cup ({User} \X Users)

LEMMA FramesSent ==
    /\ \A d \in Drones, k \in Incarnations :
          /\ Request("ENROLL_DRONE", DroneProc(d, k)) \in Frames
          /\ Reply("DRONE_ACK", DroneProc(d, k)) \in Frames
          /\ \A u \in Users, r \in Records : Mu2Frame(DroneProc(d, k), u, r) \in Frames
    /\ \A u \in Users :
          /\ Request("ENROLL_USER", UserProc(u)) \in Frames
          /\ Request("MU1", UserProc(u)) \in Frames
          /\ Reply("USER_ACK", UserProc(u)) \in Frames
          /\ Reply("ERROR", UserProc(u)) \in Frames
          /\ \A l \in Seq(Records) : BatchReply(UserProc(u), l) \in Frames
          /\ \A v \in Users, r \in Records : Mu3Frame(UserProc(u), v, r) \in Frames
          /\ \A r \in Records, p, x \in Users \cup {0} : DataFrame(UserProc(u), r, p, x) \in Frames
<1>1. ASSUME NEW d \in Drones, NEW k \in Incarnations
      PROVE  DroneProc(d, k) \in Drones \X Incarnations
  BY DEF DroneProc
<1>2. ASSUME NEW u \in Users PROVE UserProc(u) \in {User} \X Users
  BY DEF UserProc
<1> USE DEF Frames
<1>3. ASSUME NEW d \in Drones, NEW k \in Incarnations
      PROVE  /\ Request("ENROLL_DRONE", DroneProc(d, k)) \in Frames
             /\ Reply("DRONE_ACK", DroneProc(d, k)) \in Frames
  BY <1>1 DEF Request, Reply
<1>4. ASSUME NEW d \in Drones, NEW k \in Incarnations, NEW u \in Users, NEW r \in Records
      PROVE  Mu2Frame(DroneProc(d, k), u, r) \in Frames
  BY <1>1 DEF Mu2Frame
<1>5. ASSUME NEW u \in Users
      PROVE  /\ Request("ENROLL_USER", UserProc(u)) \in Frames
             /\ Request("MU1", UserProc(u)) \in Frames
  BY <1>2 DEF Request
<1>6. ASSUME NEW u \in Users
      PROVE  /\ Reply("USER_ACK", UserProc(u)) \in Frames
             /\ Reply("ERROR", UserProc(u)) \in Frames
  BY <1>2 DEF Reply
<1>7. ASSUME NEW u \in Users, NEW l \in Seq(Records)
      PROVE  BatchReply(UserProc(u), l) \in Frames
  BY <1>2 DEF BatchReply
<1>8. ASSUME NEW u \in Users, NEW v \in Users, NEW r \in Records
      PROVE  Mu3Frame(UserProc(u), v, r) \in Frames
  BY <1>2 DEF Mu3Frame
<1>9. ASSUME NEW u \in Users, NEW r \in Records, NEW p \in Users \cup {0}, NEW x \in Users \cup {0}
      PROVE  DataFrame(UserProc(u), r, p, x) \in Frames
  BY <1>2 DEF DataFrame
<1> QED
  BY <1>3, <1>4, <1>5, <1>6, <1>7, <1>8, <1>9

LEMMA FramesReceived ==
    ASSUME NEW f \in Frames
    PROVE  /\ f.kind = "ENROLL_DRONE" => f.from \in Drones \X Incarnations
           /\ f.kind \in {"ENROLL_USER", "MU1"} => f.from \in {User} \X Users
           /\ f.kind = "DRONE_ACK" => f.to \in Drones \X Incarnations
           /\ f.kind = "BATCH" => f.drones \in Seq(Records)
           /\ f.kind = "MU2" => /\ f.to \in Drones \X Incarnations
                                /\ f.user \in Users /\ f.rec \in Records
           /\ f.kind = "MU3" => f.user \in Users /\ f.rec \in Records
  BY DEF Frames
-----------------------------------------------------------------------------
(* Types *)

NetTypes == net \subseteq Frames /\ open \subseteq Procs

CSTypes ==
    /\ restarts \in 0 .. MaxRestarts
    /\ addrs \in [DOMAIN addrs -> {UserHost}] /\ DOMAIN addrs \subseteq Drones
    /\ users \subseteq Users
    /\ enrolling \subseteq EnrollThreads

DroneTypes ==
    /\ inc \in [Drones -> 0 .. MaxIncarnations]
    /\ phase \in [Drones -> {"down", "enrolling", "enrolled", "listening"}]
    /\ point \in [Drones -> Users \cup {0}] /\ pid \in [Drones -> Users \cup {0}]
    /\ serving \in [Drones -> [Users -> DroneThreads]]

UserTypes ==
    /\ cur \in 0 .. MaxUsers /\ stage \in Stages
    /\ numDrones \in Nat /\ batch \in Seq(Responses) /\ counted \subseteq 1 .. Len(batch)
    /\ ready \in BOOLEAN
    /\ valid \subseteq Records /\ invalid \subseteq Records /\ sessions \subseteq Records

\* A port belongs to the latest process of its program, while that process is
\* past binding it; a program that is running has been started.
Ports ==
    /\ listener \in [Drones \cup {User} -> Nat]
    /\ \A d \in Drones : listener[d] = IF phase[d] = "listening" THEN inc[d] ELSE 0
    /\ listener[User] = IF stage = "off" THEN 0 ELSE cur
    /\ \A d \in Drones : phase[d] # "down" => inc[d] # 0
    /\ \A d \in Drones : \A u \in Users : serving[d][u].pc # "none" => inc[d] # 0
    /\ stage # "off" => cur # 0

TypeInv == NetTypes /\ CSTypes /\ DroneTypes /\ UserTypes /\ Ports

\* A drone that listens, or a user that runs, is a process that can be sent to.
LEMMA Listening ==
    ASSUME TypeInv
    PROVE  /\ \A d \in Drones : listener[d] # 0 => listener[d] = inc[d] /\ inc[d] \in Incarnations
           /\ \A d \in Drones : phase[d] # "down" => inc[d] \in Incarnations
           /\ listener[User] # 0 => listener[User] = cur /\ cur \in Users
           /\ stage # "off" => cur \in Users
<1>1. MaxIncarnations \in Nat /\ MaxUsers \in Nat
  BY NetworkAssumption
<1>2. \A d \in Drones : inc[d] \in 0 .. MaxIncarnations
  BY DEF TypeInv, DroneTypes
<1>3. cur \in 0 .. MaxUsers
  BY DEF TypeInv, UserTypes
<1> QED
  BY <1>1, <1>2, <1>3 DEF TypeInv, Ports, Incarnations, Users

LEMMA AnswerTypes ==
    ASSUME NetTypes, NEW c, NEW p, NEW g \in Frames, Answer(c, p, g)
    PROVE  NetTypes'
  BY DEF Answer, NetTypes

LEMMA AuthStepTypes ==
    ASSUME IInv, TypeInv, NEW u \in Users, AuthStep(u)
    PROVE  NetTypes'
<1>1. CASE SnapshotDrones(u) \/ SkipUnaddressed(u) \/ ForwardFails(u)
  BY <1>1 DEF SnapshotDrones, SkipUnaddressed, ForwardFails, netVars, TypeInv, NetTypes
<1>2. CASE ForwardMu2(u)
  <2> DEFINE i == auth[u].pos  d == Target(u)
  <2>1. /\ auth[u].mu2 \in Seq(Records) /\ auth[u].snap \in Seq(Records)
        /\ i \in Nat /\ i >= 1 /\ i <= Len(auth[u].mu2) /\ i <= Len(auth[u].snap)
    BY <1>2 DEF ForwardMu2, Zipping, IInv, ThreadInv
  <2>2. auth[u].mu2[i] \in Records /\ auth[u].snap[i] \in Records
    BY <2>1, ElementOfSeq
  <2>3. d \in Drones
    BY <2>2 DEF Target, Records
  <2>4. listener[d] \in Incarnations
    BY <1>2, <2>3, Listening DEF ForwardMu2, Reachable
  <2>5. Mu2Frame(DroneProc(d, listener[d]), u, auth[u].mu2[i]) \in Frames
    BY <2>2, <2>3, <2>4, FramesSent
  <2> QED
    BY <1>2, <2>5 DEF ForwardMu2, TypeInv, NetTypes
<1>3. CASE ReplyToUser(u)
  <2>1. BatchReply(UserProc(u), auth[u].info) \in Frames
    BY FramesSent DEF IInv
  <2> QED
    BY <1>3, <2>1, AnswerTypes DEF ReplyToUser, TypeInv
<1> QED
  BY <1>1, <1>2, <1>3 DEF AuthStep

LEMMA CSTypesStep ==
    ASSUME IInv, TypeInv, CSNext, UNCHANGED <<droneVars, userVars>>
    PROVE  TypeInv'
<1>1. listener' = listener
  BY DEF CSNext, CSStep, EnrollStep, AuthStep, EnrollDrone, EnrollUser, RegisterAddress, AckDrone,
         RejectMu1, BuildMu2Batch, SnapshotDrones, SkipUnaddressed, ForwardMu2, ForwardFails,
         ReplyToUser, Restart, netVars
<1>2. UNCHANGED droneVars /\ UNCHANGED userVars
  OBVIOUS
<1>3. DroneTypes' /\ UserTypes' /\ Ports'
  BY <1>1, <1>2 DEF TypeInv, DroneTypes, UserTypes, Ports, droneVars, userVars
<1>4. NetTypes' /\ CSTypes'
  <2>1. NetTypes /\ CSTypes
    BY DEF TypeInv
  <2>2. ASSUME NEW f \in net, EnrollDrone(f) PROVE NetTypes' /\ CSTypes'
    <3>1. f.from \in Drones \X Incarnations
      BY <2>1, <2>2, FramesReceived DEF NetTypes, EnrollDrone
    <3>2. [rec |-> Record(f.from[1], f.from[2]), next |-> "address"] \in EnrollThreads
      BY <3>1 DEF Record, Records, EnrollThreads
    <3> QED
      BY <2>1, <2>2, <3>2 DEF EnrollDrone, NetTypes, CSTypes
  <2>3. ASSUME NEW f \in net, EnrollUser(f) PROVE NetTypes' /\ CSTypes'
    <3>1. f.from \in {User} \X Users
      BY <2>1, <2>3, FramesReceived DEF NetTypes, EnrollUser
    <3>2. f.from = UserProc(f.from[2]) /\ f.from[2] \in Users
      BY <3>1 DEF UserProc
    <3>3. Reply("USER_ACK", f.from) \in Frames
      BY <3>2, FramesSent
    <3> QED
      BY <2>1, <2>3, <3>2, <3>3, AnswerTypes DEF EnrollUser, CSTypes
  <2>4. ASSUME NEW f \in net, RejectMu1(f) PROVE NetTypes' /\ CSTypes'
    <3>1. f.from \in {User} \X Users
      BY <2>1, <2>4, FramesReceived DEF NetTypes, RejectMu1, Mu1
    <3>2. f.from = UserProc(f.from[2]) /\ f.from[2] \in Users
      BY <3>1 DEF UserProc
    <3>3. Reply("ERROR", f.from) \in Frames
      BY <3>2, FramesSent
    <3> QED
      BY <2>1, <2>4, <3>3, AnswerTypes DEF RejectMu1, CSTypes, csVars
  <2>5. ASSUME NEW f \in net, BuildMu2Batch(f) PROVE NetTypes' /\ CSTypes'
    BY <2>1, <2>5 DEF BuildMu2Batch, NetTypes, CSTypes
  <2>6. ASSUME NEW t \in enrolling, RegisterAddress(t) PROVE NetTypes' /\ CSTypes'
    <3>1. t \in EnrollThreads /\ t.rec.id \in Drones
      BY <2>1 DEF CSTypes, EnrollThreads, Records
    <3>2. [t EXCEPT !.next = "ack"] \in EnrollThreads
      BY <3>1 DEF EnrollThreads
    <3>3. addrs' \in [DOMAIN addrs' -> {UserHost}] /\ DOMAIN addrs' \subseteq Drones
      BY <2>1, <2>6, <3>1 DEF RegisterAddress, CSTypes
    <3> QED
      BY <2>1, <2>6, <3>2, <3>3 DEF RegisterAddress, NetTypes, CSTypes, netVars
  <2>7. ASSUME NEW t \in enrolling, AckDrone(t) PROVE NetTypes' /\ CSTypes'
    <3>1. t.rec.id \in Drones /\ t.rec.inc \in Incarnations
      BY <2>1 DEF CSTypes, EnrollThreads, Records
    <3>2. Reply("DRONE_ACK", DroneProc(t.rec.id, t.rec.inc)) \in Frames
      BY <3>1, FramesSent
    <3> QED
      BY <2>1, <2>7, <3>2, AnswerTypes DEF AckDrone, CSTypes
  <2>8. ASSUME NEW u \in Users, AuthStep(u) PROVE NetTypes' /\ CSTypes'
    <3>1. UNCHANGED <<restarts, addrs, users, enrolling>>
      BY <2>8 DEF AuthStep, SnapshotDrones, SkipUnaddressed, ForwardMu2, ForwardFails, ReplyToUser
    <3> QED
      BY <2>1, <2>8, <3>1, AuthStepTypes DEF CSTypes
  <2>9. CASE Restart
    <3>1. addrs' = <<>> /\ DOMAIN addrs' = {} /\ addrs' \in [DOMAIN addrs' -> {UserHost}]
      BY <2>9 DEF Restart
    <3>2. restarts' \in 0 .. MaxRestarts
      BY <2>1, <2>9, NetworkAssumption DEF Restart, CSTypes
    <3> QED
      BY <2>1, <2>9, <3>1, <3>2 DEF Restart, NetTypes, CSTypes
  <2> QED
    BY <2>2, <2>3, <2>4, <2>5, <2>6, <2>7, <2>8, <2>9 DEF CSNext, CSStep, EnrollStep
<1> QED
  BY <1>3, <1>4 DEF TypeInv
-----------------------------------------------------------------------------
(* The threads of a drone *)

Thread(pc, p, x) == [pc |-> pc, pid |-> p, point |-> x]

SetThread(d, u, t) ==
    /\ serving' \in [Drones -> [Users -> DroneThreads]]
    /\ serving'[d][u] = t
    /\ \A e \in Drones, v \in Users : e # d \/ v # u => serving'[e][v] = serving[e][v]

LEMMA SetThreadByExcept ==
    ASSUME serving \in [Drones -> [Users -> DroneThreads]], NEW d \in Drones, NEW u \in Users,
           NEW t \in DroneThreads, serving' = [serving EXCEPT ![d][u] = t]
    PROVE  SetThread(d, u, t)
<1>1. serving' = [serving EXCEPT ![d] = [serving[d] EXCEPT ![u] = t]]
  OBVIOUS
<1>2. serving[d] \in [Users -> DroneThreads]
  OBVIOUS
<1> QED
  BY <1>1, <1>2 DEF SetThread

LEMMA ThreadExcept ==
    ASSUME NEW t \in DroneThreads, NEW pc, NEW x
    PROVE  /\ [t EXCEPT !.pc = pc] = Thread(pc, t.pid, t.point)
           /\ [t EXCEPT !.pc = pc, !.pid = x] = Thread(pc, x, t.point)
<1> DEFINE w == [t EXCEPT !.pc = pc]
<1>1. w = Thread(pc, t.pid, t.point)
  BY DEF Thread, DroneThreads
<1>2. [t EXCEPT !.pc = pc, !.pid = x] = [w EXCEPT !.pid = x]
  OBVIOUS
<1> HIDE DEF w
<1>4. [w EXCEPT !.pid = x] = Thread(pc, x, t.point)
  BY <1>1 DEF Thread
<1> QED
  BY <1>1, <1>2, <1>4 DEF w

LEMMA ServeEffect ==
    ASSUME DroneTypes, NEW d \in Drones, NEW u \in Users
    PROVE  LET s == serving[d][u] IN
           /\ StashPid(d, u) => SetThread(d, u, Thread("ready", s.pid, s.point))
           /\ SendMu3(d, u) => SetThread(d, u, Thread("sent", s.pid, s.point))
           /\ SendRefused(d, u) \/ SendData(d, u) => SetThread(d, u, Thread("none", 0, 0))
           /\ ReadPid(d, u) => SetThread(d, u, Thread("read_pid", pid[d], s.point))
           /\ ReadPoint(d, u) => SetThread(d, u, Thread("keyed", s.pid, point[d]))
           /\ \A f : AcceptMu2(d, f) /\ f.user = u => SetThread(d, u, Thread("stashing", 0, 0))
<1> DEFINE s == serving[d][u]
<1>1. serving \in [Drones -> [Users -> DroneThreads]] /\ s \in DroneThreads
      /\ pid[d] \in Users \cup {0} /\ point[d] \in Users \cup {0}
  BY DEF DroneTypes
<1>2. \A pc \in {"none", "stashing", "ready", "sent", "read_pid", "keyed"} :
         \A p, x \in Users \cup {0} : Thread(pc, p, x) \in DroneThreads
  BY DEF Thread, DroneThreads
<1>3. s.pid \in Users \cup {0} /\ s.point \in Users \cup {0} /\ s = Thread(s.pc, s.pid, s.point)
  BY <1>1 DEF DroneThreads, Thread
<1>4. NoThread = Thread("none", 0, 0)
  BY DEF NoThread, Thread
<1>5. ASSUME StashPid(d, u) PROVE SetThread(d, u, Thread("ready", s.pid, s.point))
  <2>1. serving' = [serving EXCEPT ![d][u] = [s EXCEPT !.pc = "ready"]]
    BY <1>5 DEF StashPid
  <2>2. [s EXCEPT !.pc = "ready"] = Thread("ready", s.pid, s.point)
    BY <1>1, ThreadExcept
  <2> QED
    BY <1>1, <1>2, <1>3, <2>1, <2>2, SetThreadByExcept
<1>6. ASSUME SendMu3(d, u) PROVE SetThread(d, u, Thread("sent", s.pid, s.point))
  <2>1. serving' = [serving EXCEPT ![d][u] = [s EXCEPT !.pc = "sent"]]
    BY <1>6 DEF SendMu3
  <2>2. [s EXCEPT !.pc = "sent"] = Thread("sent", s.pid, s.point)
    BY <1>1, ThreadExcept
  <2> QED
    BY <1>1, <1>2, <1>3, <2>1, <2>2, SetThreadByExcept
<1>7. ASSUME SendRefused(d, u) \/ SendData(d, u) PROVE SetThread(d, u, Thread("none", 0, 0))
  BY <1>1, <1>2, <1>4, <1>7, SetThreadByExcept DEF SendRefused, SendData
<1>8. ASSUME ReadPid(d, u) PROVE SetThread(d, u, Thread("read_pid", pid[d], s.point))
  <2>1. serving' = [serving EXCEPT ![d][u] = [s EXCEPT !.pc = "read_pid", !.pid = pid[d]]]
    BY <1>8, <1>1 DEF ReadPid
  <2>2. [s EXCEPT !.pc = "read_pid", !.pid = pid[d]] = Thread("read_pid", pid[d], s.point)
    BY <1>1, ThreadExcept
  <2> QED
    BY <1>1, <1>2, <1>3, <2>1, <2>2, SetThreadByExcept
<1>9. ASSUME ReadPoint(d, u) PROVE SetThread(d, u, Thread("keyed", s.pid, point[d]))
  <2> DEFINE x == point[d]
             w == [s EXCEPT !.pc = "keyed", !.point = x]
  <2>1. serving' = [serving EXCEPT ![d][u] = w]
    BY <1>9, <1>1 DEF ReadPoint
  <2> HIDE DEF x, s
  <2> DEFINE w1 == [s EXCEPT !.pc = "keyed"]
  <2>2. w = Thread("keyed", s.pid, x)
    <3>1. w1 = Thread("keyed", s.pid, s.point)
      BY <1>1, ThreadExcept
    <3>2. w = [w1 EXCEPT !.point = x]
      OBVIOUS
    <3> HIDE DEF w, w1
    <3> QED
      BY <3>1, <3>2 DEF Thread
  <2> HIDE DEF w
  <2>3. Thread("keyed", s.pid, x) \in DroneThreads
    BY <1>1, <1>2, <1>3 DEF x
  <2> QED
    BY <1>1, <2>1, <2>2, <2>3, SetThreadByExcept DEF x
<1>10. ASSUME NEW f, AcceptMu2(d, f), f.user = u
       PROVE  SetThread(d, u, Thread("stashing", 0, 0))
  <2>1. [NoThread EXCEPT !.pc = "stashing"] = Thread("stashing", 0, 0)
    BY DEF NoThread, Thread
  <2> QED
    BY <1>1, <1>2, <1>10, <2>1, SetThreadByExcept DEF AcceptMu2
<1> QED
  BY <1>5, <1>6, <1>7, <1>8, <1>9, <1>10

LEMMA DroneTypesStep ==
    ASSUME TypeInv, DroneNext, UNCHANGED <<csVars, userVars>>
    PROVE  TypeInv'
<1>1. PICK d \in Drones : StartDrone(d) \/ DroneStep(d) \/ CrashDrone(d)
  BY DEF DroneNext
<1>2. NetTypes /\ CSTypes /\ DroneTypes /\ UserTypes /\ Ports
  BY DEF TypeInv
<1>3. CSTypes' /\ UserTypes' /\ UNCHANGED <<stage, cur>>
  BY <1>2 DEF CSTypes, UserTypes, csVars, userVars
<1>4. User # d
  BY NetworkAssumption
<1>5. CASE StartDrone(d)
  <2>1. inc[d] \in 0 .. MaxIncarnations /\ MaxIncarnations \in Nat
    BY <1>2, NetworkAssumption DEF DroneTypes
  <2>2. inc[d] + 1 \in Incarnations /\ inc[d] + 1 \in 0 .. MaxIncarnations /\ inc[d] + 1 # 0
    BY <2>1, <1>5 DEF StartDrone, Incarnations
  <2>3. Request("ENROLL_DRONE", DroneProc(d, inc[d] + 1)) \in Frames
        /\ DroneProc(d, inc[d] + 1) \in Procs
    BY <2>2, FramesSent DEF DroneProc, Procs
  <2>4. NetTypes'
    BY <1>2, <1>5, <2>3 DEF StartDrone, Connect, NetTypes
  <2>5. DroneTypes'
    BY <1>2, <1>5, <2>2 DEF StartDrone, DroneTypes
  <2>6. Ports'
    BY <1>2, <1>3, <1>5, <2>2 DEF StartDrone, Ports, DroneTypes
  <2> QED
    BY <1>3, <2>4, <2>5, <2>6 DEF TypeInv
<1>6. CASE StoreCredentials(d) \/ BindListener(d)
  <2>1. NetTypes'
    BY <1>2, <1>6 DEF StoreCredentials, BindListener, NetTypes
  <2>2. DroneTypes'
    BY <1>2, <1>6 DEF StoreCredentials, BindListener, DroneTypes
  <2>3. inc[d] \in Nat /\ inc' = inc
    BY <1>2, <1>6, NetworkAssumption DEF DroneTypes, StoreCredentials, BindListener
  <2>4. Ports'
    BY <1>2, <1>3, <1>4, <1>6, <2>3 DEF StoreCredentials, BindListener, Ports, DroneTypes
  <2> QED
    BY <1>3, <2>1, <2>2, <2>4 DEF TypeInv
<1>7. CASE EnrollmentFails(d) \/ CrashDrone(d)
  <2>1. DroneGone(d)
    BY <1>7 DEF EnrollmentFails, CrashDrone
  <2>2. NetTypes'
    BY <1>2, <2>1 DEF DroneGone, Gone, NetTypes
  <2>3. NoThread \in DroneThreads
    BY DEF NoThread, DroneThreads
  <2>4. DroneTypes'
    BY <1>2, <2>1, <2>3 DEF DroneGone, DroneTypes
  <2>5. \A e \in Drones : \A u \in Users :
           serving'[e][u] = IF e = d THEN NoThread ELSE serving[e][u]
    BY <1>2, <2>1 DEF DroneGone, DroneTypes
  <2>6. NoThread.pc = "none"
    BY DEF NoThread
  <2>7. Ports'
    BY <1>2, <1>3, <1>4, <2>1, <2>5, <2>6 DEF DroneGone, Gone, Ports, DroneTypes
  <2> QED
    BY <1>3, <2>2, <2>4, <2>7 DEF TypeInv
<1>8. ASSUME NEW f \in net, RejectMu2(d, f) \/ AcceptMu2(d, f) PROVE TypeInv'
  <2>1. UNCHANGED <<listener, inc, phase, pid>> /\ net' \subseteq net /\ open' = open
    BY <1>8 DEF RejectMu2, AcceptMu2, droneVars
  <2>2. f.user \in Users
    BY <1>2, <1>8, FramesReceived DEF NetTypes, RejectMu2, AcceptMu2, Mu2For
  <2>3. DroneTypes'
    <3>1. CASE RejectMu2(d, f)
      BY <1>2, <3>1 DEF RejectMu2, droneVars, DroneTypes
    <3>2. CASE AcceptMu2(d, f)
      <4>1. serving' \in [Drones -> [Users -> DroneThreads]]
        BY <1>2, <2>2, <3>2, ServeEffect DEF SetThread
      <4>2. point' \in [Drones -> Users \cup {0}]
        BY <1>2, <2>2, <3>2 DEF AcceptMu2, DroneTypes
      <4> QED
        BY <1>2, <2>1, <4>1, <4>2 DEF DroneTypes
    <3> QED
      BY <1>8, <3>1, <3>2
  <2>4. Ports'
    <3>1. CASE RejectMu2(d, f)
      BY <1>2, <1>3, <3>1 DEF RejectMu2, droneVars, Ports
    <3>2. CASE AcceptMu2(d, f)
      <4>1. inc[d] # 0
        BY <1>2, <3>2, FramesReceived
           DEF NetTypes, AcceptMu2, Mu2For, Record, Records, Incarnations
      <4>2. \A e \in Drones : \A v \in Users :
               (e # d \/ v # f.user) => serving'[e][v] = serving[e][v]
        BY <1>2, <2>2, <3>2, ServeEffect DEF SetThread
      <4> QED
        BY <1>2, <1>3, <2>1, <4>1, <4>2 DEF Ports
    <3> QED
      BY <1>8, <3>1, <3>2
  <2> QED
    BY <1>2, <1>3, <2>1, <2>3, <2>4 DEF TypeInv, NetTypes
<1>9. ASSUME NEW u \in Users, ServeStep(d, u) PROVE TypeInv'
  <2>1. UNCHANGED <<listener, open, inc, phase, point>>
    BY <1>9 DEF ServeStep, StashPid, SendMu3, SendRefused, ReadPid, ReadPoint, SendData, netVars
  <2>2. serving' \in [Drones -> [Users -> DroneThreads]]
    BY <1>2, <1>9, ServeEffect DEF ServeStep, SetThread
  <2>3. pid' \in [Drones -> Users \cup {0}]
    BY <1>2, <1>9 DEF ServeStep, StashPid, SendMu3, SendRefused, ReadPid, ReadPoint, SendData,
          DroneTypes
  <2>4. NetTypes'
    <3>1. CASE StashPid(d, u) \/ SendRefused(d, u) \/ ReadPid(d, u) \/ ReadPoint(d, u)
      BY <1>2, <3>1 DEF StashPid, SendRefused, ReadPid, ReadPoint, netVars, NetTypes
    <3>2. Record(d, inc[d]) \in Records
      <4>1. serving[d][u].pc # "none"
        BY <1>9 DEF ServeStep, StashPid, SendMu3, SendRefused, ReadPid, ReadPoint, SendData
      <4>2. inc[d] # 0 /\ inc[d] \in 0 .. MaxIncarnations /\ MaxIncarnations \in Nat
        BY <1>2, <4>1, NetworkAssumption DEF Ports, DroneTypes
      <4> QED
        BY <4>2 DEF Record, Records, Incarnations
    <3>3. CASE SendMu3(d, u)
      <4>1. Mu3Frame(UserProc(listener[User]), u, Record(d, inc[d])) \in Frames
        BY <3>2, <3>3, Listening, FramesSent DEF SendMu3
      <4> QED
        BY <1>2, <3>3, <4>1 DEF SendMu3, NetTypes
    <3>4. CASE SendData(d, u)
      <4>1. serving[d][u].pid \in Users \cup {0} /\ serving[d][u].point \in Users \cup {0}
        BY <1>2 DEF DroneTypes, DroneThreads
      <4>2. DataFrame(UserProc(listener[User]), Record(d, inc[d]),
                      serving[d][u].pid, serving[d][u].point) \in Frames
        BY <3>2, <3>4, <4>1, Listening, FramesSent DEF SendData
      <4> QED
        BY <1>2, <3>4, <4>2 DEF SendData, NetTypes
    <3> QED
      BY <1>9, <3>1, <3>3, <3>4 DEF ServeStep
  <2>5. Ports'
    <3>1. \A e \in Drones : \A v \in Users :
             (e # d \/ v # u) => serving'[e][v] = serving[e][v]
      BY <1>2, <1>9, ServeEffect DEF ServeStep, SetThread
    <3>2. serving[d][u].pc # "none"
      BY <1>9 DEF ServeStep, StashPid, SendMu3, SendRefused, ReadPid, ReadPoint, SendData
    <3> QED
      BY <1>2, <1>3, <2>1, <3>1, <3>2 DEF Ports
  <2> QED
    BY <1>2, <1>3, <2>1, <2>2, <2>3, <2>4, <2>5 DEF TypeInv, DroneTypes
<1> QED
  BY <1>1, <1>5, <1>6, <1>7, <1>8, <1>9 DEF DroneStep
-----------------------------------------------------------------------------
(* The types of the user *)

LEMMA FreshTypes ==
    ASSUME Fresh, cur' \in 0 .. MaxUsers, stage' \in Stages
    PROVE  UserTypes'
<1>1. <<>> \in Seq(Responses)
  BY EmptySeq
<1> QED
  BY <1>1, NumDronesAssumption DEF Fresh, UserTypes

\* The responses verified are among those collected.
LEMMA DidsAreRecords ==
    ASSUME batch \in Seq(Responses), NEW ms, ms \subseteq Collected
    PROVE  DidsOf(ms) \subseteq Records
<1>1. DOMAIN batch = 1 .. Len(batch) /\ \A i \in 1 .. Len(batch) : batch[i] \in Responses
  BY ElementOfSeq
<1>2. Collected \subseteq Responses
  BY <1>1 DEF Collected
<1> QED
  BY <1>2 DEF DidsOf, Responses

LEMMA UserTypesStep ==
    ASSUME TypeInv, UserNext, UNCHANGED <<csVars, droneVars>>
    PROVE  TypeInv'
<1>1. NetTypes /\ CSTypes /\ DroneTypes /\ UserTypes /\ Ports
  BY DEF TypeInv
<1>2. CSTypes' /\ DroneTypes' /\ UNCHANGED <<phase, inc, serving>>
  BY <1>1 DEF CSTypes, DroneTypes, csVars, droneVars
<1>3. cur \in Nat /\ User \notin Drones /\ MaxUsers \in Nat /\ Len(batch) \in Nat
  BY <1>1, NetworkAssumption, LenProperties DEF UserTypes
<1>4. CASE StartUser
  <2>1. cur + 1 \in 0 .. MaxUsers /\ cur + 1 # 0 /\ cur' = cur + 1 /\ stage' = "started"
    BY <1>1, <1>3, <1>4 DEF StartUser, UserTypes
  <2>2. UserTypes'
    BY <1>4, <2>1, FreshTypes DEF StartUser, Stages
  <2>3. Ports' /\ NetTypes'
    BY <1>1, <1>2, <1>3, <1>4, <2>1 DEF StartUser, Ports, NetTypes
  <2> QED
    BY <1>2, <2>2, <2>3 DEF TypeInv
<1>5. CASE UserFails \/ UserExits
  <2>1. UserGone
    BY <1>5 DEF UserFails, UserExits
  <2>2. UserTypes'
    BY <1>1, <2>1, FreshTypes DEF UserGone, UserTypes, Stages
  <2>3. Ports' /\ NetTypes'
    BY <1>1, <1>2, <1>3, <2>1 DEF UserGone, Gone, Ports, NetTypes
  <2> QED
    BY <1>2, <2>2, <2>3 DEF TypeInv
<1>6. CASE RequestEnrollment \/ SendMu1
  <2>1. stage # "off" /\ stage' \in Stages \ {"off"} /\ listener' = listener
        /\ UNCHANGED <<cur, numDrones, batch, counted, ready, valid, invalid, sessions>>
    BY <1>6 DEF RequestEnrollment, SendMu1, Stages
  <2>2. /\ Request("ENROLL_USER", Me) \in Frames /\ Request("MU1", Me) \in Frames
        /\ Me \in Procs
    BY <2>1, Listening, FramesSent DEF Me, UserProc, Procs
  <2>3. NetTypes'
    BY <1>1, <1>6, <2>2 DEF RequestEnrollment, SendMu1, Connect, NetTypes
  <2>4. UserTypes' /\ Ports'
    BY <1>1, <1>2, <2>1 DEF UserTypes, Ports
  <2> QED
    BY <1>2, <2>3, <2>4 DEF TypeInv
<1>7. CASE CompleteEnrollment \/ VerifyBatch \/ EstablishSessions
  <2>1. stage # "off" /\ stage' \in Stages \ {"off"} /\ listener' = listener
        /\ UNCHANGED <<cur, numDrones, batch, counted, ready>>
    BY <1>7 DEF CompleteEnrollment, VerifyBatch, EstablishSessions, Stages, netVars
  <2>2. valid' \subseteq Records /\ invalid' \subseteq Records /\ sessions' \subseteq Records
    <3>1. DidsOf({m \in Collected : Own(m)}) \subseteq Records
          /\ DidsOf({m \in Collected : ~Own(m)}) \subseteq Records
      BY <1>1, DidsAreRecords DEF UserTypes
    <3> QED
      BY <1>1, <1>7, <3>1 DEF CompleteEnrollment, VerifyBatch, EstablishSessions, UserTypes
  <2>3. NetTypes'
    BY <1>1, <1>7 DEF CompleteEnrollment, VerifyBatch, EstablishSessions, NetTypes, netVars
  <2>4. UserTypes' /\ Ports'
    BY <1>1, <1>2, <2>1, <2>2 DEF UserTypes, Ports
  <2> QED
    BY <1>2, <2>3, <2>4 DEF TypeInv
<1>8. ASSUME NEW f \in net, GetBatchReply(f) PROVE TypeInv'
  <2>1. f.drones \in Seq(Records)
    BY <1>1, <1>8, FramesReceived DEF NetTypes, GetBatchReply
  <2>2. numDrones' \in Nat
    BY <1>1, <1>8, <2>1, LenProperties DEF GetBatchReply, UserTypes
  <2>3. UserTypes' /\ Ports' /\ NetTypes'
    BY <1>1, <1>2, <1>8, <2>2 DEF GetBatchReply, UserTypes, Ports, NetTypes, Stages
  <2> QED
    BY <1>2, <2>3 DEF TypeInv
<1>9. ASSUME NEW f \in net, HandleMu3(f) PROVE TypeInv'
  <2>1. [user |-> f.user, rec |-> f.rec] \in Responses
    BY <1>1, <1>9, FramesReceived DEF NetTypes, HandleMu3, Responses
  <2>2. batch' \in Seq(Responses) /\ Len(batch') = Len(batch) + 1
    BY <1>1, <1>9, <2>1, AppendProperties DEF HandleMu3, UserTypes
  <2>3. counted' \subseteq 1 .. Len(batch')
    <3>1. counted' = counted \cup {Len(batch) + 1} /\ counted \subseteq 1 .. Len(batch)
      BY <1>1, <1>9 DEF HandleMu3, UserTypes
    <3>2. 1 .. Len(batch') = 1 .. (Len(batch) + 1)
      BY <2>2
    <3>3. 1 .. Len(batch) \subseteq 1 .. (Len(batch) + 1) /\ Len(batch) + 1 \in 1 .. (Len(batch) + 1)
      BY <1>3
    <3> QED
      BY <3>1, <3>2, <3>3
  <2>4. UserTypes' /\ Ports' /\ NetTypes'
    BY <1>1, <1>2, <1>9, <2>2, <2>3 DEF HandleMu3, UserTypes, Ports, NetTypes
  <2> QED
    BY <1>2, <2>4 DEF TypeInv
<1>10. ASSUME NEW f \in net, HandleData(f) PROVE TypeInv'
  <2>1. UserTypes' /\ Ports' /\ NetTypes'
    BY <1>1, <1>2, <1>10 DEF HandleData, userVars, UserTypes, Ports, NetTypes
  <2> QED
    BY <1>2, <2>1 DEF TypeInv
<1>11. ASSUME NEW received \in counted, CompareCount(received) PROVE TypeInv'
  <2>1. ready' \in BOOLEAN
    BY <1>1, <1>11, <1>3 DEF CompareCount, UserTypes
  <2>2. UserTypes' /\ Ports' /\ NetTypes'
    BY <1>1, <1>2, <1>11, <2>1 DEF CompareCount, netVars, UserTypes, Ports, NetTypes
  <2> QED
    BY <1>2, <2>2 DEF TypeInv
<1> QED
  BY <1>4, <1>5, <1>6, <1>7, <1>8, <1>9, <1>10, <1>11 DEF UserNext, UserStep

-----------------------------------------------------------------------------
\* The variables stay in their types, and every frame on the wire has the shape
\* its kind promises and is addressed to a process that was started.
THEOREM TypesInvariant == Spec => []TypeInv
<1>1. Init => TypeInv
  <2> SUFFICES ASSUME Init PROVE TypeInv
    OBVIOUS
  <2> USE DEF Init, NetInit, CSInit, DroneInit, UserInit
  <2>1. NetTypes /\ Ports
    BY DEF NetTypes, Ports, NoThread
  <2>2. CSTypes
    <3>1. DOMAIN addrs = {} /\ addrs \in [DOMAIN addrs -> {UserHost}]
      OBVIOUS
    <3> QED
      BY <3>1, NetworkAssumption DEF CSTypes
  <2>3. DroneTypes
    BY NetworkAssumption DEF DroneTypes, NoThread, DroneThreads
  <2>4. UserTypes
    <3>1. batch \in Seq(Responses) /\ counted = {} /\ numDrones \in Nat
      BY NumDronesAssumption, EmptySeq
    <3>2. cur \in 0 .. MaxUsers /\ stage \in Stages
      BY NetworkAssumption DEF Stages
    <3> QED
      BY <3>1, <3>2 DEF UserTypes
  <2> QED
    BY <2>1, <2>2, <2>3, <2>4 DEF TypeInv
<1>2. TypeInv /\ IInv /\ [Next]_vars => TypeInv'
  <2> SUFFICES ASSUME TypeInv, IInv, [Next]_vars PROVE TypeInv'
    OBVIOUS
  <2>1. CASE UNCHANGED vars
    BY <2>1 DEF vars, netVars, csVars, droneVars, userVars, TypeInv, NetTypes, CSTypes, DroneTypes,
          UserTypes, Ports
  <2> QED
    BY <2>1, CSTypesStep, DroneTypesStep, UserTypesStep DEF Next
<1> QED
  BY <1>1, <1>2, Invariant, PTL DEF Spec

\* The variables of server, drones and users keep their types, for any number of
\* them, killed and started anew at any time.
THEOREM TypesAreRight == Spec => []TypeOK
<1>1. TypeInv /\ IInv => TypeOK
  BY DEF TypeInv, NetTypes, CSTypes, DroneTypes, UserTypes, Ports, IInv, TypeOK, Procs, AuthThreads
<1> QED
  BY <1>1, TypesInvariant, Invariant, PTL
-----------------------------------------------------------------------------
(* Who sends which frame *)

LEMMA CSSends ==
    ASSUME CSNext, NEW f \in net', f \notin net
    PROVE  \/ \E t \in enrolling :
                 /\ AckDrone(t) /\ f = Reply("DRONE_ACK", DroneProc(t.rec.id, t.rec.inc))
           \/ \E g \in net : \/ EnrollUser(g) /\ f = Reply("USER_ACK", g.from)
                             \/ RejectMu1(g) /\ f = Reply("ERROR", g.from)
           \/ \E u \in Users :
                 \/ /\ ForwardMu2(u)
                    /\ f = Mu2Frame(DroneProc(Target(u), listener[Target(u)]), u,
                                    auth[u].mu2[auth[u].pos])
                 \/ ReplyToUser(u) /\ f = BatchReply(UserProc(u), auth[u].info)
<1>1. ASSUME NEW t \in enrolling, RegisterAddress(t) \/ AckDrone(t)
      PROVE  AckDrone(t) /\ f = Reply("DRONE_ACK", DroneProc(t.rec.id, t.rec.inc))
  BY <1>1 DEF RegisterAddress, AckDrone, Answer, netVars
<1>2. ASSUME NEW g \in net, EnrollDrone(g) \/ EnrollUser(g)
      PROVE  EnrollUser(g) /\ f = Reply("USER_ACK", g.from)
  BY <1>2 DEF EnrollDrone, EnrollUser, Answer
<1>3. ASSUME NEW g \in net, RejectMu1(g) \/ BuildMu2Batch(g)
      PROVE  RejectMu1(g) /\ f = Reply("ERROR", g.from)
  BY <1>3 DEF RejectMu1, BuildMu2Batch, Answer
<1>4. ASSUME NEW u \in Users, AuthStep(u)
      PROVE  \/ /\ ForwardMu2(u)
                /\ f = Mu2Frame(DroneProc(Target(u), listener[Target(u)]), u,
                                auth[u].mu2[auth[u].pos])
             \/ ReplyToUser(u) /\ f = BatchReply(UserProc(u), auth[u].info)
  <2>1. CASE ForwardMu2(u)
    BY <2>1 DEF ForwardMu2
  <2>2. CASE ReplyToUser(u)
    BY <2>2 DEF ReplyToUser, Answer
  <2>3. CASE SnapshotDrones(u) \/ SkipUnaddressed(u) \/ ForwardFails(u)
    BY <2>3 DEF SnapshotDrones, SkipUnaddressed, ForwardFails, netVars
  <2> QED
    BY <1>4, <2>1, <2>2, <2>3 DEF AuthStep
<1>5. ~Restart
  BY DEF Restart
<1> QED
  BY <1>1, <1>2, <1>3, <1>4, <1>5 DEF CSNext, CSStep, EnrollStep

LEMMA DroneSends ==
    ASSUME NEW d \in Drones, StartDrone(d) \/ DroneStep(d) \/ CrashDrone(d),
           NEW f \in net', f \notin net
    PROVE  \/ StartDrone(d) /\ f = Request("ENROLL_DRONE", DroneProc(d, inc[d] + 1))
           \/ \E u \in Users :
                 \/ /\ SendMu3(d, u)
                    /\ f = Mu3Frame(UserProc(listener[User]), u, Record(d, inc[d]))
                 \/ /\ SendData(d, u)
                    /\ f = DataFrame(UserProc(listener[User]), Record(d, inc[d]),
                                     serving[d][u].pid, serving[d][u].point)
<1>1. CASE StartDrone(d)
  BY <1>1 DEF StartDrone, Connect
<1>2. ASSUME NEW u \in Users, ServeStep(d, u)
      PROVE  \/ /\ SendMu3(d, u)
                /\ f = Mu3Frame(UserProc(listener[User]), u, Record(d, inc[d]))
             \/ /\ SendData(d, u)
                /\ f = DataFrame(UserProc(listener[User]), Record(d, inc[d]),
                                 serving[d][u].pid, serving[d][u].point)
  <2>1. CASE SendMu3(d, u)
    BY <2>1 DEF SendMu3
  <2>2. CASE SendData(d, u)
    BY <2>2 DEF SendData
  <2>3. CASE StashPid(d, u) \/ SendRefused(d, u) \/ ReadPid(d, u) \/ ReadPoint(d, u)
    BY <2>3 DEF StashPid, SendRefused, ReadPid, ReadPoint, netVars
  <2> QED
    BY <1>2, <2>1, <2>2, <2>3 DEF ServeStep
<1>3. ~StoreCredentials(d) /\ ~BindListener(d) /\ ~EnrollmentFails(d) /\ ~CrashDrone(d)
      /\ \A g : ~RejectMu2(d, g) /\ ~AcceptMu2(d, g)
  BY DEF StoreCredentials, BindListener, EnrollmentFails, CrashDrone, DroneGone, Gone, RejectMu2,
         AcceptMu2
<1> QED
  BY <1>1, <1>2, <1>3 DEF DroneStep

LEMMA UserSends ==
    ASSUME UserNext, NEW f \in net', f \notin net
    PROVE  \/ RequestEnrollment /\ f = Request("ENROLL_USER", Me)
           \/ SendMu1 /\ f = Request("MU1", Me)
<1>1. CASE RequestEnrollment \/ SendMu1
  BY <1>1 DEF RequestEnrollment, SendMu1, Connect
<1>2. /\ ~StartUser /\ ~CompleteEnrollment /\ ~VerifyBatch /\ ~EstablishSessions
      /\ ~UserFails /\ ~UserExits
  BY DEF StartUser, CompleteEnrollment, VerifyBatch, EstablishSessions, UserFails, UserExits,
         UserGone, Gone, netVars
<1>3. /\ \A g : ~GetBatchReply(g) /\ ~HandleMu3(g) /\ ~HandleData(g)
      /\ \A received : ~CompareCount(received)
  BY DEF GetBatchReply, HandleMu3, HandleData, CompareCount, netVars
<1> QED
  BY <1>1, <1>2, <1>3 DEF UserNext, UserStep

\* What the frames hold.
LEMMA FrameFields ==
    /\ \A kind, p : Request(kind, p).kind = kind /\ Request(kind, p).from = p
    /\ \A kind, p : Reply(kind, p).kind = kind /\ Reply(kind, p).to = p
    /\ \A p, l : BatchReply(p, l).kind = "BATCH" /\ BatchReply(p, l).to = p
                 /\ BatchReply(p, l).drones = l
    /\ \A p, u, r : Mu2Frame(p, u, r).kind = "MU2" /\ Mu2Frame(p, u, r).to = p
                    /\ Mu2Frame(p, u, r).user = u /\ Mu2Frame(p, u, r).rec = r
    /\ \A p, u, r : Mu3Frame(p, u, r).kind = "MU3" /\ Mu3Frame(p, u, r).to = p
                    /\ Mu3Frame(p, u, r).user = u /\ Mu3Frame(p, u, r).rec = r
    /\ \A p, r, x, y : DataFrame(p, r, x, y).kind = "DATA" /\ DataFrame(p, r, x, y).to = p
                       /\ DataFrame(p, r, x, y).rec = r
                       /\ DataFrame(p, r, x, y).pid = x /\ DataFrame(p, r, x, y).point = y
    /\ \A d, k : DroneProc(d, k)[1] = d /\ DroneProc(d, k)[2] = k
    /\ \A u : UserProc(u)[1] = User /\ UserProc(u)[2] = u
  BY DEF Request, Reply, BatchReply, Mu2Frame, Mu3Frame, DataFrame, DroneProc, UserProc
-----------------------------------------------------------------------------
(* Acknowledged drones *)

Enrolled(d) == \E i \in DOMAIN drones : drones[i].id = d
Known(d) == d \in DOMAIN addrs /\ Enrolled(d)

AckFrame(f) ==
    /\ f.kind = "ENROLL_DRONE" => f.from[2] <= inc[f.from[1]]
    /\ f.kind = "DRONE_ACK" /\ restarts = 0 => Known(f.to[1])

\* The server has records of processes that were started, a thread of
\* _enroll_drone has stored its record and, before its answer, its address; until
\* a restart, the drones that were answered are known.
AckInv ==
    /\ \A f \in net : AckFrame(f)
    /\ \A i \in DOMAIN drones : drones[i].inc <= inc[drones[i].id]
    /\ \A t \in enrolling : Enrolled(t.rec.id) /\ (t.next = "ack" => t.rec.id \in DOMAIN addrs)
    /\ restarts = 0 => \A d \in Drones : phase[d] \in {"enrolled", "listening"} => Known(d)

\* add_drone stores its record, keeps the others and forgets no drone.
LEMMA PutContents ==
    ASSUME NEW t \in Seq(Records), NEW r \in Records
    PROVE  /\ \E i \in DOMAIN Put(t, r) : Put(t, r)[i] = r
           /\ \A i \in DOMAIN Put(t, r) : \/ Put(t, r)[i] = r
                                          \/ \E j \in DOMAIN t : Put(t, r)[i] = t[j]
           /\ \A j \in DOMAIN t : \E i \in DOMAIN Put(t, r) : Put(t, r)[i].id = t[j].id
<1>1. Len(t) \in Nat /\ DOMAIN t = 1 .. Len(t) /\ \A i \in 1 .. Len(t) : t[i] \in Records
  BY LenProperties, ElementOfSeq
<1>2. CASE \E i \in DOMAIN t : t[i].id = r.id
  BY <1>2 DEF Put
<1>3. CASE ~\E i \in DOMAIN t : t[i].id = r.id
  <2>1. Put(t, r) = Append(t, r)
    BY <1>3 DEF Put
  <2>2. /\ Len(Append(t, r)) = Len(t) + 1 /\ Append(t, r) \in Seq(Records)
        /\ Append(t, r)[Len(t) + 1] = r
        /\ \A i \in 1 .. Len(t) : Append(t, r)[i] = t[i]
    BY <1>1, AppendProperties
  <2>3. DOMAIN Append(t, r) = 1 .. (Len(t) + 1)
    BY <2>2, LenProperties
  <2>4. \A i \in 1 .. (Len(t) + 1) : i = Len(t) + 1 \/ i \in 1 .. Len(t)
    BY <1>1
  <2>5. Len(t) + 1 \in 1 .. (Len(t) + 1) /\ 1 .. Len(t) \subseteq 1 .. (Len(t) + 1)
    BY <1>1
  <2> QED
    BY <1>1, <2>1, <2>2, <2>3, <2>4, <2>5
<1> QED
  BY <1>2, <1>3

\* A step of the server that keeps what it knows.
LEMMA KnownKept ==
    ASSUME AckInv, UNCHANGED <<restarts, drones, addrs, inc, phase>>, enrolling' \subseteq enrolling,
           \A f \in net' : f \in net \/ AckFrame(f)
    PROVE  AckInv'
<1>1. \A f \in net' : AckFrame(f)
  BY DEF AckInv
<1> QED
  BY <1>1 DEF AckInv, AckFrame, Known, Enrolled

LEMMA CSKeepsAckInv ==
    ASSUME AckInv, TypeInv, IInv, CSNext, UNCHANGED <<droneVars, userVars>>
    PROVE  AckInv'
<1>1. UNCHANGED <<inc, phase>> /\ inc \in [Drones -> 0 .. MaxIncarnations]
      /\ drones \in Seq(Records) /\ enrolling \subseteq EnrollThreads /\ NetTypes
  BY DEF droneVars, IInv, TypeInv, CSTypes
<1>2. ASSUME NEW f \in net, EnrollDrone(f) PROVE AckInv'
  <2> DEFINE rec == Record(f.from[1], f.from[2])
             t == [rec |-> rec, next |-> "address"]
  <2>1. f.from \in Drones \X Incarnations
    BY <1>1, <1>2, FramesReceived DEF NetTypes, EnrollDrone
  <2>2. rec \in Records /\ rec.id = f.from[1] /\ rec.inc = f.from[2] /\ rec.inc <= inc[rec.id]
    BY <2>1, <1>2 DEF Record, Records, AckInv, AckFrame, EnrollDrone
  <2>3. /\ drones' = Put(drones, rec) /\ enrolling' = enrolling \cup {t}
        /\ net' \subseteq net /\ UNCHANGED <<restarts, addrs>>
    BY <1>2 DEF EnrollDrone
  <2>4. t.rec = rec /\ t.next = "address"
    OBVIOUS
  <2> HIDE DEF rec, t
  <2>5. \A d : Enrolled(d) => Enrolled(d)'
    BY <1>1, <2>2, <2>3, PutContents DEF Enrolled
  <2>6. Enrolled(rec.id)'
    BY <1>1, <2>2, <2>3, PutContents DEF Enrolled
  <2>7. \A i \in DOMAIN drones' : drones'[i].inc <= inc'[drones'[i].id]
    BY <1>1, <2>2, <2>3, PutContents DEF AckInv
  <2>8. \A d : Known(d) => Known(d)'
    BY <2>3, <2>5 DEF Known
  <2>9. \A f1 \in net' : AckFrame(f1)'
    BY <1>1, <2>3, <2>8 DEF AckInv, AckFrame
  <2>10. \A t1 \in enrolling' :
            Enrolled(t1.rec.id)' /\ (t1.next = "ack" => t1.rec.id \in DOMAIN addrs')
    BY <2>3, <2>4, <2>5, <2>6 DEF AckInv
  <2>11. restarts' = 0 =>
            \A d \in Drones : phase'[d] \in {"enrolled", "listening"} => Known(d)'
    BY <1>1, <2>3, <2>8 DEF AckInv
  <2> QED
    BY <2>7, <2>9, <2>10, <2>11 DEF AckInv
<1>3. ASSUME NEW t \in enrolling, RegisterAddress(t) PROVE AckInv'
  <2> DEFINE r == [t EXCEPT !.next = "ack"]
  <2>1. t \in EnrollThreads /\ r.rec = t.rec
    BY <1>1 DEF EnrollThreads
  <2>2. /\ enrolling' = (enrolling \ {t}) \cup {r}
        /\ DOMAIN addrs' = DOMAIN addrs \cup {t.rec.id}
        /\ UNCHANGED <<restarts, drones, net>>
    BY <1>3 DEF RegisterAddress, netVars
  <2> HIDE DEF r
  <2>3. \A d : (Known(d) => Known(d)') /\ (Enrolled(d) => Enrolled(d)')
    BY <2>2 DEF Known, Enrolled
  <2> QED
    BY <1>1, <2>1, <2>2, <2>3 DEF AckInv, AckFrame
<1>4. ASSUME NEW t \in enrolling, AckDrone(t) PROVE AckInv'
  <2> DEFINE g == Reply("DRONE_ACK", DroneProc(t.rec.id, t.rec.inc))
  <2>1. net' \subseteq net \cup {g} /\ UNCHANGED <<restarts, drones, addrs>>
        /\ enrolling' \subseteq enrolling
    BY <1>4, AnswerAdds DEF AckDrone
  <2>2. AckFrame(g)
    BY <1>4, FrameFields DEF AckFrame, AckInv, Known, AckDrone
  <2> QED
    BY <1>1, <2>1, <2>2, KnownKept
<1>5. CASE Restart
  <2>1. restarts' # 0
    BY <1>5, NetworkAssumption DEF Restart, TypeInv, CSTypes
  <2>2. drones' = <<>> /\ enrolling' = {} /\ net' \subseteq net
    BY <1>5 DEF Restart
  <2> QED
    BY <1>1, <2>1, <2>2 DEF AckInv, AckFrame
<1>6. CASE /\ ~Restart
           /\ ~\E f \in net : EnrollDrone(f)
           /\ ~\E t \in enrolling : RegisterAddress(t) \/ AckDrone(t)
  <2>1. UNCHANGED <<restarts, drones, addrs, enrolling>>
    BY <1>6 DEF CSNext, CSStep, EnrollStep, AuthStep, EnrollUser, RejectMu1, BuildMu2Batch,
          SnapshotDrones, SkipUnaddressed, ForwardMu2, ForwardFails, ReplyToUser, csVars
  <2>2. ASSUME NEW f \in net', f \notin net PROVE AckFrame(f)
    <3>1. f.kind \notin {"ENROLL_DRONE", "DRONE_ACK"}
      BY <1>6, <2>2, CSSends, FrameFields
    <3> QED
      BY <3>1 DEF AckFrame
  <2> QED
    BY <1>1, <2>1, <2>2, KnownKept
<1> QED
  BY <1>2, <1>3, <1>4, <1>5, <1>6

LEMMA DroneKeepsAckInv ==
    ASSUME AckInv, TypeInv, IInv, DroneNext, UNCHANGED <<csVars, userVars>>
    PROVE  AckInv'
<1>1. PICK d \in Drones : StartDrone(d) \/ DroneStep(d) \/ CrashDrone(d)
  BY DEF DroneNext
<1>2. UNCHANGED <<restarts, drones, addrs, enrolling>> /\ inc \in [Drones -> 0 .. MaxIncarnations]
      /\ phase \in [Drones -> {"down", "enrolling", "enrolled", "listening"}]
  BY DEF csVars, TypeInv, DroneTypes
<1>3. \A e \in Drones : inc[e] \in Nat /\ inc'[e] \in Nat /\ inc[e] <= inc'[e]
  <2>1. \A e \in Drones : inc[e] \in Nat
    BY <1>2, NetworkAssumption
  <2>2. inc' = inc \/ inc' = [inc EXCEPT ![d] = @ + 1]
    BY <1>1 DEF DroneStep, StartDrone, StoreCredentials, BindListener, EnrollmentFails,
          CrashDrone, DroneGone, RejectMu2, AcceptMu2, ServeStep, StashPid, SendMu3, SendRefused,
          ReadPid, ReadPoint, SendData, droneVars
  <2> QED
    BY <1>2, <2>1, <2>2
<1>4. \A e : Enrolled(e)' = Enrolled(e) /\ Known(e)' = Known(e)
  BY <1>2 DEF Enrolled, Known
<1>5. ASSUME NEW f \in net' PROVE AckFrame(f)'
  <2>1. CASE f \in net
    BY <1>2, <1>3, <1>4, <2>1, FramesReceived DEF AckInv, AckFrame, TypeInv, NetTypes, Incarnations
  <2>2. CASE f \notin net /\ f.kind \notin {"ENROLL_DRONE", "DRONE_ACK"}
    BY <2>2 DEF AckFrame
  <2>3. CASE StartDrone(d) /\ f = Request("ENROLL_DRONE", DroneProc(d, inc[d] + 1))
    BY <1>2, <1>3, <2>3, FrameFields DEF AckFrame, StartDrone
  <2> QED
    BY <1>1, <2>1, <2>2, <2>3, DroneSends, FrameFields
<1>6. ASSUME NEW i \in DOMAIN drones' PROVE drones'[i].inc <= inc'[drones'[i].id]
  <2>1. drones[i] \in Records
    BY <1>2, <1>6, ElementOfSeq DEF IInv
  <2>2. drones[i].id \in Drones /\ drones[i].inc \in Nat
    BY <2>1, NetworkAssumption DEF Records, Incarnations
  <2> QED
    BY <1>2, <1>3, <1>6, <2>2 DEF AckInv
<1>7. ASSUME restarts' = 0, NEW e \in Drones, phase'[e] \in {"enrolled", "listening"}
      PROVE  Known(e)'
  <2>1. CASE phase[e] \in {"enrolled", "listening"}
    BY <1>2, <1>4, <1>7, <2>1 DEF AckInv
  <2>2. CASE phase[e] \notin {"enrolled", "listening"}
    <3>1. e = d /\ StoreCredentials(d)
      BY <1>1, <1>2, <1>7, <2>2
         DEF DroneStep, StartDrone, BindListener, EnrollmentFails,
             CrashDrone, DroneGone, RejectMu2, AcceptMu2, ServeStep, StashPid, SendMu3, SendRefused,
             ReadPid, ReadPoint, SendData, droneVars, StoreCredentials
    <3>2. Known(d)
      BY <1>2, <1>7, <3>1, FrameFields DEF StoreCredentials, AckInv, AckFrame, Self
    <3> QED
      BY <1>4, <3>1, <3>2
  <2> QED
    BY <2>1, <2>2
<1> QED
  BY <1>2, <1>4, <1>5, <1>6, <1>7 DEF AckInv

LEMMA UserKeepsAckInv ==
    ASSUME AckInv, UserNext, UNCHANGED <<csVars, droneVars>>
    PROVE  AckInv'
<1>1. UNCHANGED <<restarts, drones, addrs, inc, phase, enrolling>>
  BY DEF csVars, droneVars
<1>2. ASSUME NEW f \in net', f \notin net PROVE AckFrame(f)
  <2>1. f.kind \notin {"ENROLL_DRONE", "DRONE_ACK"}
    BY <1>2, UserSends, FrameFields
  <2> QED
    BY <2>1 DEF AckFrame
<1> QED
  BY <1>1, <1>2, KnownKept

\* A drone that was acknowledged, and its server not restarted since, has an
\* address there and, when it has been started once, its own record.
THEOREM AcknowledgedDronesAreKnown == Spec => []AcknowledgedIsKnown
<1>1. Init => AckInv
  BY DEF Init, NetInit, CSInit, DroneInit, AckInv
<1>2. AckInv /\ TypeInv /\ IInv /\ [Next]_vars => AckInv'
  <2> SUFFICES ASSUME AckInv, TypeInv, IInv, [Next]_vars PROVE AckInv'
    OBVIOUS
  <2>1. CASE UNCHANGED vars
    <3>1. UNCHANGED <<restarts, drones, addrs, inc, phase, enrolling, net>>
      BY <2>1 DEF vars, netVars, csVars, droneVars
    <3> QED
      BY <3>1, KnownKept
  <2> QED
    BY <2>1, CSKeepsAckInv, DroneKeepsAckInv, UserKeepsAckInv DEF Next
<1>3. AckInv /\ TypeInv /\ IInv => AcknowledgedIsKnown
  <2> SUFFICES ASSUME AckInv, TypeInv, IInv, NEW d \in Drones,
                      phase[d] \in {"enrolled", "listening"}, restarts = 0, inc[d] = 1
               PROVE  d \in DOMAIN addrs /\ \E i \in DOMAIN drones : drones[i] = Record(d, 1)
    BY DEF AcknowledgedIsKnown
  <2>1. d \in DOMAIN addrs /\ \E i \in DOMAIN drones : drones[i].id = d
    BY DEF AckInv, Known, Enrolled
  <2>2. PICK i \in DOMAIN drones : drones[i].id = d
    BY <2>1
  <2>3. drones[i] \in Records
    BY <2>2, ElementOfSeq DEF IInv
  <2>4. drones[i].inc <= 1
    BY <2>2 DEF AckInv
  <2>5. drones[i].inc = 1
    BY <2>3, <2>4, NetworkAssumption DEF Records, Incarnations
  <2>6. drones[i] = Record(d, 1)
    BY <2>2, <2>3, <2>5 DEF Records, Record
  <2> QED
    BY <2>1, <2>2, <2>6
<1> QED
  BY <1>1, <1>2, <1>3, TypesInvariant, Invariant, PTL DEF Spec
-----------------------------------------------------------------------------
(* The user's requests *)

ReplyFrame(f) ==
    /\ f.kind # "ERROR"
    /\ f.kind = "USER_ACK" => f.to[2] \in users
    /\ f.kind = "MU1" => f.from[2] \in users

Replied == \E f \in net : f.to = Me /\ f.kind \in CSReplies
Asking == stage \in {"enrolling", "requesting"}

\* Until a restart the server knows the user that sends mu1, and the user that
\* waits for an answer has its connection or the answer.
ReplyInv ==
    restarts = 0 =>
        /\ \A f \in net : ReplyFrame(f)
        /\ stage = "enrolled" => cur \in users
        /\ Asking => Me \in open \/ Replied

\* The server answers a client once, on the connection it asked on.
LEMMA AnswerKeepsReplied ==
    ASSUME NEW c, NEW p, NEW g, Answer(c, p, g), g.to = p, g.kind \in CSReplies,
           \A f \in c : f.kind \notin CSReplies, UNCHANGED cur, Me \in open \/ Replied
    PROVE  (Me \in open \/ Replied)'
<1>1. Me' = Me
  BY DEF Me
<1> QED
  BY <1>1 DEF Answer, Replied

\* Steps that keep the user's connection and its answer.
LEMMA RepliedKept ==
    ASSUME UNCHANGED cur, Me \in open \/ Replied, Me \in open => Me \in open',
           \A f \in net : f.to = Me /\ f.kind \in CSReplies => f \in net'
    PROVE  (Me \in open \/ Replied)'
<1>1. Me' = Me
  BY DEF Me
<1> QED
  BY <1>1 DEF Replied

LEMMA CSKeepsReplyInv ==
    ASSUME ReplyInv, TypeInv, CSNext, UNCHANGED <<droneVars, userVars>>
    PROVE  ReplyInv'
<1> SUFFICES ASSUME restarts' = 0
             PROVE  /\ \A f \in net' : ReplyFrame(f)'
                    /\ stage' = "enrolled" => cur' \in users'
                    /\ Asking' => (Me \in open \/ Replied)'
  BY DEF ReplyInv
<1>1. UNCHANGED <<stage, cur>> /\ Asking' = Asking
  BY DEF userVars, Asking
<1>2. ~Restart
  BY NetworkAssumption DEF Restart, TypeInv, CSTypes
<1>3. restarts = 0 /\ users \subseteq users'
  BY <1>2 DEF CSNext, CSStep, EnrollStep, AuthStep, EnrollDrone, EnrollUser, RegisterAddress,
     AckDrone, RejectMu1, BuildMu2Batch, SnapshotDrones, SkipUnaddressed, ForwardMu2, ForwardFails,
     ReplyToUser, csVars
<1>4. /\ \A f \in net : ReplyFrame(f)
      /\ stage = "enrolled" => cur \in users
      /\ Asking => Me \in open \/ Replied
  BY <1>3 DEF ReplyInv
<1>5. \A g \in net : ~RejectMu1(g)
  BY <1>4 DEF ReplyFrame, RejectMu1, Mu1
<1>6. ASSUME NEW f \in net' PROVE ReplyFrame(f)'
  <2>1. CASE f \in net
    BY <1>3, <1>4, <2>1 DEF ReplyFrame
  <2>2. CASE f.kind \notin {"ERROR", "USER_ACK", "MU1"}
    BY <2>2 DEF ReplyFrame
  <2>3. ASSUME NEW g \in net, EnrollUser(g), f = Reply("USER_ACK", g.from) PROVE ReplyFrame(f)'
    BY <2>3, FrameFields DEF ReplyFrame, EnrollUser
  <2> QED
    BY <1>5, <2>1, <2>2, <2>3, CSSends, FrameFields
<1>7. ASSUME Asking PROVE (Me \in open \/ Replied)'
  <2>1. Me \in open \/ Replied
    BY <1>4, <1>7
  <2>2. ASSUME NEW g \in net, EnrollUser(g) PROVE (Me \in open \/ Replied)'
    <3>1. \A f \in {g} : f.kind \notin CSReplies
      BY <2>2 DEF EnrollUser, CSReplies
    <3> DEFINE r == Reply("USER_ACK", g.from)
    <3>2. Answer({g}, g.from, r)
      BY <2>2 DEF EnrollUser
    <3>3. r.to = g.from /\ r.kind \in CSReplies
      BY FrameFields DEF CSReplies
    <3> HIDE DEF r
    <3> QED
      BY <1>1, <2>1, <3>1, <3>2, <3>3, AnswerKeepsReplied
  <2>3. ASSUME NEW t \in enrolling, AckDrone(t) PROVE (Me \in open \/ Replied)'
    BY <1>1, <2>1, <2>3, AnswerKeepsReplied, FrameFields DEF AckDrone, CSReplies
  <2>4. ASSUME NEW u \in Users, ReplyToUser(u) PROVE (Me \in open \/ Replied)'
    <3> DEFINE r == BatchReply(UserProc(u), auth[u].info)
    <3>1. Answer({}, UserProc(u), r)
      BY <2>4 DEF ReplyToUser
    <3>2. r.to = UserProc(u) /\ r.kind \in CSReplies
      BY FrameFields DEF CSReplies
    <3> HIDE DEF r
    <3> QED
      BY <1>1, <2>1, <3>1, <3>2, AnswerKeepsReplied
  <2>5. ASSUME NEW g \in net, EnrollDrone(g) \/ BuildMu2Batch(g) PROVE (Me \in open \/ Replied)'
    <3>1. open' = open /\ net' = net \ {g} /\ g.kind \notin CSReplies
      BY <2>5 DEF EnrollDrone, BuildMu2Batch, Mu1, CSReplies
    <3> QED
      BY <1>1, <2>1, <3>1, RepliedKept
  <2>6. CASE open' = open /\ net \subseteq net'
    BY <1>1, <2>1, <2>6, RepliedKept
  <2>7. \A t \in enrolling : RegisterAddress(t) => open' = open /\ net \subseteq net'
    BY DEF RegisterAddress, netVars
  <2>8. \A u \in Users : AuthStep(u) => ReplyToUser(u) \/ (open' = open /\ net \subseteq net')
    BY DEF AuthStep, SnapshotDrones, SkipUnaddressed, ForwardMu2, ForwardFails, netVars
  <2> QED
    BY <1>2, <1>5, <2>2, <2>3, <2>4, <2>5, <2>6, <2>7, <2>8 DEF CSNext, CSStep, EnrollStep
<1> QED
  BY <1>1, <1>3, <1>4, <1>6, <1>7

LEMMA DroneKeepsReplyInv ==
    ASSUME ReplyInv, TypeInv, DroneNext, UNCHANGED <<csVars, userVars>>
    PROVE  ReplyInv'
<1>1. PICK d \in Drones : StartDrone(d) \/ DroneStep(d) \/ CrashDrone(d)
  BY DEF DroneNext
<1>2. UNCHANGED <<restarts, users, stage, cur>> /\ Asking' = Asking
  BY DEF csVars, userVars, Asking
<1>3. d # User
  BY NetworkAssumption
<1>4. \A k : Me # DroneProc(d, k)
  BY <1>3 DEF Me, UserProc, DroneProc
<1> SUFFICES ASSUME restarts = 0, \A f \in net : ReplyFrame(f),
                    Asking => Me \in open \/ Replied
             PROVE  /\ \A f \in net' : ReplyFrame(f)'
                    /\ Asking => (Me \in open \/ Replied)'
  BY <1>2 DEF ReplyInv
<1>5. ASSUME NEW f \in net' PROVE ReplyFrame(f)'
  <2>1. CASE f \in net
    BY <1>2, <2>1 DEF ReplyFrame
  <2>2. CASE f.kind \notin {"ERROR", "USER_ACK", "MU1"}
    BY <2>2 DEF ReplyFrame
  <2> QED
    BY <1>1, <2>1, <2>2, DroneSends, FrameFields
<1>6. Me \in open => Me \in open'
  BY <1>1, <1>4
     DEF DroneStep, StartDrone, Connect, StoreCredentials, BindListener, EnrollmentFails,
         CrashDrone, DroneGone, Gone, Self, RejectMu2, AcceptMu2, ServeStep, StashPid, SendMu3,
         SendRefused, ReadPid, ReadPoint, SendData, netVars
<1>7. ASSUME NEW f \in net, f.to = Me, f.kind \in CSReplies PROVE f \in net'
  <2>1. \A k : Reply("DRONE_ACK", DroneProc(d, k)) # f
    BY <1>4, <1>7, FrameFields
  <2>2. f.kind # "MU2"
    BY <1>7 DEF CSReplies
  <2> QED
    BY <1>1, <1>4, <1>7, <2>1, <2>2
       DEF DroneStep, StartDrone, Connect, StoreCredentials, BindListener, EnrollmentFails,
           CrashDrone, DroneGone, Gone, Self, RejectMu2, AcceptMu2, Mu2For, ServeStep, StashPid,
           SendMu3, SendRefused, ReadPid, ReadPoint, SendData, netVars
<1> QED
  BY <1>2, <1>5, <1>6, <1>7, RepliedKept

LEMMA UserKeepsReplyInv ==
    ASSUME ReplyInv, TypeInv, UserNext, UNCHANGED <<csVars, droneVars>>
    PROVE  ReplyInv'
<1>1. UNCHANGED <<restarts, users>>
  BY DEF csVars
<1> SUFFICES ASSUME restarts = 0, \A f \in net : ReplyFrame(f),
                    stage = "enrolled" => cur \in users,
                    Asking => Me \in open \/ Replied
             PROVE  /\ \A f \in net' : ReplyFrame(f)'
                    /\ stage' = "enrolled" => cur' \in users'
                    /\ Asking' => (Me \in open \/ Replied)'
  BY <1>1 DEF ReplyInv
<1>2. ASSUME NEW f \in net' PROVE ReplyFrame(f)'
  <2>1. CASE f \in net
    BY <1>1, <2>1 DEF ReplyFrame
  <2>2. CASE f = Request("ENROLL_USER", Me)
    BY <2>2, FrameFields DEF ReplyFrame
  <2>3. CASE SendMu1 /\ f = Request("MU1", Me)
    BY <1>1, <2>3, FrameFields DEF ReplyFrame, SendMu1, Me
  <2> QED
    BY <2>1, <2>2, <2>3, UserSends
<1>3. ASSUME stage' = "enrolled" PROVE cur' \in users'
  <2>1. CASE stage = "enrolled" /\ cur' = cur
    BY <1>1, <2>1
  <2>2. CASE CompleteEnrollment
    BY <1>1, <2>2, FrameFields DEF CompleteEnrollment, ReplyFrame, Me
  <2> QED
    BY <1>3, <2>1, <2>2
       DEF UserNext, UserStep, StartUser, RequestEnrollment, SendMu1, GetBatchReply, UserFails,
           UserExits, UserGone, HandleMu3, CompareCount, VerifyBatch, EstablishSessions, HandleData,
           userVars
<1>4. ASSUME Asking' PROVE (Me \in open \/ Replied)'
  <2>1. CASE RequestEnrollment \/ SendMu1
    BY <2>1 DEF RequestEnrollment, SendMu1, Connect, Me
  <2>2. CASE Asking /\ UNCHANGED <<cur, open>>
             /\ \A f \in net : f.kind \in CSReplies => f \in net'
    BY <2>2, RepliedKept
  <2>3. ASSUME NEW f \in net, HandleMu3(f) \/ HandleData(f)
        PROVE  Asking /\ UNCHANGED <<cur, open>>
               /\ \A g \in net : g.kind \in CSReplies => g \in net'
    BY <1>4, <2>3 DEF HandleMu3, HandleData, userVars, Asking, CSReplies
  <2>4. ASSUME NEW received \in counted, CompareCount(received)
        PROVE  Asking /\ UNCHANGED <<cur, open>> /\ net' = net
    BY <1>4, <2>4 DEF CompareCount, netVars, Asking
  <2> QED
    BY <1>4, <2>1, <2>2, <2>3, <2>4
       DEF UserNext, UserStep, StartUser, CompleteEnrollment, GetBatchReply, UserFails,
           UserExits, UserGone, VerifyBatch, EstablishSessions, Asking
<1> QED
  BY <1>2, <1>3, <1>4

\* Without timeouts, enroll and authenticate raise only after a restart of the
\* server: drones that crash, refuse or are unknown do not make the user fail.
THEOREM UserFailsOnlyByRestart ==
    ASSUME Timeouts = FALSE
    PROVE  Spec => FailsOnlyByRestart
<1>1. Init => ReplyInv
  BY DEF Init, NetInit, UserInit, ReplyInv, Asking
<1>2. ReplyInv /\ TypeInv /\ [Next]_vars => ReplyInv'
  <2> SUFFICES ASSUME ReplyInv, TypeInv, [Next]_vars PROVE ReplyInv'
    OBVIOUS
  <2>1. CASE UNCHANGED vars
    BY <2>1 DEF vars, netVars, csVars, userVars, ReplyInv, ReplyFrame, Asking, Replied, Me
  <2> QED
    BY <2>1, CSKeepsReplyInv, DroneKeepsReplyInv, UserKeepsReplyInv DEF Next
<1>3. ReplyInv /\ TypeInv /\ [Next]_vars => [UserFails => restarts > 0]_vars
  <2> SUFFICES ASSUME ReplyInv, TypeInv, UserFails, ~(restarts > 0) PROVE FALSE
    OBVIOUS
  <2>1. restarts = 0
    BY DEF TypeInv, CSTypes
  <2>2. Asking
    BY DEF UserFails, Asking
  <2>3. Me \in open \/ Replied
    BY <2>1, <2>2 DEF ReplyInv
  <2>4. ~HungUp(Me)
    BY <2>3 DEF HungUp, Replied, FramesTo
  <2>5. Reply("ERROR", Me) \notin net
    BY <2>1, FrameFields DEF ReplyInv, ReplyFrame
  <2> QED
    BY <2>4, <2>5, Timeouts = FALSE DEF UserFails
<1> QED
  BY <1>1, <1>2, <1>3, TypesInvariant, PTL DEF Spec, FailsOnlyByRestart
=============================================================================
