--------------------------- MODULE ResponseProofs ---------------------------
(***************************************************************************)
(* Proofs about what a user of the socket deployment collects: one mu1     *)
(* draws at most one response from each drone, whatever crashes or enrols  *)
(* again, and, for a user that is started once, the Event means that all   *)
(* drones of its list have answered.  A user whose predecessors' sessions  *)
(* are over gets data under its own keys.                                  *)
(***************************************************************************)
EXTENDS DeploymentProofs, FiniteSetTheorems

Distinct(list) == \A i, j \in DOMAIN list : list[i].id = list[j].id => i = j
ListsDistinct == Distinct(drones) /\ \A u \in Users : Distinct(auth[u].mu2)

-----------------------------------------------------------------------------
(* Where the response of drone d to the mu1 of user u may be, in order *)

NotSent(u) == u > cur \/ (u = cur /\ stage \in {"started", "enrolling", "enrolled"})
Requested(u) == Request("MU1", UserProc(u)) \in net
Idle(u) == auth[u].pc = "idle"
Pending(u, d) ==
    \E i \in DOMAIN auth[u].mu2 :
        /\ auth[u].mu2[i].id = d
        /\ auth[u].pc = "built" \/ (auth[u].pc = "sending" /\ i >= auth[u].pos)
Mu2s(u, d) == {f \in net : f.kind = "MU2" /\ f.user = u /\ f.rec.id = d}
Answering(u, d) == serving[d][u].pc \in {"stashing", "ready"}
Mu3s(u, d) == {f \in net : f.kind = "MU3" /\ f.user = u /\ f.rec.id = d}
Taken(u, d) == {i \in DOMAIN batch : batch[i].user = u /\ batch[i].rec.id = d}

Unique(u, d) ==
    /\ \A x, y \in Mu2s(u, d) : x = y
    /\ \A x, y \in Mu3s(u, d) : x = y
    /\ \A x, y \in Taken(u, d) : x = y

\* It is in one place only.
Token(u, d) ==
    /\ NotSent(u) => ~Requested(u)
    /\ NotSent(u) \/ Requested(u) => Idle(u)
    /\ NotSent(u) \/ Requested(u) \/ Pending(u, d) => Mu2s(u, d) = {}
    /\ NotSent(u) \/ Requested(u) \/ Pending(u, d) \/ Mu2s(u, d) # {} => ~Answering(u, d)
    /\ \/ NotSent(u) \/ Requested(u) \/ Pending(u, d) \/ Mu2s(u, d) # {} \/ Answering(u, d)
       => Mu3s(u, d) = {}
    /\ \/ NotSent(u) \/ Requested(u) \/ Pending(u, d) \/ Mu2s(u, d) # {} \/ Answering(u, d)
       \/ Mu3s(u, d) # {}
       => Taken(u, d) = {}
    /\ Unique(u, d)

Tokens == \A u \in Users, d \in Drones : Token(u, d)

\* Nothing new appears anywhere.
Shrinks(u, d) ==
    /\ NotSent(u)' => NotSent(u)
    /\ Requested(u)' => Requested(u)
    /\ Idle(u) => Idle(u)'
    /\ Pending(u, d)' => Pending(u, d)
    /\ Mu2s(u, d)' \subseteq Mu2s(u, d)
    /\ Answering(u, d)' => Answering(u, d)
    /\ Mu3s(u, d)' \subseteq Mu3s(u, d)
    /\ Taken(u, d)' \subseteq Taken(u, d)

LEMMA TokenShrinks ==
    ASSUME NEW u \in Users, NEW d \in Drones, Token(u, d), Shrinks(u, d)
    PROVE  Token(u, d)'
<1>1. (NotSent(u) => ~Requested(u))'
  BY DEF Token, Shrinks
<1>2. (NotSent(u) \/ Requested(u) => Idle(u))'
  BY DEF Token, Shrinks
<1>3. (NotSent(u) \/ Requested(u) \/ Pending(u, d) => Mu2s(u, d) = {})'
  BY DEF Token, Shrinks
<1>4. (NotSent(u) \/ Requested(u) \/ Pending(u, d) \/ Mu2s(u, d) # {} => ~Answering(u, d))'
  BY DEF Token, Shrinks
<1>5. (\/ NotSent(u) \/ Requested(u) \/ Pending(u, d) \/ Mu2s(u, d) # {} \/ Answering(u, d)
      => Mu3s(u, d) = {})'
  BY DEF Token, Shrinks
<1>6. (\/ NotSent(u) \/ Requested(u) \/ Pending(u, d) \/ Mu2s(u, d) # {} \/ Answering(u, d)
       \/ Mu3s(u, d) # {}
      => Taken(u, d) = {})'
  BY DEF Token, Shrinks
<1>7. Unique(u, d)'
  <2>1. Unique(u, d)
    BY DEF Token
  <2>2. /\ Mu2s(u, d)' \subseteq Mu2s(u, d) /\ Mu3s(u, d)' \subseteq Mu3s(u, d)
        /\ Taken(u, d)' \subseteq Taken(u, d)
    BY DEF Shrinks
  <2> QED
    BY <2>1, <2>2 DEF Unique
<1> QED
  BY <1>1, <1>2, <1>3, <1>4, <1>5, <1>6, <1>7 DEF Token

\* The parts of Shrinks, by what a step leaves alone.
LEMMA FramesShrink ==
    ASSUME \A f \in net' : f \in net \/ f.kind \notin {"MU1", "MU2", "MU3"}
    PROVE  \A u, d : /\ Requested(u)' => Requested(u)
                     /\ Mu2s(u, d)' \subseteq Mu2s(u, d)
                     /\ Mu3s(u, d)' \subseteq Mu3s(u, d)
  BY FrameFields DEF Requested, Mu2s, Mu3s

LEMMA UserUnchanged ==
    ASSUME UNCHANGED <<cur, stage, batch>>
    PROVE  \A u, d : (NotSent(u)' <=> NotSent(u)) /\ Taken(u, d)' = Taken(u, d)
  BY DEF NotSent, Taken

LEMMA AuthUnchanged ==
    ASSUME NEW u, auth'[u] = auth[u]
    PROVE  \A d : (Idle(u)' <=> Idle(u)) /\ (Pending(u, d)' <=> Pending(u, d))
  BY DEF Idle, Pending

LEMMA ServingUnchanged ==
    ASSUME NEW u, NEW d, serving'[d][u] = serving[d][u]
    PROVE  (Answering(u, d)' <=> Answering(u, d))
  BY DEF Answering
-----------------------------------------------------------------------------
(* The threads of _process_mu1 *)

LEMMA AuthEffect ==
    ASSUME IInv, NEW u \in Users, AuthStep(u)
    PROVE  LET a == auth[u]
               b == auth'[u]
           IN  /\ \A v \in Users : v # u => auth'[v] = auth[v]
               /\ SnapshotDrones(u) =>
                     /\ a.pc = "built" /\ b.pc = "sending"
                     /\ b.mu2 = a.mu2 /\ b.snap = drones /\ b.pos = 1 /\ b.info = a.info
               /\ SkipUnaddressed(u) \/ ForwardFails(u) \/ ForwardMu2(u) =>
                     /\ a.pc = "sending" /\ b.pc = "sending"
                     /\ b.mu2 = a.mu2 /\ b.snap = a.snap /\ b.pos = a.pos + 1
               /\ SkipUnaddressed(u) \/ ForwardFails(u) => b.info = a.info
               /\ ForwardMu2(u) => b.info = Append(a.info, a.snap[a.pos])
               /\ ReplyToUser(u) => b = IdleThread
<1> DEFINE a == auth[u]
           b == auth'[u]
<1>1. auth \in [Users -> AuthThreads] /\ a \in AuthThreads
  BY DEF IInv, AuthThreads
\* A drone is listed in the reply when its mu2 is sent, and only then.
<1>6. ~(ForwardMu2(u) /\ (SkipUnaddressed(u) \/ ForwardFails(u)))
  <2> DEFINE p == a.pos + 1
             l == Append(a.info, a.snap[a.pos])
             t == [a EXCEPT !.pos = p]
  <2>1. t.info = a.info /\ [t EXCEPT !.info = l].info = l
    <3> HIDE DEF p, l
    <3> QED
      BY <1>1 DEF AuthThreads
  <2>2. Advance(u) = [auth EXCEPT ![u] = t]
    BY DEF Advance
  <2>3. ForwardMu2(u) => auth' = [auth EXCEPT ![u] = [t EXCEPT !.info = l]]
    <3> HIDE DEF t
    <3>1. Advance(u)[u] = t
      BY <1>1, <2>2
    <3> QED
      BY <1>1, <2>1, <2>2, <3>1 DEF ForwardMu2
  <2>4. SkipUnaddressed(u) \/ ForwardFails(u) => auth' = [auth EXCEPT ![u] = t]
    BY <2>2 DEF SkipUnaddressed, ForwardFails
  <2>5. l # a.info
    <3>1. a.info \in Seq(Records)
      BY <1>1 DEF AuthThreads
    <3> QED
      BY <3>1
  <2> HIDE DEF t, l
  <2> QED
    BY <1>1, <2>1, <2>3, <2>4, <2>5
<1>2. CASE SnapshotDrones(u)
  <2> DEFINE t == [a EXCEPT !.pc = "sending", !.snap = drones, !.pos = 1]
  <2>1. auth' = [auth EXCEPT ![u] = t]
    BY <1>2 DEF SnapshotDrones
  <2>2. t.pc = "sending" /\ t.mu2 = a.mu2 /\ t.snap = drones /\ t.pos = 1 /\ t.info = a.info
    BY <1>1 DEF AuthThreads
  <2> HIDE DEF t
  <2> QED
    BY <1>1, <1>2, <2>1, <2>2 DEF SnapshotDrones, SkipUnaddressed, ForwardMu2, ForwardFails,
       ReplyToUser, Zipping
<1>3. CASE SkipUnaddressed(u) \/ ForwardFails(u)
  <2> DEFINE p == a.pos + 1
             t == [a EXCEPT !.pos = p]
  <2>1. auth' = [auth EXCEPT ![u] = t] /\ a.pc = "sending"
    BY <1>3 DEF SkipUnaddressed, ForwardFails, Advance, Zipping
  <2>2. t.pc = a.pc /\ t.mu2 = a.mu2 /\ t.snap = a.snap /\ t.pos = p /\ t.info = a.info
    <3> HIDE DEF p
    <3> QED
      BY <1>1 DEF AuthThreads
  <2> HIDE DEF t
  <2>3. ~SnapshotDrones(u) /\ ~ReplyToUser(u)
    BY <1>3 DEF SkipUnaddressed, ForwardFails, SnapshotDrones, ReplyToUser, Zipping
  <2>4. ~ForwardMu2(u)
    BY <1>3, <1>6
  <2> QED
    BY <1>1, <2>1, <2>2, <2>3, <2>4
<1>4. CASE ForwardMu2(u)
  <2> DEFINE p == a.pos + 1
             l == Append(a.info, a.snap[a.pos])
             t == [a EXCEPT !.pos = p, !.info = l]
  <2>1. auth' = [auth EXCEPT ![u] = t] /\ a.pc = "sending"
    BY <1>4 DEF ForwardMu2, Advance, Zipping
  <2>2. t.pc = a.pc /\ t.mu2 = a.mu2 /\ t.snap = a.snap /\ t.pos = p /\ t.info = l
    <3> HIDE DEF p, l
    <3> QED
      BY <1>1 DEF AuthThreads
  <2>3. ~SnapshotDrones(u) /\ ~ReplyToUser(u)
    BY <1>4 DEF ForwardMu2, SnapshotDrones, ReplyToUser, Zipping
  <2> HIDE DEF t
  <2>4. ~SkipUnaddressed(u) /\ ~ForwardFails(u)
    BY <1>4, <1>6
  <2> QED
    BY <1>1, <2>1, <2>2, <2>3, <2>4
<1>5. CASE ReplyToUser(u)
  BY <1>1, <1>5 DEF SkipUnaddressed, ForwardFails, ForwardMu2, SnapshotDrones, ReplyToUser
<1> QED
  BY <1>2, <1>3, <1>4, <1>5 DEF AuthStep

\* A thread's list of mu2 to send never grows.
LEMMA AuthStepShrinks ==
    ASSUME IInv, NEW u \in Users, AuthStep(u), NEW v \in Users, NEW d
    PROVE  (Idle(v) => Idle(v)') /\ (Pending(v, d)' => Pending(v, d))
<1>1. CASE v # u
  BY <1>1, AuthEffect, AuthUnchanged
<1>2. CASE v = u /\ SnapshotDrones(u)
  <2>1. auth[u].mu2 \in Seq(Records)
    BY DEF IInv, ThreadInv
  <2> QED
    BY <1>2, <2>1, AuthEffect DEF Idle, Pending
<1>3. CASE v = u /\ (SkipUnaddressed(u) \/ ForwardFails(u) \/ ForwardMu2(u))
  <2>1. auth[u].mu2 \in Seq(Records) /\ auth[u].pos \in Nat
    BY DEF IInv, ThreadInv
  <2>2. \A i \in DOMAIN auth[u].mu2 : i \in Nat
    BY <2>1
  <2> QED
    BY <1>3, <2>1, <2>2, AuthEffect DEF Idle, Pending
<1>4. CASE v = u /\ ReplyToUser(u)
  BY <1>4, AuthEffect DEF Idle, Pending, IdleThread
<1> QED
  BY <1>1, <1>2, <1>3, <1>4 DEF AuthStep
\* add_drone keeps one record per drone.
LEMMA PutDistinct ==
    ASSUME NEW t \in Seq(Records), NEW r \in Records, Distinct(t)
    PROVE  Distinct(Put(t, r))
<1>1. Len(t) \in Nat /\ DOMAIN t = 1 .. Len(t) /\ \A i \in 1 .. Len(t) : t[i] \in Records
  BY LenProperties, ElementOfSeq
<1>2. CASE \E i \in DOMAIN t : t[i].id = r.id
  BY <1>1, <1>2 DEF Put, Distinct
<1>3. CASE ~\E i \in DOMAIN t : t[i].id = r.id
  <2>1. Put(t, r) = Append(t, r)
    BY <1>3 DEF Put
  <2>2. /\ Len(Append(t, r)) = Len(t) + 1 /\ Append(t, r) \in Seq(Records)
        /\ Append(t, r)[Len(t) + 1] = r
        /\ \A i \in 1 .. Len(t) : Append(t, r)[i] = t[i]
    BY <1>1, AppendProperties
  <2>3. DOMAIN Append(t, r) = 1 .. (Len(t) + 1)
    BY <2>2, LenProperties
  <2>4. \A i \in 1 .. (Len(t) + 1) : i = Len(t) + 1 \/ i \in 1 .. Len(t)
    BY <1>1
  <2> QED
    BY <1>1, <1>3, <2>1, <2>2, <2>3, <2>4 DEF Distinct
<1> QED
  BY <1>2, <1>3

LEMMA CSKeepsDistinct ==
    ASSUME IInv, TypeInv, ListsDistinct, CSNext
    PROVE  ListsDistinct'
<1>1. drones \in Seq(Records) /\ auth \in [Users -> AuthThreads]
  BY DEF IInv, AuthThreads
<1>2. ASSUME NEW f \in net, EnrollDrone(f) PROVE ListsDistinct'
  <2>1. f.from \in Drones \X Incarnations
    BY <1>2, FramesReceived DEF TypeInv, NetTypes, EnrollDrone
  <2>2. Record(f.from[1], f.from[2]) \in Records
    BY <2>1 DEF Record, Records
  <2> QED
    BY <1>1, <1>2, <2>2, PutDistinct DEF EnrollDrone, ListsDistinct
<1>3. ASSUME NEW f \in net, BuildMu2Batch(f) PROVE ListsDistinct'
  <2> DEFINE t == [IdleThread EXCEPT !.pc = "built", !.mu2 = drones]
  <2>1. auth' = [auth EXCEPT ![f.from[2]] = t] /\ drones' = drones
    BY <1>3 DEF BuildMu2Batch
  <2>2. t.mu2 = drones
    BY DEF IdleThread
  <2> HIDE DEF t
  <2> QED
    BY <1>1, <2>1, <2>2 DEF ListsDistinct
<1>4. ASSUME NEW u \in Users, AuthStep(u) PROVE ListsDistinct'
  <2>1. drones' = drones
    BY <1>4 DEF AuthStep, SnapshotDrones, SkipUnaddressed, ForwardMu2, ForwardFails, ReplyToUser
  <2>2. ASSUME NEW v \in Users PROVE auth'[v].mu2 = auth[v].mu2 \/ auth'[v].mu2 = <<>>
    BY <1>4, AuthEffect DEF AuthStep, IdleThread
  <2> QED
    BY <2>1, <2>2 DEF ListsDistinct, Distinct
<1>5. CASE UNCHANGED <<drones, auth>>
  BY <1>5 DEF ListsDistinct, Distinct
<1>6. CASE Restart
  BY <1>6 DEF Restart, ListsDistinct, Distinct, IdleThread
<1>7. \A f \in net : EnrollUser(f) \/ RejectMu1(f) => UNCHANGED <<drones, auth>>
  BY DEF EnrollUser, RejectMu1, csVars
<1>8. \A t \in enrolling : RegisterAddress(t) \/ AckDrone(t) => UNCHANGED <<drones, auth>>
  BY DEF RegisterAddress, AckDrone
<1> QED
  BY <1>2, <1>3, <1>4, <1>5, <1>6, <1>7, <1>8 DEF CSNext, CSStep, EnrollStep

\* The mu1 is answered by the thread that takes it; the thread sends each mu2 once.
LEMMA CSKeepsTokens ==
    ASSUME IInv, TypeInv, ListsDistinct, Tokens, CSNext, UNCHANGED <<droneVars, userVars>>
    PROVE  Tokens'
<1> SUFFICES ASSUME NEW u \in Users, NEW d \in Drones PROVE Token(u, d)'
  BY DEF Tokens
<1>1. Token(u, d)
  BY DEF Tokens
<1>2. UNCHANGED <<cur, stage, batch, serving>>
  BY DEF droneVars, userVars
<1>3. /\ (NotSent(u)' <=> NotSent(u)) /\ Taken(u, d)' = Taken(u, d)
      /\ (Answering(u, d)' <=> Answering(u, d))
  BY <1>2, UserUnchanged, ServingUnchanged
<1>4. ASSUME NEW f \in net, BuildMu2Batch(f) PROVE Token(u, d)'
  <2> DEFINE t == [IdleThread EXCEPT !.pc = "built", !.mu2 = drones]
  <2>1. f.from \in {User} \X Users /\ f = Request("MU1", f.from)
    BY <1>4 DEF TypeInv, NetTypes, BuildMu2Batch, Mu1, Frames, Request
  <2>2. f = Request("MU1", UserProc(f.from[2])) /\ f.from[2] \in Users
    BY <2>1 DEF UserProc
  <2>3. net' = net \ {f} /\ auth' = [auth EXCEPT ![f.from[2]] = t]
    BY <1>4 DEF BuildMu2Batch
  <2>4. /\ Requested(u)' => Requested(u)
        /\ Mu2s(u, d)' \subseteq Mu2s(u, d) /\ Mu3s(u, d)' \subseteq Mu3s(u, d)
    BY <2>3, FramesShrink
  <2>5. CASE f.from[2] # u
    <3>1. auth'[u] = auth[u]
      BY <2>3, <2>5 DEF IInv
    <3> QED
      BY <1>1, <1>3, <2>4, <3>1, AuthUnchanged, TokenShrinks DEF Shrinks
  <2>6. CASE f.from[2] = u
    <3>1. Requested(u) /\ ~Requested(u)'
      BY <2>2, <2>3, <2>6 DEF Requested
    <3>2. /\ ~NotSent(u) /\ Mu2s(u, d) = {} /\ ~Answering(u, d) /\ Mu3s(u, d) = {}
          /\ Taken(u, d) = {}
      BY <1>1, <3>1 DEF Token
    <3>3. /\ ~NotSent(u)' /\ Mu2s(u, d)' = {} /\ ~Answering(u, d)' /\ Mu3s(u, d)' = {}
          /\ Taken(u, d)' = {}
      BY <1>3, <2>4, <3>2
    <3>4. Unique(u, d)'
      BY <3>3 DEF Unique
    <3> QED
      BY <3>1, <3>3, <3>4 DEF Token
  <2> QED
    BY <2>5, <2>6
<1>5. ASSUME NEW v \in Users, ForwardMu2(v) PROVE Token(u, d)'
  <2> DEFINE p == auth[v].pos
             r == auth[v].mu2[p]
             g == Mu2Frame(DroneProc(Target(v), listener[Target(v)]), v, r)
  <2>1. /\ AuthStep(v) /\ net' = net \cup {g} /\ auth[v].pc = "sending"
        /\ p <= Len(auth[v].mu2)
    BY <1>5 DEF ForwardMu2, AuthStep, Zipping
  <2>2. /\ auth[v].mu2 \in Seq(Records) /\ p \in Nat /\ p >= 1
    BY <2>1 DEF IInv, ThreadInv
  <2>3. DOMAIN auth[v].mu2 = 1 .. Len(auth[v].mu2) /\ Len(auth[v].mu2) \in Nat
    BY <2>2, LenProperties
  <2>4. p \in DOMAIN auth[v].mu2
    BY <2>1, <2>2, <2>3
  <2>5. g.kind = "MU2" /\ g.user = v /\ g.rec = r
    BY FrameFields
  <2>6. (Idle(u) => Idle(u)') /\ (Pending(u, d)' => Pending(u, d))
    BY <2>1, AuthStepShrinks
  <2>7. /\ Requested(u)' <=> Requested(u)
        /\ Mu2s(u, d)' \subseteq Mu2s(u, d) \cup {g} /\ Mu3s(u, d)' = Mu3s(u, d)
        /\ (u # v \/ r.id # d) => Mu2s(u, d)' = Mu2s(u, d)
    <3> HIDE DEF g, r
    <3>1. \A k, q : Request(k, q).kind = k
      BY FrameFields
    <3> QED
      BY <2>1, <2>5, <3>1 DEF Requested, Mu2s, Mu3s
  <2>8. CASE u # v \/ r.id # d
    <3>1. Mu2s(u, d)' \subseteq Mu2s(u, d)
      BY <2>7, <2>8
    <3> HIDE DEF g, r
    <3>2. Shrinks(u, d)
      BY <1>3, <2>6, <2>7, <3>1 DEF Shrinks
    <3> QED
      BY <1>1, <3>2, TokenShrinks
  <2>9. CASE u = v /\ r.id = d
    <3>1. Pending(u, d)
      BY <2>1, <2>2, <2>4, <2>9 DEF Pending
    <3>2. ~Pending(u, d)'
      <4>1. Distinct(auth[u].mu2)
        BY DEF ListsDistinct
      <4>2. auth'[u].mu2 = auth[u].mu2 /\ auth'[u].pc = "sending" /\ auth'[u].pos = p + 1
        BY <1>5, <2>1, <2>9, AuthEffect
      <4>3. ASSUME NEW i \in DOMAIN auth[u].mu2, i >= p + 1, auth[u].mu2[i].id = d PROVE FALSE
        <5>1. i = p
          BY <2>4, <2>9, <4>1, <4>3 DEF Distinct
        <5> QED
          BY <2>2, <4>3, <5>1
      <4> QED
        BY <4>2, <4>3 DEF Pending
    <3>3. /\ ~Requested(u) /\ ~NotSent(u)
          /\ Mu2s(u, d) = {} /\ ~Answering(u, d) /\ Mu3s(u, d) = {} /\ Taken(u, d) = {}
      <4>1. ~Idle(u)
        BY <2>1, <2>9 DEF Idle
      <4> QED
        BY <1>1, <3>1, <4>1 DEF Token
    <3>4. /\ ~Requested(u)' /\ ~NotSent(u)' /\ ~Answering(u, d)' /\ Mu3s(u, d)' = {}
          /\ Taken(u, d)' = {} /\ Mu2s(u, d)' \subseteq {g}
      BY <1>3, <2>7, <3>3
    <3>5. Unique(u, d)'
      BY <3>4 DEF Unique
    <3> QED
      BY <3>2, <3>4, <3>5 DEF Token
  <2> QED
    BY <2>8, <2>9
<1>6. CASE /\ ~\E f \in net : BuildMu2Batch(f)
           /\ ~\E v \in Users : ForwardMu2(v)
  <2>1. \A f \in net' : f \in net \/ f.kind \notin {"MU1", "MU2", "MU3"}
    BY <1>6, CSSends, FrameFields
  <2>2. (Idle(u) => Idle(u)') /\ (Pending(u, d)' => Pending(u, d))
    <3>1. CASE \E v \in Users : AuthStep(v)
      BY <3>1, AuthStepShrinks
    <3>2. CASE auth' = auth
      BY <3>2, AuthUnchanged
    <3>3. CASE Restart
      BY <3>3 DEF Restart, IdleThread, Idle, Pending
    <3>4. CASE EnrollStep \/ \E f \in net : RejectMu1(f)
      BY <3>2, <3>4 DEF EnrollStep, EnrollDrone, EnrollUser, RegisterAddress, AckDrone, RejectMu1,
         csVars
    <3> QED
      BY <1>6, <3>1, <3>3, <3>4 DEF CSNext, CSStep
  <2> QED
    BY <1>1, <1>3, <2>1, <2>2, FramesShrink, TokenShrinks DEF Shrinks
<1> QED
  BY <1>4, <1>5, <1>6
\* A mu2 starts one thread, and a thread sends one mu3.
LEMMA DroneKeepsTokens ==
    ASSUME TypeInv, Tokens, DroneNext, UNCHANGED <<csVars, userVars>>
    PROVE  Tokens'
<1> SUFFICES ASSUME NEW u \in Users, NEW d \in Drones PROVE Token(u, d)'
  BY DEF Tokens
<1>1. Token(u, d) /\ DroneTypes
  BY DEF Tokens, TypeInv
<1>2. UNCHANGED <<cur, stage, batch, auth>>
  BY DEF csVars, userVars
<1>3. /\ NotSent(u)' <=> NotSent(u)
      /\ Taken(u, d)' = Taken(u, d)
      /\ Idle(u)' <=> Idle(u)
      /\ Pending(u, d)' <=> Pending(u, d)
  BY <1>2, UserUnchanged, AuthUnchanged
<1>4. PICK e \in Drones : StartDrone(e) \/ DroneStep(e) \/ CrashDrone(e)
  BY DEF DroneNext
<1>5. ASSUME NEW f \in net, AcceptMu2(e, f) PROVE Token(u, d)'
  <2>1. /\ f.user \in Users /\ f.kind = "MU2" /\ f.rec.id = e
    BY <1>5, FramesReceived DEF TypeInv, NetTypes, AcceptMu2, Mu2For, Record
  <2>2. SetThread(e, f.user, Thread("stashing", 0, 0)) /\ net' = net \ {f}
    BY <1>1, <1>5, <2>1, ServeEffect DEF AcceptMu2
  <2>3. /\ Requested(u)' => Requested(u)
        /\ Mu2s(u, d)' \subseteq Mu2s(u, d) /\ Mu3s(u, d)' \subseteq Mu3s(u, d)
    BY <2>2, FramesShrink
  <2>4. CASE e # d \/ f.user # u
    <3>1. Answering(u, d)' <=> Answering(u, d)
      BY <2>2, <2>4, ServingUnchanged DEF SetThread
    <3> QED
      BY <1>1, <1>3, <2>3, <3>1, TokenShrinks DEF Shrinks
  <2>5. CASE e = d /\ f.user = u
    <3>1. f \in Mu2s(u, d)
      BY <2>1, <2>5 DEF Mu2s
    <3>2. /\ ~NotSent(u) /\ ~Requested(u) /\ ~Pending(u, d) /\ Mu3s(u, d) = {}
          /\ Taken(u, d) = {}
      BY <1>1, <3>1 DEF Token
    <3>3. Mu2s(u, d)' = {}
      <4>1. \A g \in Mu2s(u, d) : g = f
        BY <1>1, <3>1 DEF Token, Unique
      <4> QED
        BY <2>2, <2>3, <4>1 DEF Mu2s
    <3>4. /\ ~NotSent(u)' /\ ~Requested(u)' /\ ~Pending(u, d)' /\ Mu3s(u, d)' = {}
          /\ Taken(u, d)' = {}
      BY <1>3, <2>3, <3>2
    <3>5. Unique(u, d)'
      BY <3>3, <3>4 DEF Unique
    <3> QED
      BY <3>3, <3>4, <3>5 DEF Token
  <2> QED
    BY <2>4, <2>5
<1>6. ASSUME NEW v \in Users, SendMu3(e, v) PROVE Token(u, d)'
  <2> DEFINE g == Mu3Frame(UserProc(listener[User]), v, Record(e, inc[e]))
  <2>1. /\ g.kind = "MU3" /\ g.user = v /\ g.rec.id = e
    BY FrameFields DEF Record
  <2>2. /\ SetThread(e, v, Thread("sent", serving[e][v].pid, serving[e][v].point))
        /\ net' = net \cup {g} /\ serving[e][v].pc = "ready"
    BY <1>1, <1>6, ServeEffect DEF SendMu3
  <2>3. /\ Requested(u)' <=> Requested(u)
        /\ Mu2s(u, d)' = Mu2s(u, d) /\ Mu3s(u, d)' \subseteq Mu3s(u, d) \cup {g}
        /\ (e # d \/ v # u) => Mu3s(u, d)' = Mu3s(u, d)
    <3> HIDE DEF g
    <3>1. \A k, q : Request(k, q).kind = k
      BY FrameFields
    <3> QED
      BY <2>1, <2>2, <3>1 DEF Requested, Mu2s, Mu3s
  <2> HIDE DEF g
  <2>4. CASE e # d \/ v # u
    <3>1. Answering(u, d)' <=> Answering(u, d)
      BY <2>2, <2>4, ServingUnchanged DEF SetThread
    <3>2. Mu3s(u, d)' \subseteq Mu3s(u, d)
      BY <2>3, <2>4
    <3>3. Shrinks(u, d)
      BY <1>3, <2>3, <3>1, <3>2 DEF Shrinks
    <3> QED
      BY <1>1, <3>3, TokenShrinks
  <2>5. CASE e = d /\ v = u
    <3>1. Answering(u, d)
      BY <2>2, <2>5 DEF Answering
    <3>2. /\ ~NotSent(u) /\ ~Requested(u) /\ ~Pending(u, d) /\ Mu2s(u, d) = {}
          /\ Mu3s(u, d) = {} /\ Taken(u, d) = {}
      BY <1>1, <3>1 DEF Token
    <3>3. ~Answering(u, d)'
      BY <2>2, <2>5 DEF SetThread, Thread, Answering
    <3>4. /\ ~NotSent(u)' /\ ~Requested(u)' /\ ~Pending(u, d)' /\ Mu2s(u, d)' = {}
          /\ Mu3s(u, d)' \subseteq {g} /\ Taken(u, d)' = {}
      BY <1>3, <2>3, <3>2
    <3>5. Unique(u, d)'
      BY <3>4 DEF Unique
    <3> QED
      BY <3>3, <3>4, <3>5 DEF Token
  <2> QED
    BY <2>4, <2>5
<1>7. CASE /\ ~\E f \in net : AcceptMu2(e, f)
           /\ ~\E v \in Users : SendMu3(e, v)
  <2>1. \A f \in net' : f \in net \/ f.kind \notin {"MU1", "MU2", "MU3"}
    BY <1>4, <1>7, DroneSends, FrameFields
  <2>2. Answering(u, d)' => Answering(u, d)
    <3>1. CASE serving' = serving
      BY <3>1, ServingUnchanged
    <3>2. CASE DroneGone(e)
      BY <1>1, <3>2 DEF DroneGone, DroneTypes, NoThread, Answering
    <3>3. ASSUME NEW v \in Users, ServeStep(e, v) PROVE Answering(u, d)' => Answering(u, d)
      <4>1. /\ \A e1 \in Drones, v1 \in Users :
                  e1 # e \/ v1 # v => serving'[e1][v1] = serving[e1][v1]
            /\ serving'[e][v].pc \in {"stashing", "ready"} => Answering(v, e)
        <5>1. CASE StashPid(e, v)
          BY <1>1, <5>1, ServeEffect DEF StashPid, SetThread, Answering
        <5>2. CASE SendRefused(e, v) \/ SendData(e, v)
          <6>1. SetThread(e, v, Thread("none", 0, 0))
            BY <1>1, <5>2, ServeEffect
          <6> QED
            BY <6>1 DEF Thread, SetThread
        <5>3. CASE ReadPid(e, v)
          <6>1. SetThread(e, v, Thread("read_pid", pid[e], serving[e][v].point))
            BY <1>1, <5>3, ServeEffect
          <6> QED
            BY <6>1 DEF Thread, SetThread
        <5>4. CASE ReadPoint(e, v)
          <6>1. SetThread(e, v, Thread("keyed", serving[e][v].pid, point[e]))
            BY <1>1, <5>4, ServeEffect
          <6> QED
            BY <6>1 DEF Thread, SetThread
        <5> QED
          BY <1>7, <3>3, <5>1, <5>2, <5>3, <5>4 DEF ServeStep
      <4> QED
        BY <4>1 DEF Answering
    <3> QED
      BY <1>4, <1>7, <3>1, <3>2, <3>3
         DEF DroneStep, StartDrone, StoreCredentials, BindListener, EnrollmentFails, CrashDrone,
             RejectMu2, droneVars
  <2> QED
    BY <1>1, <1>3, <2>1, <2>2, FramesShrink, TokenShrinks DEF Shrinks
<1> QED
  BY <1>5, <1>6, <1>7

\* A user process sends one mu1, and takes each mu3 into its batch once.
LEMMA UserKeepsTokens ==
    ASSUME TypeInv, Tokens, UserNext, UNCHANGED <<csVars, droneVars>>
    PROVE  Tokens'
<1> SUFFICES ASSUME NEW u \in Users, NEW d \in Drones PROVE Token(u, d)'
  BY DEF Tokens
<1>1. Token(u, d) /\ UserTypes /\ cur \in Nat /\ u \in Nat
  BY NetworkAssumption DEF Tokens, TypeInv, UserTypes, Users
<1>2. UNCHANGED <<auth, serving>>
  BY DEF csVars, droneVars
<1>3. /\ Answering(u, d)' <=> Answering(u, d)
      /\ Idle(u)' <=> Idle(u)
      /\ Pending(u, d)' <=> Pending(u, d)
  BY <1>2, ServingUnchanged, AuthUnchanged
<1>4. CASE SendMu1
  <2> DEFINE g == Request("MU1", Me)
  <2>1. /\ net' = net \cup {g} /\ stage = "enrolled" /\ stage' = "requesting"
        /\ UNCHANGED <<cur, batch>>
    BY <1>4 DEF SendMu1, Connect
  <2>2. /\ Taken(u, d)' = Taken(u, d)
        /\ NotSent(u)' => NotSent(u) /\ u # cur
    BY <1>1, <2>1 DEF Taken, NotSent
  <2>3. g.kind = "MU1" /\ g = Request("MU1", UserProc(cur))
    BY FrameFields DEF Me
  <2>4. Mu2s(u, d)' = Mu2s(u, d) /\ Mu3s(u, d)' = Mu3s(u, d)
    <3> HIDE DEF g
    <3> QED
      BY <2>1, <2>3 DEF Mu2s, Mu3s
  <2>5. CASE u = cur
    <3>1. NotSent(u)
      BY <2>1, <2>5 DEF NotSent
    <3>2. /\ Idle(u) /\ Mu2s(u, d) = {} /\ ~Answering(u, d) /\ Mu3s(u, d) = {}
          /\ Taken(u, d) = {}
      BY <1>1, <3>1 DEF Token
    <3>3. /\ ~NotSent(u)' /\ Idle(u)' /\ Mu2s(u, d)' = {} /\ ~Answering(u, d)'
          /\ Mu3s(u, d)' = {} /\ Taken(u, d)' = {}
      BY <1>3, <2>2, <2>4, <2>5, <3>2
    <3>4. Unique(u, d)'
      BY <3>3 DEF Unique
    <3> QED
      BY <3>3, <3>4 DEF Token
  <2>6. CASE u # cur
    <3>1. Requested(u)' => Requested(u)
      <4>1. Request("MU1", UserProc(u)) # g
        BY <2>3, <2>6, FrameFields
      <4> HIDE DEF g
      <4> QED
        BY <2>1, <4>1 DEF Requested
    <3>2. Shrinks(u, d)
      BY <1>3, <2>2, <2>4, <3>1 DEF Shrinks
    <3> QED
      BY <1>1, <3>2, TokenShrinks
  <2> QED
    BY <2>5, <2>6
<1>5. CASE ~SendMu1
  <2>1. \A f \in net' : f \in net \/ f.kind \notin {"MU1", "MU2", "MU3"}
    BY <1>5, UserSends, FrameFields
  <2>2. /\ Requested(u)' => Requested(u)
        /\ Mu2s(u, d)' \subseteq Mu2s(u, d) /\ Mu3s(u, d)' \subseteq Mu3s(u, d)
    BY <2>1, FramesShrink
  <2>3. NotSent(u)' => NotSent(u)
    <3>1. CASE StartUser
      BY <1>1, <3>1 DEF StartUser, NotSent
    <3>2. CASE UserGone
      BY <1>1, <3>2 DEF UserGone, NotSent
    <3>3. CASE cur' = cur /\ stage' \in {stage, "requesting", "waiting", "verified", "done"}
      BY <1>1, <3>3 DEF NotSent
    <3>4. CASE RequestEnrollment \/ CompleteEnrollment
      BY <1>1, <3>4 DEF RequestEnrollment, CompleteEnrollment, NotSent
    <3> QED
      BY <1>5, <3>1, <3>2, <3>3, <3>4
         DEF UserNext, UserStep, GetBatchReply, UserFails, UserExits, HandleMu3, CompareCount,
             VerifyBatch, EstablishSessions, HandleData, userVars
  <2>4. ASSUME NEW f \in net, HandleMu3(f) PROVE Token(u, d)'
    <3> DEFINE n == Len(batch)
               r == [user |-> f.user, rec |-> f.rec]
    <3>1. /\ f.kind = "MU3" /\ net' = net \ {f} /\ batch' = Append(batch, r)
      BY <2>4 DEF HandleMu3
    <3>2. batch \in Seq(Responses) /\ r \in Responses /\ n \in Nat
      BY <1>1, <2>4, FramesReceived, LenProperties
         DEF UserTypes, TypeInv, NetTypes, HandleMu3, Responses
    <3>3. /\ DOMAIN batch = 1 .. n /\ DOMAIN batch' = 1 .. (n + 1)
          /\ batch'[n + 1] = r /\ \A i \in 1 .. n : batch'[i] = batch[i]
      BY <3>1, <3>2, AppendProperties, LenProperties
    <3>4. \A i \in 1 .. (n + 1) : i \in 1 .. n \/ i = n + 1
      BY <3>2
    <3>5. CASE f.user # u \/ f.rec.id # d
      <4>1. Taken(u, d)' \subseteq Taken(u, d)
        BY <3>3, <3>4, <3>5 DEF Taken
      <4> QED
        BY <1>1, <1>3, <2>2, <2>3, <4>1, TokenShrinks DEF Shrinks
    <3>6. CASE f.user = u /\ f.rec.id = d
      <4>1. f \in Mu3s(u, d)
        BY <3>1, <3>6 DEF Mu3s
      <4>2. /\ ~NotSent(u) /\ ~Requested(u) /\ ~Pending(u, d) /\ Mu2s(u, d) = {}
            /\ ~Answering(u, d) /\ Taken(u, d) = {}
        BY <1>1, <4>1 DEF Token
      <4>3. Mu3s(u, d)' = {}
        <5>1. \A g \in Mu3s(u, d) : g = f
          BY <1>1, <4>1 DEF Token, Unique
        <5> QED
          BY <2>2, <3>1, <5>1 DEF Mu3s
      <4>4. /\ ~NotSent(u)' /\ ~Requested(u)' /\ ~Pending(u, d)' /\ Mu2s(u, d)' = {}
            /\ ~Answering(u, d)'
        BY <1>3, <2>2, <2>3, <4>2
      <4>5. \A i \in Taken(u, d)' : i = n + 1
        BY <3>3, <3>4, <4>2 DEF Taken
      <4>6. Unique(u, d)'
        BY <4>3, <4>4, <4>5 DEF Unique
      <4> QED
        BY <4>3, <4>4, <4>6 DEF Token
    <3> QED
      BY <3>5, <3>6
  <2>5. CASE ~\E f \in net : HandleMu3(f)
    <3>1. batch' = batch \/ batch' = <<>>
      BY <1>5, <2>5
         DEF UserNext, UserStep, StartUser, RequestEnrollment, CompleteEnrollment, GetBatchReply,
             UserFails, UserExits, UserGone, CompareCount, VerifyBatch, EstablishSessions,
             HandleData, userVars, Fresh
    <3>2. Taken(u, d)' \subseteq Taken(u, d)
      BY <3>1 DEF Taken
    <3> QED
      BY <1>1, <1>3, <2>2, <2>3, <3>2, TokenShrinks DEF Shrinks
  <2> QED
    BY <2>4, <2>5
<1> QED
  BY <1>4, <1>5

\* What the server sends out for a mu1 and what comes back: the response of a
\* drone is pending in _process_mu1, in its mu2, with the drone, in its mu3 or in
\* the batch, once; no table or list of the server has a drone twice.
THEOREM TokensInvariant == Spec => [](ListsDistinct /\ Tokens)
<1>1. Init => ListsDistinct /\ Tokens
  <2> SUFFICES ASSUME Init PROVE ListsDistinct /\ Tokens
    OBVIOUS
  <2> USE DEF Init, NetInit, CSInit, DroneInit, UserInit
  <2>1. ListsDistinct
    BY DEF ListsDistinct, Distinct, IdleThread
  <2>2. ASSUME NEW u \in Users, NEW d \in Drones PROVE Token(u, d)
    <3>1. /\ Mu2s(u, d) = {} /\ Mu3s(u, d) = {} /\ Taken(u, d) = {} /\ Idle(u)
          /\ ~Requested(u) /\ ~Answering(u, d) /\ ~Pending(u, d)
      BY DEF Mu2s, Mu3s, Taken, Idle, Requested, Answering, Pending, IdleThread, NoThread
    <3>2. Unique(u, d)
      BY <3>1 DEF Unique
    <3> QED
      BY <3>1, <3>2 DEF Token
  <2> QED
    BY <2>1, <2>2 DEF Tokens
<1>2. ListsDistinct /\ Tokens /\ TypeInv /\ IInv /\ [Next]_vars => (ListsDistinct /\ Tokens)'
  <2> SUFFICES ASSUME ListsDistinct, Tokens, TypeInv, IInv, [Next]_vars
               PROVE  ListsDistinct' /\ Tokens'
    OBVIOUS
  <2>1. CASE CSNext /\ UNCHANGED <<droneVars, userVars>>
    BY <2>1, CSKeepsDistinct, CSKeepsTokens
  <2>2. ASSUME UNCHANGED csVars PROVE ListsDistinct'
    BY <2>2 DEF csVars, ListsDistinct, Distinct
  <2>3. CASE DroneNext /\ UNCHANGED <<csVars, userVars>>
    BY <2>2, <2>3, DroneKeepsTokens
  <2>4. CASE UserNext /\ UNCHANGED <<csVars, droneVars>>
    BY <2>2, <2>4, UserKeepsTokens
  <2>5. CASE UNCHANGED vars
    <3>1. UNCHANGED <<net, cur, stage, batch, auth, serving>> /\ UNCHANGED csVars
      BY <2>5 DEF vars, netVars, csVars, droneVars, userVars
    <3>2. ASSUME NEW u \in Users, NEW d \in Drones PROVE Token(u, d)'
      <4>1. Token(u, d) /\ Shrinks(u, d)
        BY <3>1, FramesShrink, UserUnchanged, AuthUnchanged, ServingUnchanged DEF Tokens, Shrinks
      <4> QED
        BY <4>1, TokenShrinks
    <3> QED
      BY <2>2, <3>1, <3>2 DEF Tokens
  <2> QED
    BY <2>1, <2>3, <2>4, <2>5 DEF Next
<1> QED
  BY <1>1, <1>2, TypesInvariant, Invariant, PTL DEF Spec

\* A user's batch holds at most one response of each drone to its mu1, whatever
\* drones and the server do between the mu2 and the mu3.
THEOREM DronesRespondOnce == Spec => []OneResponsePerDrone
<1>1. Tokens /\ TypeInv => OneResponsePerDrone
  <2> SUFFICES ASSUME Tokens, TypeInv, NEW i \in DOMAIN batch, NEW j \in DOMAIN batch,
                      Own(batch[i]), Own(batch[j]), batch[i].rec.id = batch[j].rec.id
               PROVE  i = j
    BY DEF OneResponsePerDrone
  <2>1. batch[i] \in Responses
    BY ElementOfSeq DEF TypeInv, UserTypes
  <2> DEFINE u == batch[i].user  d == batch[i].rec.id
  <2>2. u \in Users /\ d \in Drones
    BY <2>1 DEF Responses, Records
  <2>3. i \in Taken(u, d) /\ j \in Taken(u, d)
    BY DEF Taken, Own
  <2> QED
    BY <2>2, <2>3 DEF Tokens, Token, Unique
<1> QED
  BY <1>1, TokensInvariant, TypesInvariant, PTL
-----------------------------------------------------------------------------
(* Counting *)

LEMMA NoRepetition ==
    ASSUME NEW n \in Nat, NEW T, IsFiniteSet(T), NEW f \in [1 .. n -> T],
           \A x, y \in 1 .. n : f[x] = f[y] => x = y
    PROVE  n <= Cardinality(T)
<1>1. IsFiniteSet(1 .. n) /\ Cardinality(1 .. n) = n
  BY FS_Interval
<1>2. Cardinality(T) \in Nat
  BY FS_CardinalityType
<1>3. ~(Cardinality(T) < Cardinality(1 .. n))
  BY <1>1, FS_PigeonHole
<1> QED
  BY <1>1, <1>2, <1>3

\* The database holds at most one record per drone.
LEMMA DistinctBounded ==
    ASSUME NEW t \in Seq(Records), Distinct(t)
    PROVE  Len(t) <= Cardinality(Drones)
<1> DEFINE f == [i \in 1 .. Len(t) |-> t[i].id]
<1>1. Len(t) \in Nat /\ DOMAIN t = 1 .. Len(t) /\ \A i \in 1 .. Len(t) : t[i] \in Records
  BY LenProperties, ElementOfSeq
<1>2. f \in [1 .. Len(t) -> Drones]
  BY <1>1 DEF Records
<1>3. \A x, y \in 1 .. Len(t) : f[x] = f[y] => x = y
  BY <1>1 DEF Distinct
<1> HIDE DEF f
<1> QED
  BY <1>1, <1>2, <1>3, NoRepetition, NetworkAssumption

-----------------------------------------------------------------------------
(* The Event of the user *)

CountFrame(f) == f.kind = "BATCH" => Len(f.drones) <= Cardinality(Drones)
CountThread(t) ==
    /\ t.pc = "built" => Len(t.info) = 0
    /\ t.pc = "sending" => Len(t.info) < t.pos /\ t.pos <= Len(t.snap) + 1

\* The server reports drones of its database, and the user counts to --drones
\* until it has the server's list.
EventInv ==
    /\ ready => Len(batch) >= numDrones
    /\ stage \notin {"waiting", "verified", "done"} => numDrones = NumDronesArg
    /\ \A f \in net : CountFrame(f)
    /\ \A u \in Users : CountThread(auth[u])

LEMMA CSKeepsEventInv ==
    ASSUME IInv, ListsDistinct, EventInv, CSNext, UNCHANGED <<droneVars, userVars>>
    PROVE  EventInv'
<1>1. UNCHANGED <<ready, batch, numDrones, stage>> /\ auth \in [Users -> AuthThreads]
      /\ drones \in Seq(Records)
  BY DEF userVars, IInv, AuthThreads
<1>2. Cardinality(Drones) \in Nat
  BY NetworkAssumption, FS_CardinalityType
<1>3. ASSUME NEW u \in Users
      PROVE  /\ Len(auth[u].info) \in Nat /\ auth[u].pos \in Nat
             /\ Len(auth[u].snap) \in Nat /\ Len(auth[u].snap) <= Cardinality(Drones)
             /\ CountThread(auth[u])
  <2>1. Len(drones) <= Cardinality(Drones) /\ Len(drones) \in Nat
    BY <1>1, DistinctBounded, LenProperties DEF ListsDistinct
  <2>2. /\ auth[u].info \in Seq(Records) /\ auth[u].snap \in Seq(Records)
        /\ auth[u].pos \in Nat /\ Len(auth[u].snap) <= Len(drones)
    BY DEF IInv, ThreadInv, ReadFrom
  <2> QED
    BY <1>2, <2>1, <2>2, LenProperties DEF EventInv
<1>4. ASSUME NEW f \in net' PROVE CountFrame(f)
  <2>1. CASE f \in net \/ f.kind # "BATCH"
    BY <2>1 DEF EventInv, CountFrame
  <2>2. ASSUME NEW u \in Users, ReplyToUser(u), f = BatchReply(UserProc(u), auth[u].info)
        PROVE  CountFrame(f)
    <3>1. f.drones = auth[u].info
      BY <2>2, FrameFields
    <3>2. auth[u].pc = "sending"
      BY <2>2 DEF ReplyToUser
    <3>3. Len(auth[u].info) <= Cardinality(Drones)
      BY <1>2, <1>3, <3>2 DEF CountThread
    <3> QED
      BY <3>1, <3>3 DEF CountFrame
  <2> QED
    BY <2>1, <2>2, CSSends, FrameFields
<1>5. ASSUME NEW u \in Users PROVE CountThread(auth'[u])
  <2>1. CASE auth'[u] = auth[u]
    BY <1>3, <2>1
  <2>2. CASE SnapshotDrones(u)
    <3>1. AuthStep(u)
      BY <2>2 DEF AuthStep
    <3>2. /\ auth[u].pc = "built" /\ auth'[u].pc = "sending" /\ auth'[u].snap = drones
          /\ auth'[u].pos = 1 /\ auth'[u].info = auth[u].info
      BY <2>2, <3>1, AuthEffect
    <3>3. Len(drones) \in Nat
      BY <1>1, LenProperties
    <3> QED
      BY <1>3, <3>2, <3>3 DEF CountThread
  <2>3. CASE SkipUnaddressed(u) \/ ForwardFails(u) \/ ForwardMu2(u)
    <3>1. AuthStep(u) /\ auth[u].pos <= Len(auth[u].snap)
      BY <2>3 DEF AuthStep, SkipUnaddressed, ForwardFails, ForwardMu2, Zipping
    <3>2. /\ auth[u].pc = "sending" /\ auth'[u].pc = "sending" /\ auth'[u].snap = auth[u].snap
          /\ auth'[u].pos = auth[u].pos + 1
      BY <2>3, <3>1, AuthEffect
    <3>3. Len(auth'[u].info) <= Len(auth[u].info) + 1 /\ Len(auth'[u].info) \in Nat
      <4>1. CASE SkipUnaddressed(u) \/ ForwardFails(u)
        BY <1>3, <3>1, <4>1, AuthEffect
      <4>2. CASE ForwardMu2(u)
        <5>1. auth'[u].info = Append(auth[u].info, auth[u].snap[auth[u].pos])
          BY <3>1, <4>2, AuthEffect
        <5>2. /\ auth[u].info \in Seq(Records) /\ auth[u].snap \in Seq(Records)
              /\ auth[u].pos \in Nat /\ auth[u].pos >= 1
          BY <3>2 DEF IInv, ThreadInv
        <5>3. auth[u].snap[auth[u].pos] \in Records
          BY <3>1, <5>2, ElementOfSeq
        <5>4. Len(auth'[u].info) = Len(auth[u].info) + 1
          BY <5>1, <5>2, <5>3, AppendProperties
        <5> QED
          BY <1>3, <5>4
      <4> QED
        BY <2>3, <4>1, <4>2
    <3> QED
      BY <1>3, <3>1, <3>2, <3>3 DEF CountThread
  <2>4. CASE auth'[u] = IdleThread
    BY <2>4 DEF IdleThread, CountThread
  <2>5. ASSUME NEW f \in net, BuildMu2Batch(f) PROVE CountThread(auth'[u])
    <3> DEFINE t == [IdleThread EXCEPT !.pc = "built", !.mu2 = drones]
    <3>1. auth' = [auth EXCEPT ![f.from[2]] = t]
      BY <2>5 DEF BuildMu2Batch
    <3>2. CountThread(t)
      BY DEF IdleThread, CountThread
    <3> HIDE DEF t
    <3> QED
      BY <1>1, <1>3, <3>1, <3>2
  <2>6. ASSUME NEW v \in Users, AuthStep(v) PROVE CountThread(auth'[u])
    <3>1. CASE u # v
      BY <2>1, <2>6, <3>1, AuthEffect
    <3>2. CASE u = v /\ ReplyToUser(v)
      BY <2>4, <2>6, <3>2, AuthEffect
    <3> QED
      BY <2>2, <2>3, <2>6, <3>1, <3>2 DEF AuthStep
  <2>7. CASE Restart
    BY <2>4, <2>7 DEF Restart
  <2>8. CASE EnrollStep \/ \E f \in net : RejectMu1(f)
    BY <2>1, <2>8 DEF EnrollStep, EnrollDrone, EnrollUser, RegisterAddress, AckDrone, RejectMu1,
       csVars
  <2> QED
    BY <2>5, <2>6, <2>7, <2>8 DEF CSNext, CSStep
<1> QED
  BY <1>1, <1>4, <1>5 DEF EventInv, CountFrame

LEMMA OthersKeepCounts ==
    ASSUME EventInv, UNCHANGED csVars, \A f \in net' : f \in net \/ f.kind # "BATCH",
           ready' => Len(batch') >= numDrones',
           stage' \notin {"waiting", "verified", "done"} => numDrones' = NumDronesArg
    PROVE  EventInv'
<1>1. \A f \in net' : CountFrame(f)
  BY DEF EventInv, CountFrame
<1> QED
  BY <1>1 DEF EventInv, csVars, CountFrame

LEMMA UserKeepsEventInv ==
    ASSUME NumDronesArg >= Cardinality(Drones),
           TypeInv, EventInv, UserNext, UNCHANGED <<csVars, droneVars>>
    PROVE  EventInv'
<1>1. UserTypes /\ Len(batch) \in Nat
  BY LenProperties DEF TypeInv, UserTypes
<1>2. \A f \in net' : f \in net \/ f.kind # "BATCH"
  BY UserSends, FrameFields
<1>3. ASSUME NEW f \in net, GetBatchReply(f) PROVE EventInv'
  <2>1. Len(f.drones) \in Nat /\ Len(f.drones) <= Cardinality(Drones)
    BY <1>3, FramesReceived, LenProperties
       DEF TypeInv, NetTypes, GetBatchReply, EventInv, CountFrame
  <2>2. numDrones = NumDronesArg /\ numDrones' <= numDrones /\ numDrones' \in Nat
    BY <1>1, <1>3, <2>1, NumDronesAssumption, NetworkAssumption, FS_CardinalityType
       DEF GetBatchReply, EventInv
  <2>3. ready' => Len(batch') >= numDrones'
    BY <1>1, <1>3, <2>2 DEF GetBatchReply, EventInv, UserTypes
  <2> QED
    BY <1>2, <1>3, <2>3, OthersKeepCounts DEF GetBatchReply
<1>4. ASSUME NEW f \in net, HandleMu3(f) PROVE EventInv'
  <2>1. [user |-> f.user, rec |-> f.rec] \in Responses
    BY <1>4, FramesReceived DEF TypeInv, NetTypes, HandleMu3, Responses
  <2>2. Len(batch') = Len(batch) + 1
    BY <1>1, <1>4, <2>1, AppendProperties DEF HandleMu3, UserTypes
  <2>3. ready' => Len(batch') >= numDrones'
    BY <1>1, <1>4, <2>2 DEF HandleMu3, EventInv, UserTypes
  <2> QED
    BY <1>2, <1>4, <2>3, OthersKeepCounts DEF HandleMu3, EventInv
<1>5. ASSUME NEW received \in counted, CompareCount(received) PROVE EventInv'
  <2>1. received \in Nat /\ received <= Len(batch)
    BY <1>1 DEF UserTypes
  <2>2. ready' => Len(batch') >= numDrones'
    BY <1>1, <1>5, <2>1 DEF CompareCount, EventInv, UserTypes
  <2> QED
    BY <1>2, <1>5, <2>2, OthersKeepCounts DEF CompareCount, EventInv
<1>6. CASE StartUser \/ UserFails \/ UserExits
  BY <1>2, <1>6, OthersKeepCounts DEF StartUser, UserFails, UserExits, UserGone, Fresh
<1>7. CASE UNCHANGED <<ready, batch, numDrones>>
           /\ (stage' \notin {"waiting", "verified", "done"} =>
                  stage \notin {"waiting", "verified", "done"})
  BY <1>2, <1>7, OthersKeepCounts DEF EventInv
<1> QED
  BY <1>3, <1>4, <1>5, <1>6, <1>7
     DEF UserNext, UserStep, RequestEnrollment, CompleteEnrollment, SendMu1, VerifyBatch,
         EstablishSessions, HandleData, userVars

\* When user_app.py is told of at least as many drones as there are, and one user
\* process runs, the Event is set only after as many drones have answered as the
\* server reported (or, before its report, as the user was told).
THEOREM WokenOnlyByAll ==
    ASSUME MaxUsers = 1, NumDronesArg >= Cardinality(Drones)
    PROVE  Spec => []WokenMeansAllAnswered
<1>1. Init => EventInv
  BY DEF Init, NetInit, CSInit, UserInit, EventInv, IdleThread, CountThread
<1>2. EventInv /\ ListsDistinct /\ TypeInv /\ IInv /\ [Next]_vars => EventInv'
  <2> SUFFICES ASSUME EventInv, ListsDistinct, TypeInv, IInv, [Next]_vars PROVE EventInv'
    OBVIOUS
  <2>1. CASE CSNext /\ UNCHANGED <<droneVars, userVars>>
    BY <2>1, CSKeepsEventInv
  <2>2. CASE DroneNext /\ UNCHANGED <<csVars, userVars>>
    <3>1. \A f \in net' : f \in net \/ f.kind # "BATCH"
      BY <2>2, DroneSends, FrameFields DEF DroneNext
    <3>2. UNCHANGED <<ready, batch, numDrones, stage>>
      BY <2>2 DEF userVars
    <3> QED
      BY <2>2, <3>1, <3>2, OthersKeepCounts DEF EventInv
  <2>3. CASE UserNext /\ UNCHANGED <<csVars, droneVars>>
    BY <2>3, UserKeepsEventInv
  <2>4. CASE UNCHANGED vars
    <3>1. UNCHANGED <<ready, batch, numDrones, stage, net>> /\ UNCHANGED csVars
      BY <2>4 DEF vars, netVars, csVars, userVars
    <3> QED
      BY <3>1, OthersKeepCounts DEF EventInv
  <2> QED
    BY <2>1, <2>2, <2>3, <2>4 DEF Next
<1>3. EventInv /\ Tokens /\ TypeInv => WokenMeansAllAnswered
  <2> SUFFICES ASSUME EventInv, Tokens, TypeInv, stage = "waiting", ready
               PROVE  Cardinality({m.rec.id : m \in {n \in Collected : Own(n)}}) >= numDrones
    BY DEF WokenMeansAllAnswered
  <2> DEFINE n == Len(batch)
             T == {m.rec.id : m \in {r \in Collected : Own(r)}}
             f == [i \in 1 .. n |-> batch[i].rec.id]
  <2>1. /\ n \in Nat /\ DOMAIN batch = 1 .. n /\ \A i \in 1 .. n : batch[i] \in Responses
        /\ n >= numDrones /\ numDrones \in Nat
    BY LenProperties, ElementOfSeq DEF TypeInv, UserTypes, EventInv
  <2>2. cur = 1 /\ Users = {1}
    BY MaxUsers = 1, Listening DEF Users
  <2>3. \A i \in 1 .. n : batch[i].user = 1 /\ Own(batch[i]) /\ batch[i].rec.id \in Drones
    BY <2>1, <2>2 DEF Responses, Records, Own
  <2>4. \A i \in 1 .. n : batch[i].rec.id \in T
    BY <2>1, <2>3 DEF Collected
  <2>5. T \subseteq Drones
    BY <2>1, <2>3 DEF Collected
  <2>6. IsFiniteSet(T) /\ Cardinality(T) \in Nat
    BY <2>5, NetworkAssumption, FS_Subset, FS_CardinalityType
  <2>7. f \in [1 .. n -> T]
    BY <2>4
  <2>8. ASSUME NEW x \in 1 .. n, NEW y \in 1 .. n, f[x] = f[y] PROVE x = y
    <3> DEFINE d == batch[x].rec.id
    <3>1. x \in Taken(1, d) /\ y \in Taken(1, d) /\ d \in Drones
      BY <2>1, <2>3, <2>8 DEF Taken
    <3> QED
      BY <2>2, <3>1 DEF Tokens, Token, Unique
  <2> HIDE DEF f, T
  <2>9. n <= Cardinality(T)
    BY <2>1, <2>6, <2>7, <2>8, NoRepetition
  <2>10. Cardinality(T) >= numDrones
    BY <2>1, <2>6, <2>9
  <2> QED
    BY <2>10 DEF T
<1> QED
  BY <1>1, <1>2, <1>3, TokensInvariant, TypesInvariant, Invariant, PTL DEF Spec
-----------------------------------------------------------------------------
(* The values a drone derives its key from *)

\* A drone serves a user once its mu1 is out.
ServedAfterMu1 ==
    \A d \in Drones, u \in Users : serving[d][u].pc # "none" => ~NotSent(u)

\* The stash and the thread of a mu2 of user u, while nobody else stashes.
StashOf(d, u) ==
    LET s == serving[d][u] IN
    /\ s.pc # "none" => point[d] = u
    /\ s.pc \notin {"none", "stashing"} => pid[d] = u
    /\ s.pc \in {"read_pid", "keyed"} => s.pid = u
    /\ s.pc = "keyed" => s.point = u

\* What holds from the mu1 of a settled user on.
Undisturbed(u) ==
    cur > u \/ (cur = u /\ Settled(u) /\ \A d \in Drones : StashOf(d, u))

\* Only the user that runs, or one before it, has sent its mu1.
LEMMA SentStaysSent ==
    ASSUME TypeInv, [Next]_vars, NEW u \in Users
    PROVE  /\ cur \in Nat /\ cur' \in Nat /\ u \in Nat /\ cur' >= cur
           /\ NotSent(u)' => NotSent(u)
<1>1. cur \in Nat /\ u \in Nat
  BY NetworkAssumption DEF TypeInv, UserTypes, Users
<1>2. CASE UNCHANGED <<cur, stage>>
  BY <1>1, <1>2 DEF NotSent
<1>3. CASE StartUser
  BY <1>1, <1>3 DEF StartUser, NotSent
<1>4. CASE RequestEnrollment \/ CompleteEnrollment \/ SendMu1 \/ VerifyBatch \/ EstablishSessions
  BY <1>1, <1>4 DEF RequestEnrollment, CompleteEnrollment, SendMu1, VerifyBatch,
     EstablishSessions, NotSent
<1>5. CASE UserGone
  BY <1>1, <1>5 DEF UserGone, NotSent
<1>6. ASSUME NEW f \in net, GetBatchReply(f) \/ HandleMu3(f) \/ HandleData(f)
      PROVE  cur' = cur /\ (NotSent(u)' => NotSent(u))
  BY <1>1, <1>6 DEF GetBatchReply, HandleMu3, HandleData, userVars, NotSent
<1>7. \A received \in counted : CompareCount(received) => UNCHANGED <<cur, stage>>
  BY DEF CompareCount
<1> QED
  BY <1>1, <1>2, <1>3, <1>4, <1>5, <1>6, <1>7
     DEF Next, UserNext, UserStep, UserFails, UserExits, vars, userVars

LEMMA ServedAfterMu1Step ==
    ASSUME TypeInv, Tokens, ServedAfterMu1, [Next]_vars
    PROVE  ServedAfterMu1'
<1> SUFFICES ASSUME NEW d \in Drones, NEW u \in Users, serving'[d][u].pc # "none"
             PROVE  ~NotSent(u)'
  BY DEF ServedAfterMu1
<1>1. CASE serving[d][u].pc # "none"
  BY <1>1, SentStaysSent DEF ServedAfterMu1
<1>2. CASE serving[d][u].pc = "none"
  <2>1. serving' # serving
    BY <1>2
  <2>2. DroneNext /\ UNCHANGED <<csVars, userVars>> /\ DroneTypes
    BY <2>1 DEF Next, vars, droneVars, TypeInv
  <2>3. PICK e \in Drones : DroneStep(e) \/ DroneGone(e)
    BY <2>1, <2>2 DEF DroneNext, StartDrone, CrashDrone
  <2>4. ~DroneGone(e)
    BY <1>2, <2>2 DEF DroneGone, DroneTypes, NoThread
  <2>5. ASSUME NEW v \in Users, ServeStep(e, v) PROVE FALSE
    <3>1. PICK t : SetThread(e, v, t)
      BY <2>2, <2>5, ServeEffect DEF ServeStep
    <3>2. serving[e][v].pc # "none"
      BY <2>5 DEF ServeStep, StashPid, SendMu3, SendRefused, ReadPid, ReadPoint, SendData
    <3>3. e # d \/ v # u
      BY <1>2, <3>2
    <3> QED
      BY <1>2, <3>1, <3>3 DEF SetThread
  <2>6. PICK f \in net : AcceptMu2(e, f)
    BY <2>1, <2>3, <2>4, <2>5 DEF DroneStep, StoreCredentials, BindListener, EnrollmentFails,
       RejectMu2, droneVars
  <2>7. /\ f.user \in Users /\ f.kind = "MU2" /\ f.rec.id = e
    BY <2>6, FramesReceived DEF TypeInv, NetTypes, AcceptMu2, Mu2For, Record
  <2>8. SetThread(e, f.user, Thread("stashing", 0, 0))
    BY <2>2, <2>6, <2>7, ServeEffect
  <2>9. f.user = u
    BY <1>2, <2>7, <2>8 DEF SetThread
  <2>10. f \in Mu2s(u, e)
    BY <2>7, <2>9 DEF Mu2s
  <2> QED
    BY <2>10, SentStaysSent DEF Tokens, Token
<1> QED
  BY <1>1, <1>2

\* While a settled user runs, no mu2 of another user can reach a drone's stash:
\* its predecessors' are over, and its successors' are not sent.
LEMMA NobodyElseStashes ==
    ASSUME TypeInv, Tokens, NEW u \in Users, cur = u, Settled(u)
    PROVE  /\ \A f \in net : f.kind = "MU2" => f.user = u
           /\ \A d \in Drones, v \in Users : serving[d][v].pc = "stashing" => v = u
<1>1. \A v \in Users : v \in Nat
  BY DEF Users
<1>2. \A v \in Users : v > u => NotSent(v)
  BY <1>1 DEF NotSent
<1>3. \A v \in Users, d \in Drones : v > u => Mu2s(v, d) = {} /\ ~Answering(v, d)
  BY <1>2 DEF Tokens, Token
<1>4. \A v \in Users : v < u \/ v = u \/ v > u
  BY <1>1
<1>5. ASSUME NEW f \in net, f.kind = "MU2" PROVE f.user = u
  <2>1. f.user \in Users /\ f.rec.id \in Drones
    BY <1>5, FramesReceived DEF TypeInv, NetTypes, Records
  <2>2. f \in Mu2s(f.user, f.rec.id)
    BY <1>5 DEF Mu2s
  <2>3. ~(f.user > u)
    BY <1>3, <2>1, <2>2
  <2>4. ~(f.user < u)
    BY <1>5, <2>1 DEF Settled
  <2> QED
    BY <1>4, <2>1, <2>3, <2>4
<1>6. ASSUME NEW d \in Drones, NEW v \in Users, serving[d][v].pc = "stashing" PROVE v = u
  <2>1. Answering(v, d)
    BY <1>6 DEF Answering
  <2> QED
    BY <1>3, <1>4, <1>6, <2>1 DEF Settled
<1> QED
  BY <1>5, <1>6

LEMMA UserKeepsUndisturbed ==
    ASSUME TypeInv, NEW u \in Users, Undisturbed(u), [Next]_vars, UNCHANGED <<csVars, droneVars>>,
           UserNext \/ UNCHANGED vars
    PROVE  Undisturbed(u)'
<1>1. /\ cur \in Nat /\ cur' \in Nat /\ u \in Nat /\ cur' >= cur
      /\ UNCHANGED <<auth, serving, point, pid>>
  BY SentStaysSent DEF csVars, droneVars
<1>2. CASE cur' > u
  BY <1>2 DEF Undisturbed
<1>3. CASE cur' = u
  <2>1. cur = u /\ Settled(u) /\ \A d \in Drones : StashOf(d, u)
    BY <1>1, <1>3 DEF Undisturbed
  <2>2. ASSUME NEW f \in net', f \notin net
        PROVE  f.kind = "ENROLL_USER" \/ (f.kind = "MU1" /\ f.from = UserProc(u))
    <3>1. UserNext
      BY <2>2 DEF vars, netVars
    <3> QED
      BY <2>1, <2>2, <3>1, UserSends, FrameFields DEF Me
  <2>3. \A v \in Users : v < u => v # u
    BY <1>1 DEF Users
  <2>4. \A v \in Users : v < u => UserProc(v) # UserProc(u)
    BY <2>3, FrameFields
  <2>5. Settled(u)'
    BY <1>1, <2>1, <2>2, <2>4 DEF Settled, Mu1, FramesTo
  <2>6. \A d \in Drones : StashOf(d, u)'
    BY <1>1, <2>1 DEF StashOf
  <2> QED
    BY <1>3, <2>5, <2>6 DEF Undisturbed
<1> QED
  BY <1>1, <1>2, <1>3 DEF Undisturbed

LEMMA CSKeepsUndisturbed ==
    ASSUME TypeInv, IInv, NEW u \in Users, Undisturbed(u), CSNext,
           UNCHANGED <<droneVars, userVars>>
    PROVE  Undisturbed(u)'
<1>1. UNCHANGED <<cur, serving, point, pid>> /\ auth \in [Users -> AuthThreads]
  BY DEF droneVars, userVars, IInv, AuthThreads
<1>2. SUFFICES ASSUME cur = u, Settled(u), \A d \in Drones : StashOf(d, u)
               PROVE  Settled(u)'
  BY <1>1 DEF Undisturbed, StashOf
<1>3. \A v \in Users : v < u => v # u
  BY DEF Users
<1>4. ASSUME NEW v \in Users, v < u PROVE auth'[v].pc = "idle"
  <2>1. auth[v].pc = "idle"
    BY <1>2, <1>4 DEF Settled
  <2>2. CASE UNCHANGED auth
    BY <2>1, <2>2
  <2>3. ASSUME NEW f \in net, BuildMu2Batch(f) PROVE auth'[v].pc = "idle"
    <3>1. Mu1(f) /\ f.from # UserProc(v)
      BY <1>2, <1>4, <2>3 DEF BuildMu2Batch, Settled
    <3>2. f.from \in {User} \X Users
      BY <3>1, FramesReceived DEF TypeInv, NetTypes, Mu1
    <3>3. f.from = UserProc(f.from[2])
      BY <3>2 DEF UserProc
    <3>4. f.from[2] # v
      BY <3>1, <3>3
    <3> QED
      BY <1>1, <2>1, <2>3, <3>4 DEF BuildMu2Batch
  <2>4. ASSUME NEW w \in Users, AuthStep(w) PROVE auth'[v].pc = "idle"
    <3>1. auth[w].pc # "idle"
      BY <2>4 DEF AuthStep, SnapshotDrones, SkipUnaddressed, ForwardMu2, ForwardFails,
         ReplyToUser, Zipping
    <3> QED
      BY <2>1, <2>4, <3>1, AuthEffect
  <2>5. CASE Restart
    BY <2>5 DEF Restart, IdleThread
  <2> QED
    BY <2>2, <2>3, <2>4, <2>5 DEF CSNext, CSStep, EnrollStep, EnrollDrone, EnrollUser,
       RegisterAddress, AckDrone, RejectMu1, csVars
<1>5. ASSUME NEW f \in net', f \notin net
      PROVE  f.kind # "MU1" /\ (f.kind = "MU2" => ~(f.user < u))
  <2>1. CASE f.kind \in {"DRONE_ACK", "USER_ACK", "ERROR", "BATCH"}
    BY <2>1
  <2>2. ASSUME NEW w \in Users, ForwardMu2(w),
               f = Mu2Frame(DroneProc(Target(w), listener[Target(w)]), w,
                            auth[w].mu2[auth[w].pos])
        PROVE  f.kind = "MU2" /\ f.user = w /\ ~(w < u)
    <3>1. auth[w].pc = "sending"
      BY <2>2 DEF ForwardMu2, Zipping
    <3> QED
      BY <1>2, <2>2, <3>1, FrameFields DEF Settled
  <2> QED
    BY <1>5, <2>1, <2>2, CSSends, FrameFields
<1>6. ASSUME NEW v \in Users, v < u, NEW f \in net'
      PROVE  (Mu1(f)' => f.from # UserProc(v)) /\ (f.kind = "MU2" => f.user # v)
  <2>1. CASE f \in net
    BY <1>2, <1>6, <2>1 DEF Settled, Mu1, FramesTo
  <2>2. CASE f \notin net
    BY <1>5, <1>6, <2>2 DEF Mu1
  <2> QED
    BY <2>1, <2>2
<1> QED
  BY <1>1, <1>2, <1>4, <1>6 DEF Settled

LEMMA DroneKeepsUndisturbed ==
    ASSUME TypeInv, Tokens, NEW u \in Users, Undisturbed(u), DroneNext,
           UNCHANGED <<csVars, userVars>>
    PROVE  Undisturbed(u)'
<1>1. UNCHANGED <<cur, auth>> /\ DroneTypes
  BY DEF csVars, userVars, TypeInv
<1> SUFFICES ASSUME cur = u, Settled(u), \A d \in Drones : StashOf(d, u)
             PROVE  Settled(u)' /\ \A d \in Drones : StashOf(d, u)'
  BY <1>1 DEF Undisturbed
<1>2. PICK e \in Drones : StartDrone(e) \/ DroneStep(e) \/ CrashDrone(e)
  BY DEF DroneNext
<1>3. \A f \in net' : f \in net \/ f.kind \notin {"MU1", "MU2"}
  BY <1>2, DroneSends, FrameFields
<1>4. ASSUME \A d \in Drones, v \in Users :
                serving'[d][v].pc = "stashing" => serving[d][v].pc = "stashing" \/ v = u
      PROVE  Settled(u)'
  <2>1. \A v \in Users : v < u => v # u
    BY DEF Users
  <2> QED
    BY <1>1, <1>3, <1>4, <2>1 DEF Settled, Mu1, FramesTo
<1>5. CASE UNCHANGED <<serving, point, pid>>
  BY <1>4, <1>5 DEF StashOf
<1>6. CASE DroneGone(e)
  <2>1. \A d \in Drones : /\ d # e => UNCHANGED <<serving[d], point[d], pid[d]>>
                          /\ d = e => \A v \in Users : serving'[d][v] = NoThread
    BY <1>1, <1>6 DEF DroneGone, DroneTypes
  <2>2. \A d \in Drones : StashOf(d, u)'
    BY <2>1 DEF StashOf, NoThread
  <2> QED
    BY <1>4, <2>1, <2>2 DEF NoThread
<1>7. ASSUME NEW v \in Users, NEW t, SetThread(e, v, t),
             t.pc = "stashing" => v = u,
             v = u => /\ t.pc # "none" => point'[e] = u
                      /\ t.pc \notin {"none", "stashing"} => pid'[e] = u
                      /\ t.pc \in {"read_pid", "keyed"} => t.pid = u
                      /\ t.pc = "keyed" => t.point = u,
             \A d \in Drones : point'[d] = point[d] \/ (d = e /\ point'[d] = u),
             \A d \in Drones : pid'[d] = pid[d] \/ (d = e /\ pid'[d] = u)
      PROVE  Settled(u)' /\ \A d \in Drones : StashOf(d, u)'
  <2>1. ASSUME NEW d \in Drones PROVE StashOf(d, u)'
    <3>1. CASE d = e /\ v = u
      BY <1>7, <3>1 DEF SetThread, StashOf
    <3>2. CASE d # e \/ v # u
      <4>1. serving'[d][u] = serving[d][u] /\ StashOf(d, u)
        BY <1>7, <3>2 DEF SetThread
      <4>2. (point[d] = u => point'[d] = u) /\ (pid[d] = u => pid'[d] = u)
        BY <1>7
      <4> QED
        BY <4>1, <4>2 DEF StashOf
    <3> QED
      BY <3>1, <3>2
  <2> QED
    BY <1>4, <1>7, <2>1 DEF SetThread
<1>8. \A pc, p, x : /\ Thread(pc, p, x).pc = pc /\ Thread(pc, p, x).pid = p
                    /\ Thread(pc, p, x).point = x
  BY DEF Thread
<1>9. ASSUME NEW f \in net, AcceptMu2(e, f)
      PROVE  Settled(u)' /\ \A d \in Drones : StashOf(d, u)'
  <2>1. f.user = u
    BY <1>9, NobodyElseStashes DEF AcceptMu2, Mu2For
  <2>2. SetThread(e, u, Thread("stashing", 0, 0))
    BY <1>1, <1>9, <2>1, ServeEffect
  <2>3. /\ point' = [point EXCEPT ![e] = u] /\ pid' = pid
        /\ point \in [Drones -> Users \cup {0}]
    BY <1>1, <1>9, <2>1 DEF AcceptMu2, DroneTypes
  <2> QED
    BY <1>7, <1>8, <2>2, <2>3
<1>10. ASSUME NEW v \in Users, ServeStep(e, v)
       PROVE  Settled(u)' /\ \A d \in Drones : StashOf(d, u)'
  <2> DEFINE s == serving[e][v]
  <2>1. StashOf(e, u) /\ s.pc # "none" /\ point' = point
    BY <1>10 DEF ServeStep, StashPid, SendMu3, SendRefused, ReadPid, ReadPoint, SendData
  <2>2. CASE StashPid(e, v)
    <3>1. SetThread(e, v, Thread("ready", s.pid, s.point)) /\ v = u
      BY <1>1, <2>2, ServeEffect, NobodyElseStashes DEF StashPid
    <3>2. pid' = [pid EXCEPT ![e] = u] /\ pid \in [Drones -> Users \cup {0}]
      BY <1>1, <2>2, <3>1 DEF StashPid, DroneTypes
    <3> QED
      BY <1>7, <1>8, <2>1, <3>1, <3>2 DEF StashOf
  <2>3. CASE SendMu3(e, v)
    <3>1. SetThread(e, v, Thread("sent", s.pid, s.point)) /\ s.pc = "ready" /\ pid' = pid
      BY <1>1, <2>3, ServeEffect DEF SendMu3
    <3> QED
      BY <1>7, <1>8, <2>1, <3>1 DEF StashOf
  <2>4. CASE SendRefused(e, v) \/ SendData(e, v)
    <3>1. SetThread(e, v, Thread("none", 0, 0)) /\ pid' = pid
      BY <1>1, <2>4, ServeEffect DEF SendRefused, SendData
    <3> QED
      BY <1>7, <1>8, <2>1, <3>1
  <2>5. CASE ReadPid(e, v)
    <3>1. SetThread(e, v, Thread("read_pid", pid[e], s.point)) /\ s.pc = "sent" /\ pid' = pid
      BY <1>1, <2>5, ServeEffect DEF ReadPid
    <3> QED
      BY <1>7, <1>8, <2>1, <3>1 DEF StashOf
  <2>6. CASE ReadPoint(e, v)
    <3>1. /\ SetThread(e, v, Thread("keyed", s.pid, point[e])) /\ s.pc = "read_pid"
          /\ pid' = pid
      BY <1>1, <2>6, ServeEffect DEF ReadPoint
    <3> QED
      BY <1>7, <1>8, <2>1, <3>1 DEF StashOf
  <2> QED
    BY <1>10, <2>2, <2>3, <2>4, <2>5, <2>6 DEF ServeStep
<1> QED
  BY <1>2, <1>5, <1>6, <1>9, <1>10
     DEF DroneStep, StartDrone, StoreCredentials, BindListener, EnrollmentFails, CrashDrone,
         RejectMu2, droneVars

\* Once all that its predecessors started is over, a user's data is encrypted
\* under its own keys: whatever crashes, enrols again or still sleeps in a drone,
\* the shared stash holds this user's values from each mu2 to its key.
THEOREM SettledUsersGetTheirKeys == Spec => SettledKeysAreOwn
<1> SUFFICES ASSUME NEW u \in Users
             PROVE  Spec => []((cur = u /\ stage = "enrolled" /\ Settled(u))
                                 => [](cur = u => KeysAreOwn(u)))
  BY DEF SettledKeysAreOwn
<1>1. Init => ServedAfterMu1
  BY DEF Init, DroneInit, NoThread, ServedAfterMu1
<1>2. TypeInv /\ Tokens /\ ServedAfterMu1 /\ [Next]_vars => ServedAfterMu1'
  BY ServedAfterMu1Step
<1>3. ServedAfterMu1 /\ cur = u /\ stage = "enrolled" /\ Settled(u) => Undisturbed(u)
  BY DEF ServedAfterMu1, NotSent, Undisturbed, StashOf
<1>4. TypeInv /\ IInv /\ Tokens /\ Undisturbed(u) /\ [Next]_vars => Undisturbed(u)'
  <2> SUFFICES ASSUME TypeInv, IInv, Tokens, Undisturbed(u), [Next]_vars PROVE Undisturbed(u)'
    OBVIOUS
  <2>1. CASE CSNext /\ UNCHANGED <<droneVars, userVars>>
    BY <2>1, CSKeepsUndisturbed
  <2>2. CASE DroneNext /\ UNCHANGED <<csVars, userVars>>
    BY <2>2, DroneKeepsUndisturbed
  <2>3. CASE UserNext /\ UNCHANGED <<csVars, droneVars>>
    BY <2>3, UserKeepsUndisturbed
  <2>4. CASE UNCHANGED vars
    BY <2>4, UserKeepsUndisturbed DEF vars
  <2> QED
    BY <2>1, <2>2, <2>3, <2>4 DEF Next
<1>5. Undisturbed(u) /\ TypeInv /\ cur = u => KeysAreOwn(u)
  <2> SUFFICES ASSUME Undisturbed(u), TypeInv, cur = u, NEW d \in Drones,
                      serving[d][u].pc = "keyed"
               PROVE  serving[d][u].pid = u /\ serving[d][u].point = u
    BY DEF KeysAreOwn
  <2>1. ~(cur > u)
    BY DEF Users
  <2> QED
    BY <2>1 DEF Undisturbed, StashOf
<1> QED
  BY <1>1, <1>2, <1>3, <1>4, <1>5, TokensInvariant, TypesInvariant, Invariant, PTL DEF Spec
=============================================================================
