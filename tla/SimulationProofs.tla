-------------------------- MODULE SimulationProofs ---------------------------
(***************************************************************************)
(* For any number of drones that the ports leave room for: everybody finds *)
(* the listener it means, and once the first two messages are logged the   *)
(* global logger is never replaced again.                                  *)
(***************************************************************************)
EXTENDS Simulation, TLAPS

\* Where the main thread can be with whom.
AtMatches ==
    /\ pc = "servers" => at = 1
    /\ pc = "listener" => at \in Drones
    /\ pc \in {"user", "mu1", "batch", "finish", "save", "print", "done"} => at = User

\* Whoever listens on a port has bound its own.
BoundRight == \A p \in Ports : bound[p] # Nobody => Port(bound[p]) = p

\* Without a logger nothing is logged, and main waits for its first message: that
\* and the answer to it are the only two under way.
Early ==
    current = 0 =>
        /\ loggers = <<>>
        /\ at = 1 /\ pc \in {"servers", "enroll", "reply"}
        /\ \A m \in Messages : ~Logged(m)
        /\ \A m \in Messages \ First : step[m] = "unsent"

\* Only those two may be making a logger.
Creators == \A m \in Messages : step[m] = "creating" => m \in First

\* Who has taken a logger holds one.
Holders == \A m \in Messages : step[m] = "taken" => held[m] \in 1 .. Len(loggers)

\* Main has its logger before it saves.
HasLogger == pc \in {"save", "print"} => clog # 0
LoggerMade == pc \in {"finish", "save", "print", "done"} => current # 0

IInv ==
    /\ TypeOK /\ AtMatches /\ BoundRight /\ PortsReachTheirOwners
    /\ Early /\ Creators /\ Holders /\ HasLogger /\ LoggerMade

-----------------------------------------------------------------------------
\* The assumptions, as arithmetic uses them.
LEMMA Numbers ==
    /\ NumDrones \in Nat /\ NumDrones >= 1 /\ User \in Nat /\ User = NumDrones + 1
    /\ EnrollPort \in Nat /\ BaseDronePort \in Nat /\ UserPort \in Nat
    /\ EnrollPort + 1 < BaseDronePort /\ BaseDronePort + NumDrones <= UserPort
    /\ \A d \in Drones : d \in Nat /\ d >= 1 /\ d <= NumDrones
    /\ 1 \in Drones /\ User \notin Drones
  BY NumDronesAssumption, PortAssumption
  DEF NumDronesAssumption, PortAssumption, User, Drones

LEMMA ListenerCases ==
    ASSUME NEW l \in Listeners
    PROVE  \/ l = <<"enroll", 0>> \/ l = <<"auth", 0>> \/ l = <<"mu3", 0>> \/ l = <<"data", 0>>
           \/ \E d \in Drones : l = <<"drone", d>>
  BY DEF Listeners

\* The port of each kind of listener.
LEMMA PortOf ==
    /\ Port(<<"enroll", 0>>) = EnrollPort /\ Port(<<"auth", 0>>) = EnrollPort + 1
    /\ Port(<<"mu3", 0>>) = UserPort /\ Port(<<"data", 0>>) = UserPort + 1
    /\ \A d \in Drones : Port(<<"drone", d>>) = BaseDronePort + d - 1
  BY DEF Port, DronePort

LEMMA PortInPorts ==
    ASSUME NEW l \in Listeners
    PROVE  Port(l) \in Ports
  <1>1. CASE l = <<"enroll", 0>>
    BY <1>1, PortOf DEF Ports
  <1>2. CASE l = <<"auth", 0>>
    BY <1>2, PortOf DEF Ports
  <1>3. CASE l = <<"mu3", 0>>
    BY <1>3, PortOf DEF Ports
  <1>4. CASE l = <<"data", 0>>
    BY <1>4, PortOf DEF Ports
  <1>5. ASSUME NEW d \in Drones, l = <<"drone", d>> PROVE Port(l) \in Ports
    <2>1. Port(l) = BaseDronePort + d - 1
      BY <1>5, PortOf
    <2>2. BaseDronePort + d - 1 \in BaseDronePort .. BaseDronePort + NumDrones
      BY Numbers
    <2> QED
      BY <2>1, <2>2 DEF Ports
  <1> QED
    BY <1>1, <1>2, <1>3, <1>4, <1>5, ListenerCases

\* No two listeners want the same port.
LEMMA PortInjective ==
    ASSUME NEW l \in Listeners, NEW k \in Listeners, Port(l) = Port(k)
    PROVE  l = k
  <1>1. ASSUME NEW d \in Drones PROVE /\ EnrollPort + 1 < Port(<<"drone", d>>)
                                      /\ Port(<<"drone", d>>) < UserPort
                                      /\ Port(<<"drone", d>>) \in Nat
    BY PortOf, Numbers
  <1>2. ASSUME NEW d \in Drones, NEW e \in Drones, Port(<<"drone", d>>) = Port(<<"drone", e>>)
        PROVE  d = e
    BY <1>2, PortOf, Numbers
  <1>3. /\ Port(<<"enroll", 0>>) < Port(<<"auth", 0>>)
        /\ Port(<<"auth", 0>>) < Port(<<"mu3", 0>>) /\ Port(<<"mu3", 0>>) < Port(<<"data", 0>>)
    BY PortOf, Numbers
  <1>4. ASSUME NEW d \in Drones, l = <<"drone", d>> PROVE l = k
    <2>1. ASSUME NEW e \in Drones, k = <<"drone", e>> PROVE l = k
      BY <1>2, <1>4, <2>1
    <2> QED
      BY <1>1, <1>4, <2>1, ListenerCases, PortOf, Numbers
  <1>5. ASSUME NEW d \in Drones, k = <<"drone", d>> PROVE l = k
    <2>1. ASSUME NEW e \in Drones, l = <<"drone", e>> PROVE l = k
      BY <1>4, <2>1
    <2> QED
      BY <1>1, <1>5, <2>1, ListenerCases, PortOf, Numbers
  <1> QED
    BY <1>3, <1>4, <1>5, ListenerCases, PortOf, Numbers

\* The messages main itself and the server begin with.
LEMMA FirstMessages ==
    /\ First \subseteq Messages /\ <<"MU1", 0>> \in Messages /\ <<"BATCH", 0>> \in Messages
    /\ \A i \in Drones \cup {User} : <<"ENROLL_REQ", i>> \in Messages /\ <<"ENROLL_ACK", i>> \in Messages
    /\ \A d \in Drones : /\ <<"MU2", d>> \in Messages /\ <<"MU3", d>> \in Messages
                         /\ <<"SECURE_DATA", d>> \in Messages
  BY Numbers DEF First, Messages

LEMMA InitInv == Init => IInv
  <1> SUFFICES ASSUME Init PROVE IInv
    OBVIOUS
  <1> USE DEF Init, LogInit
  <1>1. TypeOK
    <2>1. started \subseteq Listeners
      BY DEF Listeners
    <2>2. loggers \in Seq(SUBSET Messages) /\ Len(loggers) = 0
      OBVIOUS
    <2>3. step \in [Messages -> Steps]
      BY DEF Steps
    <2> QED
      BY <2>1, <2>2, <2>3, Numbers DEF TypeOK
  <1>2. AtMatches /\ BoundRight /\ HasLogger /\ LoggerMade
    BY DEF AtMatches, BoundRight, HasLogger, LoggerMade
  <1>3. PortsReachTheirOwners
    BY Numbers DEF PortsReachTheirOwners
  <1>4. Early /\ Creators /\ Holders
    BY DEF Early, Creators, Holders, Logged
  <1> QED
    BY <1>1, <1>2, <1>3, <1>4 DEF IInv

\* What the invariant says of the log alone.
LogTypes ==
    /\ loggers \in Seq(SUBSET Messages) /\ current \in 0 .. Len(loggers)
    /\ step \in [Messages -> Steps] /\ held \in [Messages -> 0 .. Len(loggers)]
LogInv == LogTypes /\ Creators /\ Holders

\* ... and of the programs.
MainTypes ==
    /\ pc \in {"servers", "enroll", "reply", "listener", "user", "mu1", "batch",
               "finish", "save", "print", "done"}
    /\ at \in Drones \cup {User} /\ enrolled \subseteq Drones
    /\ started \subseteq Listeners /\ bound \in [Ports -> Listeners \cup {Nobody}]
    /\ responses \subseteq Drones
EndTypes == clog \in 0 .. Len(loggers) /\ saved \subseteq Messages /\ printed \subseteq Messages
MainInv == MainTypes /\ AtMatches /\ BoundRight /\ PortsReachTheirOwners
EndInv == EndTypes /\ HasLogger /\ LoggerMade

LEMMA Parts == IInv <=> LogInv /\ MainInv /\ EndInv /\ Early
  BY DEF IInv, LogInv, MainInv, EndInv, TypeOK, LogTypes, MainTypes, EndTypes

-----------------------------------------------------------------------------
(* The log *)

LEMMA SendKeepsLog ==
    ASSUME IInv, NEW m \in Messages, Send(m) \/ Refuse(m)
    PROVE  /\ LogInv' /\ loggers' = loggers /\ current' = current /\ clog' = clog
           /\ \A k \in Messages : Logged(k)' <=> Logged(k)
           /\ \A k \in Messages : k # m => step'[k] = step[k]
  <1>1. step \in [Messages -> Steps] /\ step[m] = "unsent"
    BY DEF IInv, TypeOK, Send, Refuse
  <1>2. PICK v \in {"sent", "refused"} : step' = [step EXCEPT ![m] = v]
    BY DEF Send, Refuse
  <1>3. UNCHANGED <<loggers, current, held, clog>>
    BY DEF Send, Refuse
  <1>4. /\ \A k \in Messages : k # m => step'[k] = step[k]
        /\ step'[m] = v /\ step' \in [Messages -> Steps]
    BY <1>1, <1>2 DEF Steps
  <1>5. /\ \A k \in Messages : Logged(k)' <=> Logged(k)
        /\ \A k \in Messages : step'[k] = "creating" <=> step[k] = "creating"
        /\ \A k \in Messages : step'[k] = "taken" <=> step[k] = "taken"
    BY <1>1, <1>4 DEF Logged
  <1>6. LogTypes'
    BY <1>3, <1>4 DEF LogTypes, IInv, TypeOK
  <1>7. Creators' /\ Holders'
    BY <1>3, <1>5 DEF Creators, Holders, IInv
  <1> QED
    BY <1>3, <1>4, <1>5, <1>6, <1>7 DEF LogInv

LEMMA LogUnchanged ==
    ASSUME IInv, UNCHANGED <<loggers, current, step, held>>
    PROVE  LogInv' /\ \A k \in Messages : Logged(k)' <=> Logged(k)
  BY DEF IInv, TypeOK, LogInv, LogTypes, Creators, Holders, Logged

\* Nothing is logged before there is a logger.
LEMMA LoggedNeedsLogger ==
    ASSUME IInv, NEW m \in Messages, Logged(m)
    PROVE  current # 0 /\ Len(loggers) >= 1 /\ Len(loggers) \in Nat
  <1>1. current # 0
    BY DEF IInv, Early
  <1>2. loggers \in Seq(SUBSET Messages) /\ current \in 0 .. Len(loggers)
    BY DEF IInv, TypeOK
  <1> QED
    BY <1>1, <1>2

LEMMA FindsNoneKeepsLog ==
    ASSUME IInv, NEW m \in Messages, FindsNone(m), UNCHANGED mainVars
    PROVE  /\ LogInv' /\ Early'
           /\ UNCHANGED <<loggers, current, clog>>
  <1>1. /\ step \in [Messages -> Steps] /\ step[m] = "sent" /\ current = 0
        /\ step' = [step EXCEPT ![m] = "creating"] /\ UNCHANGED <<loggers, current, held, clog>>
    BY DEF IInv, TypeOK, FindsNone
  <1>2. /\ \A k \in Messages : k # m => step'[k] = step[k]
        /\ step'[m] = "creating" /\ step' \in [Messages -> Steps]
    BY <1>1 DEF Steps
  <1>3. m \in First
    BY <1>1 DEF IInv, Early
  <1>4. \A k \in Messages : Logged(k)' <=> Logged(k)
    BY <1>1, <1>2 DEF Logged
  <1>5. Creators' /\ Holders'
    BY <1>1, <1>2, <1>3 DEF Creators, Holders, IInv
  <1>6. LogTypes'
    BY <1>1, <1>2 DEF LogTypes, IInv, TypeOK
  <1>7. Early'
    BY <1>1, <1>2, <1>3, <1>4 DEF Early, IInv, mainVars
  <1> QED
    BY <1>1, <1>5, <1>6, <1>7 DEF LogInv

LEMMA CreateKeepsLog ==
    ASSUME IInv, NEW m \in Messages, Create(m)
    PROVE  /\ LogInv' /\ Early' /\ Len(loggers') >= Len(loggers) /\ current' # 0
           /\ clog' = clog
  <1>1. /\ step \in [Messages -> Steps] /\ step[m] = "creating"
        /\ step' = [step EXCEPT ![m] = "sent"]
        /\ loggers \in Seq(SUBSET Messages) /\ loggers' = Append(loggers, {})
        /\ current' = Len(loggers') /\ held' = held /\ clog' = clog
        /\ held \in [Messages -> 0 .. Len(loggers)]
    BY DEF IInv, TypeOK, Create
  <1>2. /\ \A k \in Messages : k # m => step'[k] = step[k]
        /\ step'[m] = "sent" /\ step' \in [Messages -> Steps]
    BY <1>1 DEF Steps
  <1>3. /\ Len(loggers') = Len(loggers) + 1 /\ Len(loggers) \in Nat
        /\ loggers' \in Seq(SUBSET Messages)
    BY <1>1
  <1>4. Creators'
    BY <1>2 DEF IInv, Creators
  <1>5. \A i \in 0 .. Len(loggers) : i \in 0 .. Len(loggers')
    BY <1>3
  <1>6. Holders'
    BY <1>1, <1>2, <1>3 DEF IInv, Holders
  <1>7. held' \in [Messages -> 0 .. Len(loggers')]
    BY <1>1, <1>5
  <1>8. LogTypes'
    BY <1>1, <1>2, <1>3, <1>7 DEF LogTypes
  <1>9. Early' /\ current' # 0
    BY <1>1, <1>3 DEF Early
  <1> QED
    BY <1>1, <1>3, <1>4, <1>6, <1>8, <1>9 DEF LogInv

\* Appending a record to a logger leaves their number.
LEMMA RecordKeepsTypes ==
    ASSUME NEW ls \in Seq(SUBSET Messages), NEW i \in 1 .. Len(ls), NEW m \in Messages
    PROVE  LET new == [ls EXCEPT ![i] = @ \cup {m}]
           IN  new \in Seq(SUBSET Messages) /\ Len(new) = Len(ls)
  OBVIOUS

LEMMA LogInstantKeepsLog ==
    ASSUME IInv, NEW m \in Messages, LogInstant(m)
    PROVE  LogInv' /\ Early' /\ Len(loggers') = Len(loggers) /\ current' # 0 /\ clog' = clog
  <1>1. /\ step \in [Messages -> Steps] /\ step[m] = "sent" /\ current # 0
        /\ step' = [step EXCEPT ![m] = "logged"] /\ UNCHANGED <<current, held, clog>>
        /\ loggers \in Seq(SUBSET Messages) /\ current \in 1 .. Len(loggers)
        /\ loggers' = [loggers EXCEPT ![current] = @ \cup {m}]
        /\ held \in [Messages -> 0 .. Len(loggers)]
    BY DEF IInv, TypeOK, LogInstant
  <1>2. /\ \A k \in Messages : k # m => step'[k] = step[k]
        /\ step'[m] = "logged" /\ step' \in [Messages -> Steps]
    BY <1>1 DEF Steps
  <1>3. Len(loggers') = Len(loggers) /\ loggers' \in Seq(SUBSET Messages)
    BY <1>1, RecordKeepsTypes
  <1>4. Creators' /\ Holders'
    BY <1>1, <1>2, <1>3 DEF IInv, Creators, Holders
  <1>5. LogTypes' /\ Early'
    BY <1>1, <1>2, <1>3 DEF LogTypes, Early
  <1> QED
    BY <1>1, <1>3, <1>4, <1>5 DEF LogInv

LEMMA TakeLoggerKeepsLog ==
    ASSUME IInv, NEW m \in Messages, TakeLogger(m)
    PROVE  LogInv' /\ Early' /\ loggers' = loggers /\ current' # 0 /\ clog' = clog
  <1>1. /\ step \in [Messages -> Steps] /\ step[m] = "sent" /\ current # 0
        /\ step' = [step EXCEPT ![m] = "taken"] /\ UNCHANGED <<loggers, current, clog>>
        /\ current \in 1 .. Len(loggers) /\ loggers \in Seq(SUBSET Messages)
        /\ held \in [Messages -> 0 .. Len(loggers)] /\ held' = [held EXCEPT ![m] = current]
    BY DEF IInv, TypeOK, TakeLogger
  <1>2. /\ \A k \in Messages : k # m => step'[k] = step[k] /\ held'[k] = held[k]
        /\ step'[m] = "taken" /\ step' \in [Messages -> Steps]
        /\ held'[m] = current /\ held' \in [Messages -> 0 .. Len(loggers)]
    BY <1>1 DEF Steps
  <1>3. Creators' /\ Holders'
    BY <1>1, <1>2 DEF IInv, Creators, Holders
  <1>4. LogTypes' /\ Early'
    BY <1>1, <1>2 DEF IInv, TypeOK, LogTypes, Early
  <1> QED
    BY <1>1, <1>3, <1>4 DEF LogInv

LEMMA LogToHeldKeepsLog ==
    ASSUME IInv, NEW m \in Messages, LogToHeld(m)
    PROVE  LogInv' /\ Early' /\ Len(loggers') = Len(loggers) /\ current' # 0 /\ clog' = clog
  <1>1. /\ step \in [Messages -> Steps] /\ step[m] = "taken" /\ held[m] \in 1 .. Len(loggers)
        /\ step' = [step EXCEPT ![m] = "logged"] /\ UNCHANGED <<current, clog>>
        /\ loggers \in Seq(SUBSET Messages) /\ current \in 0 .. Len(loggers)
        /\ loggers' = [loggers EXCEPT ![held[m]] = @ \cup {m}]
        /\ held \in [Messages -> 0 .. Len(loggers)] /\ held' = [held EXCEPT ![m] = 0]
    BY DEF IInv, TypeOK, Holders, LogToHeld
  <1>2. current # 0
    <2>1. Len(loggers) # 0
      BY <1>1
    <2> QED
      BY <2>1 DEF IInv, Early
  <1>3. Len(loggers') = Len(loggers) /\ loggers' \in Seq(SUBSET Messages)
    BY <1>1, RecordKeepsTypes
  <1>4. /\ \A k \in Messages : k # m => step'[k] = step[k] /\ held'[k] = held[k]
        /\ step'[m] = "logged" /\ step' \in [Messages -> Steps]
        /\ held' \in [Messages -> 0 .. Len(loggers)]
    BY <1>1 DEF Steps
  <1>5. Creators' /\ Holders'
    BY <1>1, <1>3, <1>4 DEF IInv, Creators, Holders
  <1>6. LogTypes' /\ Early'
    BY <1>1, <1>2, <1>3, <1>4 DEF LogTypes, Early
  <1> QED
    BY <1>1, <1>2, <1>3, <1>5, <1>6 DEF LogInv

\* Whatever the log does, main and what it has taken from it stay right.
LEMMA LogStepInv ==
    ASSUME IInv, NEW m \in Messages, LogStep(m), UNCHANGED mainVars
    PROVE  IInv'
  <1>1. /\ LogInv' /\ Early' /\ Len(loggers') >= Len(loggers) /\ (current # 0 => current' # 0)
        /\ clog' = clog
    <2>0. Len(loggers) \in Nat
      BY DEF IInv, TypeOK
    <2>1. CASE FindsNone(m)
      BY <2>0, <2>1, FindsNoneKeepsLog
    <2>2. CASE Create(m)
      BY <2>2, CreateKeepsLog
    <2>3. CASE TakeLogger(m)
      BY <2>0, <2>3, TakeLoggerKeepsLog
    <2>4. CASE LogToHeld(m)
      BY <2>0, <2>4, LogToHeldKeepsLog
    <2>5. CASE LogInstant(m)
      BY <2>0, <2>5, LogInstantKeepsLog
    <2> QED
      BY <2>1, <2>2, <2>3, <2>4, <2>5 DEF LogStep
  <1>2. MainInv'
    BY Parts DEF mainVars, MainInv, MainTypes, AtMatches, BoundRight, PortsReachTheirOwners, Port, DronePort
  <1>3. Len(loggers) \in Nat /\ Len(loggers') \in Nat
    BY <1>1 DEF IInv, TypeOK, LogInv, LogTypes
  <1>4. EndInv'
    BY <1>1, <1>3, Parts DEF mainVars, EndInv, EndTypes, HasLogger, LoggerMade
  <1> QED
    BY <1>1, <1>2, <1>4 DEF IInv, LogInv, LogTypes, MainInv, MainTypes, EndInv, EndTypes, TypeOK

-----------------------------------------------------------------------------
(* Ports *)

\* Who accepts connections on the port of a listener is that listener.
LEMMA OpenIsItself ==
    ASSUME IInv, NEW l \in Listeners, Open(l)
    PROVE  bound[Port(l)] = l
  <1>1. Port(l) \in Ports /\ bound[Port(l)] # Nobody /\ bound[Port(l)] \in Listeners
    BY PortInPorts DEF Open, IInv, TypeOK
  <1>2. Port(bound[Port(l)]) = Port(l)
    BY <1>1 DEF IInv, BoundRight
  <1> QED
    BY <1>1, <1>2, PortInjective

LEMMA TheListeners ==
    /\ \A d \in Drones : <<"drone", d>> \in Listeners /\ Port(<<"drone", d>>) = DronePort(d)
    /\ <<"mu3", 0>> \in Listeners /\ Port(<<"mu3", 0>>) = UserPort
    /\ <<"data", 0>> \in Listeners /\ UserPort \in Ports
    /\ \A d \in Drones : DronePort(d) \in Ports
  <1>1. /\ \A d \in Drones : <<"drone", d>> \in Listeners
        /\ <<"mu3", 0>> \in Listeners /\ <<"data", 0>> \in Listeners
    BY DEF Listeners
  <1>2. \A d \in Drones : Port(<<"drone", d>>) = DronePort(d)
    BY PortOf DEF DronePort
  <1>3. UserPort \in Ports
    BY DEF Ports
  <1> QED
    BY <1>1, <1>2, <1>3, PortOf, PortInPorts

LEMMA BindInv ==
    ASSUME IInv, NEW l \in started, Bind(l)
    PROVE  IInv'
  <1>1. LogInv' /\ \A k \in Messages : Logged(k)' <=> Logged(k)
    BY LogUnchanged DEF Bind, logVars
  <1>2. l \in Listeners /\ Port(l) \in Ports /\ bound \in [Ports -> Listeners \cup {Nobody}]
    BY PortInPorts DEF IInv, TypeOK
  <1>3. /\ bound' \in [Ports -> Listeners \cup {Nobody}]
        /\ \A p \in Ports : bound'[p] = bound[p] \/ (p = Port(l) /\ bound[p] = Nobody /\ bound'[p] = l)
    BY <1>2 DEF Bind
  <1>4. MainTypes'
    BY <1>3 DEF MainTypes, IInv, TypeOK, Bind
  <1>5. BoundRight'
    <2> SUFFICES ASSUME NEW p \in Ports, bound'[p] # Nobody PROVE Port(bound'[p]) = p
      BY DEF BoundRight, Port, DronePort
    <2> QED
      BY <1>3 DEF IInv, BoundRight
  <1>6. PortsReachTheirOwners'
    <2>1. ASSUME NEW d \in Drones, at > d PROVE bound'[DronePort(d)] = <<"drone", d>>
      <3>1. bound[DronePort(d)] = <<"drone", d>> /\ <<"drone", d>> # Nobody
        BY <2>1 DEF IInv, PortsReachTheirOwners, Nobody
      <3> QED
        BY <1>3, <3>1, TheListeners
    <2>2. ASSUME at = User, pc # "user" PROVE bound'[UserPort] = <<"mu3", 0>>
      <3>1. bound[UserPort] = <<"mu3", 0>> /\ <<"mu3", 0>> # Nobody
        BY <2>2 DEF IInv, PortsReachTheirOwners, Nobody
      <3> QED
        BY <1>3, <3>1, TheListeners
    <2> QED
      BY <2>1, <2>2 DEF Bind, PortsReachTheirOwners, DronePort
  <1>7. AtMatches' /\ Early' /\ EndInv'
    BY <1>1, Parts DEF Bind, logVars, AtMatches, Early, EndInv, EndTypes, HasLogger, LoggerMade, IInv
  <1> QED
    BY <1>1, <1>4, <1>5, <1>6, <1>7
    DEF IInv, LogInv, LogTypes, MainTypes, EndInv, EndTypes, TypeOK

-----------------------------------------------------------------------------
(* The main thread *)

\* A step that leaves the log and what main has taken from it alone.
LEMMA FinalPartsUnchanged ==
    ASSUME IInv, loggers' = loggers, current' = current,
           UNCHANGED <<clog, saved, printed>>,
           pc' \notin {"finish", "save", "print", "done"} \/ pc' = pc
    PROVE  EndInv'
  BY Parts DEF EndInv, EndTypes, HasLogger, LoggerMade

LEMMA FromParts == LogInv' /\ MainInv' /\ EndInv' /\ Early' => IInv'
  BY DEF IInv, LogInv, MainInv, EndInv, TypeOK, LogTypes, MainTypes, EndTypes

LEMMA ServersReadyInv ==
    ASSUME IInv, ServersReady
    PROVE  IInv'
  <1>1. LogInv' /\ EndInv'
    BY LogUnchanged, FinalPartsUnchanged DEF ServersReady, logVars
  <1>2. MainInv'
    BY Numbers, Parts DEF ServersReady, MainInv, MainTypes, AtMatches, BoundRight, PortsReachTheirOwners,
                 Port, DronePort
  <1>3. Early'
    BY DEF ServersReady, logVars, IInv, Early, Logged, AtMatches
  <1> QED
    BY <1>1, <1>2, <1>3, FromParts

\* The messages of main and of the server come after the first two.
LEMMA SendKeepsEarly ==
    ASSUME IInv, NEW m \in Messages, Send(m) \/ Refuse(m),
           current = 0 => m \in First /\ at' = 1 /\ pc' \in {"servers", "enroll", "reply"}
    PROVE  Early'
  <1> SUFFICES ASSUME current = 0
               PROVE  /\ loggers' = <<>> /\ at' = 1 /\ pc' \in {"servers", "enroll", "reply"}
                      /\ \A k \in Messages : ~Logged(k)'
                      /\ \A k \in Messages \ First : step'[k] = "unsent"
    BY SendKeepsLog DEF Early
  <1>1. loggers' = <<>> /\ \A k \in Messages : ~Logged(k)'
    BY SendKeepsLog DEF IInv, Early
  <1>2. \A k \in Messages \ First : step'[k] = "unsent"
    BY SendKeepsLog DEF IInv, Early
  <1> QED
    BY <1>1, <1>2

LEMMA EnrollInv ==
    ASSUME IInv, Enroll
    PROVE  IInv'
  <1>0. at \in Drones \cup {User} /\ <<"ENROLL_REQ", at>> \in Messages
    BY FirstMessages DEF IInv, TypeOK
  <1>1. LogInv' /\ loggers' = loggers /\ current' = current /\ clog' = clog
    BY <1>0, SendKeepsLog DEF Enroll
  <1>2. EndInv'
    BY <1>1, FinalPartsUnchanged DEF Enroll
  <1>3. MainInv'
    BY Parts DEF Enroll, MainInv, MainTypes, AtMatches, BoundRight, PortsReachTheirOwners, Port, DronePort
  <1>4. Early'
    <2>1. current = 0 => at = 1 /\ <<"ENROLL_REQ", at>> \in First
      BY DEF IInv, Early, First
    <2> QED
      BY <1>0, <2>1, SendKeepsEarly DEF Enroll
  <1> QED
    BY <1>1, <1>2, <1>3, <1>4, FromParts

LEMMA DroneEnrolledInv ==
    ASSUME IInv, DroneEnrolled
    PROVE  IInv'
  <1>1. LogInv' /\ EndInv'
    BY LogUnchanged, FinalPartsUnchanged DEF DroneEnrolled, logVars
  <1>2. MainInv'
    <2>1. <<"drone", at>> \in Listeners
      BY TheListeners DEF DroneEnrolled
    <2> QED
      BY <2>1, Numbers, Parts DEF DroneEnrolled, MainInv, MainTypes, AtMatches, BoundRight,
                         PortsReachTheirOwners, Port, DronePort
  <1>3. current # 0
    <2>1. <<"ENROLL_REQ", at>> \in Messages
      BY FirstMessages DEF DroneEnrolled
    <2> QED
      BY <2>1, LoggedNeedsLogger DEF DroneEnrolled
  <1>4. Early'
    BY <1>3 DEF DroneEnrolled, logVars, Early
  <1> QED
    BY <1>1, <1>2, <1>4, FromParts

LEMMA DroneListensInv ==
    ASSUME IInv, DroneListens
    PROVE  IInv'
  <1>0. at \in Drones /\ at + 1 \in Drones \cup {User}
    BY Numbers DEF IInv, AtMatches, DroneListens, Drones
  <1>1. LogInv' /\ EndInv'
    BY LogUnchanged, FinalPartsUnchanged DEF DroneListens, logVars
  <1>2. MainTypes' /\ AtMatches' /\ BoundRight'
    <2>1. {<<"mu3", 0>>, <<"data", 0>>} \subseteq Listeners
      BY TheListeners
    <2>2. MainTypes'
      BY <1>0, <2>1, Parts DEF DroneListens, MainInv, MainTypes
    <2>3. AtMatches'
      BY DEF DroneListens, AtMatches
    <2> QED
      BY <2>2, <2>3 DEF DroneListens, BoundRight, IInv, Port, DronePort
  <1>3. PortsReachTheirOwners'
    <2>1. bound[DronePort(at)] = <<"drone", at>>
      BY <1>0, OpenIsItself, TheListeners DEF DroneListens
    <2>2. ASSUME NEW d \in Drones, at' > d PROVE bound'[DronePort(d)] = <<"drone", d>>
      <3>1. d = at \/ at > d
        BY <1>0, <2>2, Numbers DEF DroneListens
      <3> QED
        BY <2>1, <3>1 DEF DroneListens, IInv, PortsReachTheirOwners
    <2>3. ~(at' = User /\ pc' # "user")
      BY DEF DroneListens
    <2> QED
      BY <2>2, <2>3 DEF PortsReachTheirOwners, DronePort
  <1>4. Early'
    BY DEF DroneListens, logVars, Early, IInv
  <1> QED
    BY <1>1, <1>2, <1>3, <1>4, FromParts DEF MainInv

LEMMA UserListensInv ==
    ASSUME IInv, UserListens
    PROVE  IInv'
  <1>1. LogInv' /\ EndInv'
    BY LogUnchanged, FinalPartsUnchanged DEF UserListens, logVars
  <1>2. MainTypes' /\ AtMatches' /\ BoundRight'
    BY Parts DEF UserListens, MainInv, MainTypes, AtMatches, BoundRight, Port, DronePort
  <1>3. bound[UserPort] = <<"mu3", 0>>
    BY OpenIsItself, TheListeners DEF UserListens
  <1>4. PortsReachTheirOwners'
    BY <1>3 DEF UserListens, IInv, PortsReachTheirOwners, DronePort
  <1>5. Early'
    BY DEF UserListens, logVars, Early, IInv
  <1> QED
    BY <1>1, <1>2, <1>4, <1>5, FromParts DEF MainInv

LEMMA UserEnrolledInv ==
    ASSUME IInv, UserEnrolled
    PROVE  IInv'
  <1>1. LogInv' /\ EndInv'
    BY LogUnchanged, FinalPartsUnchanged DEF UserEnrolled, logVars
  <1>2. MainInv'
    BY Parts DEF UserEnrolled, MainInv, MainTypes, AtMatches, BoundRight, PortsReachTheirOwners, Port, DronePort
  <1>3. Early'
    BY Numbers DEF UserEnrolled, logVars, Early, IInv
  <1> QED
    BY <1>1, <1>2, <1>3, FromParts

LEMMA SendMu1Inv ==
    ASSUME IInv, SendMu1
    PROVE  IInv'
  <1>1. LogInv' /\ loggers' = loggers /\ current' = current /\ clog' = clog
    BY FirstMessages, SendKeepsLog DEF SendMu1
  <1>2. EndInv'
    BY <1>1, FinalPartsUnchanged DEF SendMu1
  <1>3. MainInv'
    BY Parts DEF SendMu1, MainInv, MainTypes, AtMatches, BoundRight, PortsReachTheirOwners, Port, DronePort
  <1>4. Early'
    BY <1>1 DEF SendMu1, IInv, Early
  <1> QED
    BY <1>1, <1>2, <1>3, <1>4, FromParts

\* The steps from the reply to mu1 on: there is a logger.
LEMMA FinalStepInv ==
    ASSUME IInv, Authenticated \/ GetLogger \/ Save \/ PrintSummary
    PROVE  IInv'
  <1>1. LogInv'
    BY LogUnchanged DEF Authenticated, GetLogger, MainGetsLogger, Save, PrintSummary, logVars
  <1>2. MainInv'
    BY Parts DEF Authenticated, GetLogger, MainGetsLogger, Save, PrintSummary, MainInv, MainTypes, AtMatches, BoundRight,
          PortsReachTheirOwners, Port, DronePort
  <1>3. current # 0
    <2>1. CASE Authenticated
      BY <2>1, FirstMessages, LoggedNeedsLogger DEF Authenticated
    <2>2. CASE GetLogger \/ Save \/ PrintSummary
      BY <2>2 DEF GetLogger, Save, PrintSummary, IInv, LoggerMade
    <2> QED
      BY <2>1, <2>2
  <1>4. EndInv'
    <2>1. loggers \in Seq(SUBSET Messages) /\ current \in 0 .. Len(loggers) /\ clog \in 0 .. Len(loggers)
      BY DEF IInv, TypeOK
    <2>2. CASE Authenticated
      BY <1>3, <2>2, Parts DEF Authenticated, EndInv, EndTypes, HasLogger, LoggerMade, logVars
    <2>3. CASE GetLogger
      BY <1>3, <2>1, <2>3, Parts DEF GetLogger, MainGetsLogger, EndInv, EndTypes, HasLogger, LoggerMade, logVars
    <2>4. CASE Save
      <3>1. loggers[clog] \subseteq Messages
        BY <2>1, <2>4 DEF IInv, HasLogger, Save
      <3> QED
        BY <1>3, <2>4, <3>1, Parts DEF Save, EndInv, EndTypes, HasLogger, LoggerMade, logVars
    <2>5. CASE PrintSummary
      <3>1. loggers[clog] \subseteq Messages
        BY <2>1, <2>5 DEF IInv, HasLogger, PrintSummary
      <3> QED
        BY <1>3, <2>5, <3>1, Parts DEF PrintSummary, EndInv, EndTypes, HasLogger, LoggerMade, logVars
    <2> QED
      BY <2>2, <2>3, <2>4, <2>5
  <1>5. Early'
    BY <1>3 DEF Authenticated, GetLogger, MainGetsLogger, Save, PrintSummary, logVars, Early
  <1> QED
    BY <1>1, <1>2, <1>4, <1>5, FromParts

-----------------------------------------------------------------------------
(* The daemon threads *)

\* A daemon thread that sends or is refused, and leaves the main thread alone.
LEMMA DaemonSendInv ==
    ASSUME IInv, NEW m \in Messages, Send(m) \/ Refuse(m),
           UNCHANGED <<pc, at, enrolled, started, bound, saved, printed>>,
           responses' \subseteq Drones,
           current = 0 => m \in First
    PROVE  IInv'
  <1>1. LogInv' /\ loggers' = loggers /\ current' = current /\ clog' = clog
    BY SendKeepsLog
  <1>2. EndInv'
    BY <1>1, FinalPartsUnchanged
  <1>3. MainInv'
    BY Parts DEF MainInv, MainTypes, AtMatches, BoundRight, PortsReachTheirOwners, Port, DronePort
  <1>4. Early'
    BY SendKeepsEarly DEF IInv, Early
  <1> QED
    BY <1>1, <1>2, <1>3, <1>4, FromParts

\* What has been sent beyond the first two messages, a logger was there for.
LEMMA SentNeedsLogger ==
    ASSUME IInv, NEW m \in Messages, m \notin First, Sent(m)
    PROVE  current # 0
  BY DEF IInv, Early, Sent

LEMMA AcknowledgeInv ==
    ASSUME IInv, NEW i \in Drones \cup {User}, Acknowledge(i)
    PROVE  IInv'
  <1>1. <<"ENROLL_REQ", i>> \in Messages /\ <<"ENROLL_ACK", i>> \in Messages
    BY FirstMessages
  <1>2. current = 0 => <<"ENROLL_ACK", i>> \in First
    BY <1>1, SentNeedsLogger DEF Acknowledge, First
  <1> QED
    BY <1>1, <1>2, DaemonSendInv DEF Acknowledge, mainVars, IInv, TypeOK

LEMMA ForwardMu2Inv ==
    ASSUME IInv, NEW d \in Drones, ForwardMu2(d)
    PROVE  IInv'
  <1>1. current # 0
    BY FirstMessages, SentNeedsLogger DEF ForwardMu2, First
  <1> QED
    BY <1>1, FirstMessages, DaemonSendInv DEF ForwardMu2, mainVars, IInv, TypeOK

LEMMA ReplyToUserInv ==
    ASSUME IInv, ReplyToUser
    PROVE  IInv'
  <1>1. current # 0
    BY Numbers, FirstMessages, LoggedNeedsLogger DEF ReplyToUser
  <1> QED
    BY <1>1, FirstMessages, DaemonSendInv DEF ReplyToUser, mainVars, IInv, TypeOK

LEMMA SendMu3Inv ==
    ASSUME IInv, NEW d \in Drones, SendMu3(d)
    PROVE  IInv'
  <1>1. current # 0
    BY FirstMessages, SentNeedsLogger DEF SendMu3, First
  <1>2. responses' \subseteq Drones
    BY DEF SendMu3, IInv, TypeOK
  <1> QED
    BY <1>1, <1>2, FirstMessages, DaemonSendInv DEF SendMu3

LEMMA SendDataInv ==
    ASSUME IInv, NEW d \in Drones, SendData(d)
    PROVE  IInv'
  <1>1. current # 0
    BY FirstMessages, LoggedNeedsLogger DEF SendData
  <1>2. Send(<<"SECURE_DATA", d>>) \/ Refuse(<<"SECURE_DATA", d>>)
    BY DEF SendData
  <1> QED
    BY <1>1, <1>2, FirstMessages, DaemonSendInv DEF SendData, mainVars, IInv, TypeOK

-----------------------------------------------------------------------------
LEMMA StutterInv ==
    ASSUME IInv, UNCHANGED vars
    PROVE  IInv'
  <1>1. LogInv' /\ EndInv'
    BY LogUnchanged, FinalPartsUnchanged DEF vars, mainVars, logVars
  <1>2. MainInv' /\ Early'
    BY Parts DEF vars, mainVars, logVars, MainInv, MainTypes, AtMatches, BoundRight,
                 PortsReachTheirOwners, Port, DronePort, Early, Logged
  <1> QED
    BY <1>1, <1>2, FromParts

LEMMA StepInv == IInv /\ [Next]_vars => IInv'
  <1> SUFFICES ASSUME IInv, [Next]_vars PROVE IInv'
    OBVIOUS
  <1>1. CASE MainStep
    BY <1>1, ServersReadyInv, EnrollInv, DroneEnrolledInv, DroneListensInv, UserListensInv,
       UserEnrolledInv, SendMu1Inv, FinalStepInv DEF MainStep
  <1>2. CASE DaemonStep
    <2>1. CASE \E l \in started : Bind(l)
      BY <2>1, BindInv
    <2>2. CASE \E i \in Drones \cup {User} : Acknowledge(i)
      BY <2>2, AcknowledgeInv
    <2>3. CASE \E d \in Drones : ForwardMu2(d) \/ SendMu3(d) \/ SendData(d)
      BY <2>3, ForwardMu2Inv, SendMu3Inv, SendDataInv
    <2>4. CASE ReplyToUser
      BY <2>4, ReplyToUserInv
    <2>5. CASE \E m \in Messages : LogStep(m) /\ UNCHANGED mainVars
      BY <2>5, LogStepInv
    <2> QED
      BY <1>2, <2>1, <2>2, <2>3, <2>4, <2>5 DEF DaemonStep
  <1>3. CASE UNCHANGED vars
    BY <1>3, StutterInv
  <1> QED
    BY <1>1, <1>2, <1>3 DEF Next

\* The inductive invariant holds of every simulation.
THEOREM Invariance == Spec => []IInv
  BY InitInv, StepInv, PTL DEF Spec

\* However many drones there are, and wherever the ports lie, wait_for_port is
\* satisfied by the listener it waits for only.
THEOREM PortsAreOwned == Spec => []PortsReachTheirOwners
  <1>1. IInv => PortsReachTheirOwners
    BY DEF IInv
  <1> QED
    BY <1>1, Invariance, PTL

\* Only a thread that has found no logger replaces the global one.
LEMMA OnlyCreateReplaces ==
    ASSUME IInv, [Next]_vars, current' # current
    PROVE  \E m \in Messages : step[m] = "creating"
  <1>1. \A m \in Messages : Send(m) \/ Refuse(m) => current' = current
    BY DEF Send, Refuse
  <1>2. UNCHANGED logVars => current' = current
    BY DEF logVars
  <1>3. ~MainStep
    <2>1. ASSUME Enroll PROVE FALSE
      BY <1>1, <2>1, FirstMessages DEF Enroll, IInv, TypeOK
    <2>2. ASSUME SendMu1 PROVE FALSE
      BY <1>1, <2>2, FirstMessages DEF SendMu1
    <2>3. ASSUME GetLogger PROVE FALSE
      BY <2>3 DEF GetLogger, MainGetsLogger
    <2> QED
      BY <1>2, <2>1, <2>2, <2>3
      DEF MainStep, ServersReady, DroneEnrolled, DroneListens, UserListens, UserEnrolled,
          Authenticated, Save, PrintSummary
  <1>4. DaemonStep
    BY <1>2, <1>3 DEF Next, vars
  <1>5. \A l \in started : ~Bind(l)
    BY <1>2 DEF Bind
  <1>6. /\ \A i \in Drones \cup {User} : ~Acknowledge(i)
        /\ \A d \in Drones : ~ForwardMu2(d) /\ ~SendMu3(d) /\ ~SendData(d)
        /\ ~ReplyToUser
    BY <1>1, FirstMessages DEF Acknowledge, ForwardMu2, SendMu3, SendData, ReplyToUser
  <1>7. PICK m \in Messages : LogStep(m)
    BY <1>4, <1>5, <1>6 DEF DaemonStep
  <1> QED
    BY <1>7 DEF LogStep, FindsNone, Create, TakeLogger, LogToHeld, LogInstant

\* get_comm_logger has no lock, and whoever calls it when, the logger of the
\* simulation is settled once the first two messages are logged: whoever replaces
\* it is one of the two, and has not logged yet.
THEOREM LoggerIsSettled == Spec => LoggerSettles
  <1>1. IInv /\ [Next]_vars => [(\A m \in First : Logged(m)) => current' = current]_vars
    <2> SUFFICES ASSUME IInv, [Next]_vars, \A m \in First : Logged(m), current' # current
                 PROVE  FALSE
      OBVIOUS
    <2>1. PICK m \in Messages : step[m] = "creating"
      BY OnlyCreateReplaces
    <2>2. m \in First
      BY <2>1 DEF IInv, Creators
    <2> QED
      BY <2>1, <2>2 DEF Logged
  <1> QED
    BY <1>1, Invariance, PTL DEF Spec, LoggerSettles

\* The variables of socket_main.py and of the logger keep their types.
THEOREM SimulationTypes == Spec => []TypeOK
  <1>1. IInv => TypeOK
    BY DEF IInv
  <1> QED
    BY <1>1, Invariance, PTL
=============================================================================
