-------------------------- MODULE RegistrationProofs -------------------------
(***************************************************************************)
(* However often ra.py is run, killed and run again with other arguments:  *)
(* what the files of registrations/ say of one another.                    *)
(***************************************************************************)
EXTENDS Registration, TLAPS

\* The k-th file a run saves.
Item(n, u, k) == IF k = 1 THEN Params ELSE IF k = n + 2 THEN UserFile(u) ELSE Drone(k - 2)

\* Files of its agenda the running process has saved.
Done == arg + 2 - Len(todo)

\* What is left to save is the end of the agenda.
Place ==
    Running => /\ run > 0 /\ Len(todo) <= arg + 2
               /\ \A i \in 1 .. Len(todo) : todo[i] = Item(arg, name, Done + i)

\* What has been saved is of this run, and what is left is not.
Saved ==
    Running => \A k \in 1 .. arg + 2 :
                   IF k <= Done
                   THEN LoadJson(Item(arg, name, k)) = {run}
                   ELSE LoadJson(Item(arg, name, k)) # {run}

\* A run saves nothing that is not on its agenda.
Latest == \A f \in DOMAIN file : file[f] = run /\ run > 0 => f \in Of(arg, name)

\* The file json.dump is about to write has been opened.
Opened == pc = "dump" => Head(todo) \in DOMAIN file

\* When no process runs: the last one may have saved everything, or been killed
\* before it got to the user.
LeftComplete == ~Running => UserFileMeansComplete

IInv == TypeOK /\ Place /\ Saved /\ Latest /\ Opened /\ ParamsAreNewest /\ LeftComplete

-----------------------------------------------------------------------------
LEMMA AgendaIs ==
    ASSUME NEW n \in 0 .. MaxArg, NEW u \in UserIds
    PROVE  /\ Agenda(n, u) \in Seq(Files) /\ Len(Agenda(n, u)) = n + 2
           /\ \A k \in 1 .. n + 2 : Agenda(n, u)[k] = Item(n, u, k)
  <1> DEFINE Middle == [i \in 1 .. n |-> Drone(i - 1)]
  <1>1. n \in Nat /\ MaxArg \in Nat /\ n <= MaxArg
    BY RegistrationAssumption DEF RegistrationAssumption
  <1>2. Middle \in Seq(Files) /\ Len(Middle) = n
    BY <1>1 DEF Files
  <1>3. <<Params>> \in Seq(Files) /\ <<UserFile(u)>> \in Seq(Files)
    BY DEF Files
  <1>4. /\ <<Params>> \o Middle \in Seq(Files) /\ Len(<<Params>> \o Middle) = n + 1
        /\ (<<Params>> \o Middle)[1] = Params
        /\ \A k \in 2 .. n + 1 : (<<Params>> \o Middle)[k] = Drone(k - 2)
    <2>1. \A k \in 2 .. n + 1 : k - 1 \in 1 .. n /\ Middle[k - 1] = Drone(k - 2)
      BY <1>1
    <2> HIDE DEF Middle
    <2>2. \A k \in 2 .. n + 1 : (<<Params>> \o Middle)[k] = Middle[k - 1]
      BY <1>1, <1>2, <1>3
    <2> QED
      BY <1>1, <1>2, <1>3, <2>1, <2>2
  <1> DEFINE Front == <<Params>> \o Middle
  <1>5. Agenda(n, u) = Front \o <<UserFile(u)>>
    BY DEF Agenda
  <1> HIDE DEF Front
  <1>6. /\ Front \o <<UserFile(u)>> \in Seq(Files) /\ Len(Front \o <<UserFile(u)>>) = n + 2
        /\ \A k \in 1 .. n + 1 : (Front \o <<UserFile(u)>>)[k] = Front[k]
        /\ (Front \o <<UserFile(u)>>)[n + 2] = UserFile(u)
    BY <1>1, <1>3, <1>4 DEF Front
  <1> QED
    BY <1>1, <1>4, <1>5, <1>6 DEF Item, Front

\* No file is saved twice in a run, and a run saves one user's file.
LEMMA ItemsDiffer ==
    ASSUME NEW n \in 0 .. MaxArg, NEW u \in UserIds
    PROVE  /\ \A i, k \in 1 .. n + 2 : Item(n, u, i) = Item(n, u, k) => i = k
           /\ \A v \in UserIds : UserFile(v) \in Of(n, u) => u = v
  <1>1. n \in Nat /\ \A v \in UserIds : v # "params" /\ v # "drone"
    BY RegistrationAssumption DEF RegistrationAssumption
  <1> QED
    BY <1>1 DEF Item, Of, Params, UserFile, Drone

LEMMA ItemsAre ==
    ASSUME NEW n \in 0 .. MaxArg, NEW u \in UserIds
    PROVE  /\ Of(n, u) = {Item(n, u, k) : k \in 1 .. n + 2} /\ Of(n, u) \subseteq Files
           /\ Item(n, u, 1) = Params /\ Item(n, u, n + 2) = UserFile(u)
  <1>1. n \in Nat /\ MaxArg \in Nat /\ n <= MaxArg
    BY RegistrationAssumption DEF RegistrationAssumption
  <1>2. Item(n, u, 1) = Params /\ Item(n, u, n + 2) = UserFile(u)
    BY <1>1 DEF Item
  <1>3. ASSUME NEW k \in 1 .. n + 2 PROVE Item(n, u, k) \in Of(n, u)
    BY <1>1 DEF Item, Of
  <1>4. ASSUME NEW i \in 0 .. n - 1 PROVE i + 2 \in 1 .. n + 2 /\ Item(n, u, i + 2) = Drone(i)
    BY <1>1 DEF Item
  <1>5. Of(n, u) \subseteq {Item(n, u, k) : k \in 1 .. n + 2}
    <2>1. 1 \in 1 .. n + 2 /\ n + 2 \in 1 .. n + 2
      BY <1>1
    <2> QED
      BY <1>2, <1>4, <2>1 DEF Of
  <1>6. Of(n, u) \subseteq Files
    BY <1>1 DEF Of, Files
  <1> QED
    BY <1>2, <1>3, <1>5, <1>6

\* A running process has saved the user's file only when it has saved all.
LEMMA CompleteWhileRunning ==
    ASSUME IInv
    PROVE  UserFileMeansComplete
  <1>1. CASE ~Running
    BY <1>1 DEF IInv, LeftComplete
  <1>2. CASE Running
    <2> SUFFICES ASSUME NEW u \in UserIds, LoadJson(UserFile(u)) = {run}, run > 0
                 PROVE  u = name /\ \A f \in Of(arg, u) : LoadJson(f) = {run}
      BY DEF UserFileMeansComplete
    <2>1. arg \in 0 .. MaxArg /\ arg \in Nat /\ name \in UserIds
      BY RegistrationAssumption DEF RegistrationAssumption, IInv, TypeOK
    <2>2. UserFile(u) \in Of(arg, name)
      BY DEF IInv, Latest, LoadJson, Missing
    <2>3. u = name
      BY <2>1, <2>2, ItemsDiffer
    <2>4. arg + 2 <= Done
      <3>1. arg + 2 \in 1 .. arg + 2 /\ Item(arg, name, arg + 2) = UserFile(u)
        BY <2>1, <2>3, ItemsAre
      <3> QED
        BY <1>2, <3>1 DEF IInv, Saved
    <2>5. \A k \in 1 .. arg + 2 : k <= Done
      BY <2>1, <2>4 DEF Done, IInv, TypeOK
    <2>6. \A k \in 1 .. arg + 2 : LoadJson(Item(arg, name, k)) = {run}
      BY <1>2, <2>5 DEF IInv, Saved
    <2> QED
      BY <2>1, <2>3, <2>6, ItemsAre
  <1> QED
    BY <1>1, <1>2

LEMMA InitInv == Init => IInv
  <1> SUFFICES ASSUME Init PROVE IInv
    OBVIOUS
  <1> USE DEF Init
  <1>1. DOMAIN file = {}
    OBVIOUS
  <1>2. TypeOK
    BY <1>1, RegistrationAssumption DEF RegistrationAssumption, TypeOK
  <1>3. Place /\ Saved /\ Opened
    BY DEF Place, Saved, Opened, Running
  <1>4. Latest /\ ParamsAreNewest /\ LeftComplete
    BY <1>1 DEF Latest, ParamsAreNewest, LeftComplete, UserFileMeansComplete
  <1> QED
    BY <1>2, <1>3, <1>4 DEF IInv

-----------------------------------------------------------------------------
LEMMA StartInv ==
    ASSUME IInv, NEW n \in 0 .. MaxArg, NEW u \in UserIds, Start(n, u)
    PROVE  IInv'
  <1>1. /\ ~Running /\ run' = run + 1 /\ run' \in 1 .. MaxRuns /\ run \in Nat
        /\ arg' = n /\ name' = u /\ pc' = "enroll" /\ db' = {} /\ file' = file
        /\ n \in Nat
    BY RegistrationAssumption DEF RegistrationAssumption, Start, IInv, TypeOK
  <1>2. /\ todo' \in Seq(Files) /\ Len(todo') = n + 2
        /\ \A k \in 1 .. n + 2 : todo'[k] = Item(n, u, k)
    BY AgendaIs DEF Start
  <1>3. Done' = 0 /\ arg' + 2 = n + 2 /\ Running'
    BY <1>1, <1>2 DEF Done, Running
  <1>4. \A f \in DOMAIN file : file[f] \in Nat /\ file[f] < run'
    BY <1>1 DEF IInv, TypeOK
  <1>5. TypeOK'
    BY <1>1, <1>2, <1>4 DEF IInv, TypeOK
  <1>6. Place'
    BY <1>1, <1>2, <1>3 DEF Place
  <1>7. Saved'
    <2> SUFFICES ASSUME NEW k \in 1 .. n + 2, LoadJson(Item(n, u, k))' = {run'} PROVE FALSE
      BY <1>1, <1>3 DEF Saved, LoadJson, Item
    <2> QED
      BY <1>1, <1>4 DEF LoadJson, Missing, Item, Params, UserFile, Drone
  <1>8. Latest' /\ Opened' /\ LeftComplete'
    BY <1>1, <1>3, <1>4 DEF Latest, Opened, LeftComplete
  <1>9. ParamsAreNewest'
    BY <1>1 DEF IInv, ParamsAreNewest, Whole
  <1> QED
    BY <1>5, <1>6, <1>7, <1>8, <1>9 DEF IInv

\* The next file of a running process is the one after those it has saved.
LEMMA NextFile ==
    ASSUME IInv, Running, todo # <<>>
    PROVE  /\ run \in Nat /\ run > 0 /\ arg \in 0 .. MaxArg /\ arg \in Nat /\ name \in UserIds
           /\ Len(todo) \in 1 .. arg + 2 /\ Done \in 0 .. arg + 1 /\ Done + 1 \in 1 .. arg + 2
           /\ Head(todo) = Item(arg, name, Done + 1)
           /\ Head(todo) \in Of(arg, name) /\ Head(todo) \in Files
  <1>1. /\ run \in Nat /\ run > 0 /\ arg \in 0 .. MaxArg /\ arg \in Nat /\ name \in UserIds
        /\ todo \in Seq(Files) /\ Len(todo) <= arg + 2
    BY RegistrationAssumption DEF RegistrationAssumption, IInv, TypeOK, Place
  <1>2. Len(todo) \in 1 .. arg + 2 /\ Head(todo) = todo[1] /\ Done \in 0 .. arg + 1
    BY <1>1 DEF Done
  <1>3. Done + 1 \in 1 .. arg + 2
    BY <1>1, <1>2
  <1>4. Head(todo) = Item(arg, name, Done + 1)
    BY <1>1, <1>2 DEF IInv, Place
  <1> QED
    BY <1>1, <1>2, <1>3, <1>4, ItemsAre

LEMMA EnrollInv ==
    ASSUME IInv, Enroll
    PROVE  IInv'
  <1>1. Running /\ Running'
    BY DEF Enroll, Running
  <1>2. TypeOK'
    BY <1>1, NextFile DEF Enroll, IInv, TypeOK
  <1>3. Place' /\ Saved' /\ Latest' /\ Opened' /\ LeftComplete' /\ ParamsAreNewest'
    BY <1>1 DEF Enroll, IInv, Place, Done, Saved, LoadJson, Item, Latest, Opened, LeftComplete,
               ParamsAreNewest, Whole
  <1> QED
    BY <1>2, <1>3 DEF IInv

LEMMA OpenInv ==
    ASSUME IInv, Open
    PROVE  IInv'
  <1>1. Running /\ Running' /\ todo # <<>>
    BY DEF Open, Running, IInv, TypeOK
  <1>2. /\ DOMAIN file' = DOMAIN file \cup {Head(todo)} /\ file'[Head(todo)] = Torn
        /\ \A f \in DOMAIN file : f # Head(todo) => file'[f] = file[f]
        /\ UNCHANGED <<run, arg, name, todo, db>> /\ pc' = "dump" /\ Torn = 0
    BY DEF Open, Torn
  <1>3. TypeOK'
    BY <1>1, <1>2, NextFile DEF IInv, TypeOK
  <1>4. Place' /\ Opened' /\ LeftComplete' /\ Latest'
    BY <1>1, <1>2, NextFile DEF IInv, Place, Done, Opened, LeftComplete, Latest
  <1>5. Saved'
    <2>1. ASSUME NEW k \in 1 .. arg + 2, k # Done + 1
          PROVE  LoadJson(Item(arg, name, k))' = LoadJson(Item(arg, name, k))
      <3>1. Item(arg, name, k) # Head(todo)
        BY <1>1, <2>1, NextFile, ItemsDiffer
      <3> QED
        BY <1>2, <3>1 DEF LoadJson, Item, Params, UserFile, Drone
    <2>2. ASSUME NEW k \in 1 .. arg + 2, k = Done + 1
          PROVE  LoadJson(Item(arg, name, k))' # {run}
      <3>1. Head(todo) = Item(arg, name, k)
        BY <1>1, <2>2, NextFile
      <3>2. LoadJson(Item(arg, name, k))' = {0}
        BY <1>2, <3>1 DEF LoadJson, Item, Params, UserFile, Drone
      <3>3. run # 0
        BY <1>1, NextFile
      <3> QED
        BY <3>2, <3>3
    <2>3. Done' = Done /\ ~(Done + 1 <= Done)
      BY <1>1, <1>2, NextFile DEF Done
    <2> SUFFICES ASSUME NEW k \in 1 .. arg + 2
                 PROVE  IF k <= Done THEN LoadJson(Item(arg, name, k))' = {run}
                                     ELSE LoadJson(Item(arg, name, k))' # {run}
      BY <1>2, <2>3 DEF Saved, LoadJson, Item
    <2>4. CASE k = Done + 1
      BY <2>2, <2>3, <2>4
    <2>5. CASE k # Done + 1
      BY <1>1, <2>1, <2>5 DEF IInv, Saved
    <2> QED
      BY <2>4, <2>5
  <1>6. ParamsAreNewest'
    BY <1>2, <1>3 DEF IInv, ParamsAreNewest, Whole, TypeOK
  <1> QED
    BY <1>3, <1>4, <1>5, <1>6 DEF IInv

LEMMA DumpInv ==
    ASSUME IInv, Dump
    PROVE  IInv'
  <1>1. Running /\ Running' /\ todo # <<>> /\ Head(todo) \in DOMAIN file
    BY DEF Dump, Running, IInv, TypeOK, Opened
  <1>2. /\ DOMAIN file' = DOMAIN file /\ file'[Head(todo)] = run
        /\ \A f \in DOMAIN file : f # Head(todo) => file'[f] = file[f]
        /\ UNCHANGED <<run, arg, name, db>> /\ pc' = "enroll" /\ todo' = Tail(todo)
    BY <1>1 DEF Dump
  <1>3. /\ todo' \in Seq(Files) /\ Len(todo') = Len(todo) - 1
        /\ \A i \in 1 .. Len(todo') : todo'[i] = todo[i + 1] /\ i + 1 \in 1 .. Len(todo)
    BY <1>1, <1>2 DEF IInv, TypeOK
  <1>4. Done' = Done + 1
    BY <1>1, <1>2, <1>3, NextFile DEF Done
  <1>5. TypeOK'
    BY <1>1, <1>2, <1>3, NextFile DEF IInv, TypeOK
  <1>6. Place'
    <2>1. \A i \in 1 .. Len(todo') : todo'[i] = Item(arg, name, Done + 1 + i)
      <3> SUFFICES ASSUME NEW i \in 1 .. Len(todo') PROVE todo'[i] = Item(arg, name, Done + 1 + i)
        OBVIOUS
      <3>1. todo'[i] = Item(arg, name, Done + (i + 1))
        BY <1>1, <1>3 DEF IInv, Place
      <3>2. Done + (i + 1) = Done + 1 + i
        BY <1>1, <1>3, NextFile
      <3> QED
        BY <3>1, <3>2
    <2> QED
      BY <1>1, <1>2, <1>3, <1>4, <2>1, NextFile DEF Place, Item
  <1>7. Saved'
    <2>1. ASSUME NEW k \in 1 .. arg + 2, k # Done + 1
          PROVE  LoadJson(Item(arg, name, k))' = LoadJson(Item(arg, name, k))
      <3>1. Item(arg, name, k) # Head(todo)
        BY <1>1, <2>1, NextFile, ItemsDiffer
      <3> QED
        BY <1>2, <3>1 DEF LoadJson, Item, Params, UserFile, Drone
    <2>2. ASSUME NEW k \in 1 .. arg + 2, k = Done + 1
          PROVE  LoadJson(Item(arg, name, k))' = {run}
      <3>1. Head(todo) = Item(arg, name, k)
        BY <1>1, <2>2, NextFile
      <3> QED
        BY <3>1, <1>1, <1>2, NextFile DEF LoadJson, Item, Params, UserFile, Drone
    <2> SUFFICES ASSUME NEW k \in 1 .. arg + 2
                 PROVE  IF k <= Done + 1 THEN LoadJson(Item(arg, name, k))' = {run}
                                         ELSE LoadJson(Item(arg, name, k))' # {run}
      BY <1>2, <1>4 DEF Saved, LoadJson, Item
    <2>3. Done \in Nat
      BY <1>1, NextFile
    <2>4. CASE k = Done + 1
      BY <2>2, <2>3, <2>4
    <2>5. CASE k # Done + 1
      <3>1. k <= Done + 1 <=> k <= Done
        BY <2>3, <2>5
      <3> QED
        BY <1>1, <2>1, <2>5, <3>1 DEF IInv, Saved
    <2> QED
      BY <2>4, <2>5
  <1>8. Latest' /\ Opened' /\ LeftComplete'
    BY <1>1, <1>2, NextFile DEF IInv, Latest, Opened, LeftComplete
  <1>9. ParamsAreNewest'
    <2>1. CASE Head(todo) = Params
      BY <1>1, <1>2, <1>5, <2>1, NextFile DEF ParamsAreNewest, Whole, TypeOK
    <2>2. CASE Head(todo) # Params
      <3>1. Done >= 1
        BY <1>1, <2>2, NextFile, ItemsAre
      <3>2. LoadJson(Params) = {run}
        <4>1. /\ arg \in 0 .. MaxArg /\ name \in UserIds /\ Done \in 0 .. arg + 1 /\ arg \in Nat
              /\ Item(arg, name, 1) = Params
          BY <1>1, NextFile, ItemsAre
        <4>2. 1 \in 1 .. arg + 2 /\ 1 <= Done
          BY <3>1, <4>1
        <4> QED
          BY <1>1, <4>1, <4>2 DEF IInv, Saved
      <3>3. Params \in DOMAIN file' /\ file'[Params] = run
        BY <1>2, <2>2, <3>2 DEF LoadJson, Missing
      <3> QED
        BY <1>1, <1>2, <1>5, <3>3, NextFile DEF ParamsAreNewest, Whole, TypeOK
    <2> QED
      BY <2>1, <2>2
  <1> QED
    BY <1>5, <1>6, <1>7, <1>8, <1>9 DEF IInv

\* The end of a process, by return or by a kill.
LEMMA EndInv ==
    ASSUME IInv, Finish \/ Kill
    PROVE  IInv'
  <1>1. /\ UNCHANGED <<run, arg, name, todo, file>> /\ ~Running' /\ pc' \in {"over", "killed"}
        /\ db' \subseteq db
    BY DEF Finish, Kill, Running
  <1>2. UserFileMeansComplete'
    BY <1>1, CompleteWhileRunning DEF UserFileMeansComplete, LoadJson, Of, UserFile, Params, Drone
  <1>3. TypeOK'
    BY <1>1 DEF IInv, TypeOK
  <1>4. Place' /\ Saved' /\ Opened' /\ LeftComplete'
    BY <1>1, <1>2 DEF Place, Saved, Opened, LeftComplete
  <1>5. Latest' /\ ParamsAreNewest'
    BY <1>1 DEF IInv, Latest, Of, ParamsAreNewest, Whole
  <1> QED
    BY <1>3, <1>4, <1>5 DEF IInv

LEMMA StutterInv ==
    ASSUME IInv, UNCHANGED vars
    PROVE  IInv'
  BY DEF vars, IInv, TypeOK, Place, Done, Running, Saved, LoadJson, Latest, Opened, ParamsAreNewest,
         Whole, LeftComplete, UserFileMeansComplete

LEMMA StepInv == IInv /\ [Next]_vars => IInv'
  BY StartInv, EnrollInv, OpenInv, DumpInv, EndInv, StutterInv DEF Next, Step

\* The inductive invariant holds whatever the runs are and whenever they die.
THEOREM Invariance == Spec => []IInv
  BY InitInv, StepInv, PTL DEF Spec

\* Whoever finds the file of the latest run's user finds the parameters and
\* all drones of that run: main saves the user last, and starts with nothing.
THEOREM UserFileComesLast == Spec => []UserFileMeansComplete
  BY Invariance, CompleteWhileRunning, PTL

\* Whatever mix of runs the directory holds, its parameters are the newest.
THEOREM ParamsComeFirst == Spec => []ParamsAreNewest
  <1>1. IInv => ParamsAreNewest
    BY DEF IInv
  <1> QED
    BY <1>1, Invariance, PTL
=============================================================================
