---------------------------- MODULE Registration -----------------------------
(***************************************************************************)
(* ra.py: a process that makes a control server of its own, enrols drones  *)
(* and a user with it and saves what they were issued as JSON files.  It   *)
(* may be killed at any moment and run again with other arguments: memory  *)
(* is lost, the files stay.  One process runs at a time.                   *)
(***************************************************************************)
EXTENDS Naturals, Sequences

CONSTANTS
    MaxRuns,     \* bound: how often ra.py is run
    MaxArg,      \* bound: --drones
    UserIds      \* the values of --user

ASSUME RegistrationAssumption ==
    /\ MaxRuns \in Nat /\ MaxArg \in Nat
    /\ UserIds \cap {"params", "drone"} = {}

VARIABLES
    run,      \* the number of the latest run: stands for its s and its nonces
    arg,      \* its --drones
    name,     \* its --user
    todo,     \* the files main has yet to save, in order
    pc,       \* main: about to enroll, to open or to dump, or the process is over
    db,       \* entities in the database of its control server
    file      \* registrations/: the run each file is from, or Torn

vars == <<run, arg, name, todo, pc, db, file>>

Params == <<"params", 0>>
Drone(i) == <<"drone", i>>
UserFile(u) == <<u, 0>>
Files == {Params} \cup {Drone(i) : i \in 0 .. MaxArg - 1} \cup {UserFile(u) : u \in UserIds}

\* open(path, "w") leaves an empty file until json.dump has written it.
Torn == 0
Missing == {}

Running == pc \notin {"over", "killed"}

Init ==
    /\ run = 0 /\ arg = 0 /\ name \in UserIds
    /\ todo = <<>> /\ pc = "over"
    /\ db = {}
    /\ file = [f \in {} |-> Torn]

\* What load_json returns: {} for a missing file.  Of a torn one json.load
\* makes an exception.
LoadJson(f) == IF f \in DOMAIN file THEN {file[f]} ELSE Missing

\* Fault: the parameters are saved when everything else is.
AgendaParamsLast(n, u) ==
    [i \in 1 .. n |-> Drone(i - 1)] \o <<UserFile(u), Params>>

\* Fault: the user is registered before the drones.
AgendaUserFirst(n, u) ==
    <<Params, UserFile(u)>> \o [i \in 1 .. n |-> Drone(i - 1)]

\* RegistrationAuthority.__init__ saves the parameters; main then registers
\* the drones in turn, and the user.
Agenda(n, u) ==
    <<Params>> \o [i \in 1 .. n |-> Drone(i - 1)] \o <<UserFile(u)>>

\* A new process: a new ControlServer with a new s, and an empty database.
Start(n, u) ==
    /\ ~Running /\ run < MaxRuns
    /\ run' = run + 1
    /\ arg' = n /\ name' = u
    /\ todo' = Agenda(n, u)
    /\ pc' = "enroll"
    /\ db' = {}
    /\ UNCHANGED file

\* enroll_drone or enroll_user, or initialize for the parameters.
Enroll ==
    /\ pc = "enroll" /\ todo # <<>>
    /\ db' = db \cup {Head(todo)}
    /\ pc' = "open"
    /\ UNCHANGED <<run, arg, name, todo, file>>

\* save_json: open(path, "w").
Open ==
    /\ pc = "open"
    /\ file' = [f \in DOMAIN file \cup {Head(todo)} |-> IF f = Head(todo) THEN Torn ELSE file[f]]
    /\ pc' = "dump"
    /\ UNCHANGED <<run, arg, name, todo, db>>

\* Fault: the file is closed with nothing in it.
DumpNothing ==
    /\ pc = "dump"
    /\ todo' = Tail(todo)
    /\ pc' = "enroll"
    /\ UNCHANGED <<run, arg, name, db, file>>

\* save_json: json.dump, and the end of the with block.
Dump ==
    /\ pc = "dump"
    /\ file' = [file EXCEPT ![Head(todo)] = run]
    /\ todo' = Tail(todo)
    /\ pc' = "enroll"
    /\ UNCHANGED <<run, arg, name, db>>

\* list_registered, and main returns.
Finish ==
    /\ pc = "enroll" /\ todo = <<>>
    /\ pc' = "over"
    /\ UNCHANGED <<run, arg, name, todo, db, file>>

\* The process is killed, or a write raises.
Kill ==
    /\ Running
    /\ pc' = "killed"
    /\ db' = {}
    /\ UNCHANGED <<run, arg, name, todo, file>>

Step == Enroll \/ Open \/ Dump \/ Finish

Next ==
    \/ \E n \in 0 .. MaxArg, u \in UserIds : Start(n, u)
    \/ Step \/ Kill

Spec == Init /\ [][Next]_vars

\* A process that is not killed goes on.
FairSpec == Spec /\ WF_vars(Step)

-----------------------------------------------------------------------------
\* Properties

Whole(f) == f \in DOMAIN file /\ file[f] # Torn
Of(n, u) == {Params, UserFile(u)} \cup {Drone(i) : i \in 0 .. n - 1}

\* Types, and the place main has reached in its files.
TypeOK ==
    /\ run \in 0 .. MaxRuns /\ arg \in 0 .. MaxArg /\ name \in UserIds
    /\ todo \in Seq(Files) /\ (pc \in {"open", "dump"} => todo # <<>>)
    /\ pc \in {"enroll", "open", "dump", "over", "killed"}
    /\ db \subseteq Of(arg, name) /\ DOMAIN file \subseteq Files
    /\ \A f \in DOMAIN file : file[f] \in 0 .. run

\* ra.py:30, "Run this BEFORE server_app.py": whoever finds the user's file of the
\* latest run has the parameters and all drones of that run.
UserFileMeansComplete ==
    \A u \in UserIds :
        LoadJson(UserFile(u)) = {run} /\ run > 0 => u = name /\ \A f \in Of(arg, u) : LoadJson(f) = {run}

\* No credentials are newer than the parameters beside them: those of another
\* run in the directory are all of earlier master keys.
ParamsAreNewest ==
    \A f \in DOMAIN file :
        Whole(f) => Params \in DOMAIN file /\ (Whole(Params) => file[f] <= file[Params])

\* A run that is not killed ends; it has registered all it was asked to, and
\* each of these is in a whole file of this run.
RunsComplete ==
    \A n \in 1 .. MaxRuns :
        run = n ~> \/ pc = "killed" \/ run > n
                   \/ pc = "over" /\ db = Of(arg, name) /\ \A f \in db : LoadJson(f) = {n}
=============================================================================
