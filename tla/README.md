# SeBAC-IoD: verification project

TLA+ models, TLC runs and TLAPS proofs for the SeBAC-IoD repository (batch
authentication and key agreement between a user, a control server and a fleet of
drones, in Python). Paths below are relative to `src/`.

- [1. The system](#1-the-system)
- [2. Modules and their code](#2-modules-and-their-code)
- [3. What the runs check](#3-what-the-runs-check)
- [4. Bounds, fairness, deadlock](#4-bounds-fairness-deadlock)
- [5. What the runs found](#5-what-the-runs-found)
- [6. What is proved](#6-what-is-proved)
- [7. What is left out, and the plan](#7-what-is-left-out-and-the-plan)

## 1. The system

Three kinds of program talk over TCP. A *drone* enrols with the *control server*
(CS) over port 9000 and then listens on a port of its own. A *user* opens ports
9200 and 9201, enrols on port 9000 and sends mu1 to the CS on port 9001. The CS
verifies mu1, builds one mu2 per drone in its database, pushes each to its
drone, and replies to the user with the list of drones it reached. Each drone
checks its mu2 and sends a signed response, mu3, to the user; two seconds later
it derives a session key and sends encrypted data. The user collects mu3 until
it has as many as the CS listed or 30 s have passed, verifies them in one batch,
isolates faulty ones by divide and conquer, and derives a key per valid drone.

### Inventory

| Component | State | Operations | What makes it correct |
|---|---|---|---|
| `server_app.py` CS process | address book `_drone_auth_addrs` under `_lock`; one daemon thread per connection; a `ControlServer` and its database | `_enroll_drone`, `_enroll_user`, `_process_mu1`, `_send_mu2_to_drone` | each mu2 goes to the drone it was made for, whoever enrols meanwhile; an acknowledged drone is known and reachable; each mu1 is answered |
| `control_server.py`, `database.py` | master key s; dicts `drones`, `dids`, `users`, `pids`, `sessions`, none locked; the CRP store | `enroll_*`, `issue_drone_credentials`, `verify_mu1`, `build_mu2_batch` | a drone's latest record replaces its earlier one in place; whatever threads write the dicts at once, each pseudo-identity in use leads to the record of its owner; a mu1 stays good when the user enrols again |
| `drone_app.py`, `drone.py` | credentials; the session stash `_rj`, `_user_point`, `_pid_u`, one per process; one thread per mu2 | `enroll`, `run_auth_listener`, `_handle_mu2`, `_send_mu3_to_user`, `derive_session_key` | a mu2 made with other credentials is refused; data is encrypted with the key the user has for this session |
| `user_app.py` | `_mu3_batch` under `_mu3_lock`, `num_drones`, Event `_mu3_ready`, `_sessions`; one thread per mu3 and per data message | `enroll`, `authenticate`, `_handle_mu3`, `_handle_secure_data` | the main thread wakes when every listed drone has answered, and not before |
| `user.py` batch verification | the batch, the recursion of `_divide_and_conquer`, `counter["checks"]` | `batch_verify`, `_aggregate_holds`, `establish_sessions` | each response is reported exactly once, unless one cannot be read at all; no honest one as invalid; faulty ones found; the cost is bounded |
| `user.py` credentials | password-masked terms | `begin_enrollment`, `complete_enrollment`, `_local_login`, `build_mu1`, `derive_session_key` | only the right password opens them, and what it yields the CS accepts; user and drone derive one key |
| `socket_main.py` | threads of all the programs above in one process | starts CS, drones, user in that order, waits for their ports, saves the log | each program reaches the peers it means; nobody waits for ever |
| `protocol_messages.py` | none | length-prefixed frames, a tagged JSON encoding of bytes | messages arrive whole, in order, each once, and none that was sent completely is given up |
| `ra.py` | JSON files under `registrations/`, an in-memory CS | `register_drone`, `register_user`, `save_json`, `load_json` | the files in the directory fit together, also after runs that were killed |
| `comm_logger.py` | a global record list, created on first use | `get_comm_logger`, `log_instant`, `save`, `print_summary` | one logger has all records |
| `puf.py` | simulated device secret; `CRPStore` | `evaluate`, `CRPStore.enroll`, `response_verification` | a device answers its enrolled challenge as it did before |
| `crypto.py`, `aes_utils.py`, `utils.py` | none | P-256, SHA-256, AES, byte helpers, `is_fresh` | pure functions |
| `main.py`, `benchmark.py`, `attack_demo.py`, `tests/` | none of the system's own | straight-line use of the classes above | - |

### What is hard

*Threads over shared state.* `_process_mu1` reads the drone table twice without
a lock and zips the two lists, while enrollment threads write it. The threads a
drone starts for two mu2 share one stash. The user's handler threads append
under a lock but compare the count and set the Event outside it, and the main
thread changes the number they compare with. Threads of several enrollments
write the tables of the database and the CRP store, one statement after the
other and without a lock. All threads share a logger that is made when the first
one asks for it.

*Processes that come and go.* Nothing is persisted. A restarted drone has a new
PUF secret, hence a new DIDj and new keys; a restarted CS has a new master key
and knows nobody. Ports are fixed, so a message meant for one process is
delivered to its successor.

*Enrolling again.* Every enrollment draws new values, and earlier ones stay in
indexes, messages and stashes. Two requests of one drone may be handled in
either order. A user that begins an enrollment has overwritten r, salt and UID
before it has the answer.

*Streams and files.* A connection may be cut at any byte and delivers pieces of
any size. `ra.py` overwrites its files in place, one after the other.

*Failure in the middle.* A drone that died after enrolling stays in the database
and must neither stop the batch nor block the reply. A drone that was listed may
reject its mu2.

*The recursion's arithmetic.* Halving odd and tiny slices, several faulty
responses whose errors cancel, drones that answered twice, a response that is
not even a point of the curve.

*Time.* The CS connects to one drone after the other while the user's timeout, the
age of T2 and the sleep of the drones it has reached already run.

`PROJECT.json` lists these hazards one by one, each at the line where it bites
and with the properties that would catch it.

## 2. Modules and their code

    Classification <--implements-- BatchVerify <-- BatchVerifyProofs
                                        ^--------- MCBatchVerify
    Network <-- CSServer --+
            <-- DroneApp --+-- Deployment <------- DeploymentProofs <-- ResponseProofs
            <-- UserApp  --+        ^------------- MCDeployment
    Terms <-- Enrollment <------------------------ EnrollmentProofs
    Fanout <-------------------------------------- FanoutProofs, MCFanout
    MessageChannel <--implements-- Framing <------ FramingProofs
    CommLog <-- Simulation <---------------------- SimulationProofs
    Registration <-------------------------------- RegistrationProofs

**`BatchVerify`** is the algorithm of `User.batch_verify`, `_divide_and_conquer`
and `establish_sessions`. A response is its DIDj, whether its own Schnorr
equation holds, and whether its Rj and Kj are points at all: if not,
`bytes_to_point` raises in the first aggregate check, which reads every response,
and nobody catches it before `main` (`BatchAborts`). The recursion is depth first and left to right, so it is a stack
`todo` of slices: one step is one call of `_divide_and_conquer` - the aggregate
check of the slice and what follows from it (`SlicePasses`, `LeafFails`,
`SliceSplits`). `BatchPasses` and `BatchFails` are the check `batch_verify`
makes first. Responses are named by their position so that two of one drone are
kept apart; the code's lists hold the DIDj at these positions (`DidsAt`), and
`EstablishSessions` goes by DIDj as the code does.

The aggregate equation weights each response with a fresh nonzero 64-bit number.
It certainly holds when all responses are good and certainly fails when exactly
one is bad; with several bad ones the weighted errors may cancel. With
`WeightsMayCancel` both outcomes are allowed in that case (this includes errors
chosen after each other), without it the equation is exact.

**`Classification`** is what `batch_verify` promises, as one step: a partition
of the batch in which everything reported invalid is faulty and a faulty
response passes only together with another faulty one.

**`Network`** is what the programs share. A *process* is `<<d, k>>`, the k-th
start of drone d, or `<<User, u>>`, the u-th run of the user program; its number
stands for everything it draws at random when it starts. So the record
`[id |-> d, inc |-> k]` stands for (IDd, DIDj, Ksd, kj, Kj), and a user number
for (UID, PIDu, sigma_u, x and X). `net` holds frames sent and not yet read.
Every connection is served by its own thread, so any frame may be next; it is
delivered exactly once, or lost when its process dies. `open` has the clients
whose connection the CS has not closed: a client is hung up on when it is no
longer there and no reply is under way (`recv_msg` raises). `listener` has the
process that listens on each port, 0 if connecting is refused.

**`CSServer`**: `drones` is `db.drones.values()` as a sequence, for the order of
a Python dict matters: assigning to an existing key keeps its place (`Put`).
`EnrollDrone`, `RegisterAddress`, `AckDrone` are the three points of
`_enroll_drone` that other threads can see. A thread in `_process_mu1` goes
through `BuildMu2Batch` (first `all_drones()`, inside `build_mu2_batch`),
`SnapshotDrones` (second one), one of `SkipUnaddressed`, `ForwardMu2`,
`ForwardFails` per pair of the zip, and `ReplyToUser`. `RejectMu1` is the error
path of `verify_mu1`. `Restart` is a new process with nothing in memory.

**`DroneApp`**: `StartDrone`, `StoreCredentials`, `BindListener` are `main`;
`EnrollmentFails` its exit when `recv_msg` raises. A thread that serves a mu2
goes `AcceptMu2` (checks Yj, stashes `_user_point`), `StashPid`, `SendMu3`,
`ReadPid`, `ReadPoint` (`derive_session_key`, in the order Python evaluates it),
`SendData`; each is one access to the shared stash or one message. Yj is a hash
over Ksd, so it matches exactly when the record the CS used is this process's
own (`RejectMu2` otherwise). `_rj` is not modelled: nothing reads it back.

**`UserApp`**: `authenticate` is `SendMu1`, `GetBatchReply`, `VerifyBatch`,
`EstablishSessions`; a handler thread is `HandleMu3` (append and count under the
lock) and then `CompareCount`. `VerifyBatch` gives the verdict of module
`BatchVerify` in one step: a response passes iff it was made for this process's
PIDu and X. That takes the weights to be exact, i.e. leaves out an event of
probability 2^-64. `UserGone` is the end of the process, by its own exit, an
exception or a kill.

**`Deployment`** composes the three, and states the properties.

**`Fanout`** is one authentication against the clock, and leaves the threads to
`Deployment`: a handler is one step, the actors are the CS in `_process_mu1`, the
drones, and the user. Each drone is in one condition throughout: it follows the
protocol, it rejects its mu2 (a new process behind an old record), nothing
listens, or its host is silent. The CS is at drone `pos`; `create_connection`
keeps it there (`StartConnecting`) for up to a `RoundTrip`, after which it sends
mu2 (`ContactDrone`) or is refused, and at a silent drone for `ConnectTimeout`
(`GiveUpConnecting`); only after the last does `AnswerUser` send the reply. A
drone that accepts its mu2 connects to the user for up to a round trip (`Dial`),
sends mu3 (`SendMu3`), sleeps for `DataDelay`, connects again (`Awake`) and sends
data (`SendData`). The user waits at most `ReplyTimeout` for
the reply, then `CollectTimeout` for the Event, verifies, and lingers. `Fresh`
is `is_fresh`, on time stamps of whole seconds as `now_ts` makes them. Time
passes (`Tick`) only when nothing is due, so a message takes at most `MaxDelay`,
a connection at most two of them, and a timer goes off on time.

**`MessageChannel`** is what `send_msg` and `recv_msg` promise: messages sent
are received whole, once each and in order, until the connection ends.
**`Framing`** is how they do it. A byte is known by its position in the stream,
a body by its first byte and its length. `Write` passes any number of bytes on as
long as the window has room, one `recv` returns any part of what is there and
was asked for (`Chunks`), and the loop of `_recv_exactly` goes on until it is
`Filled`; `RecvHeader` then unpacks the four bytes at this position - whatever
they are: only a position where a header really is gives a length one can
trust. The sender may `Close` at any byte. `recv` returns `b""` at the end of the
stream (`RecvEnd`), or raises (`RecvRaises`).

**`Enrollment`** is the classes behind the programs, with the values they
compute, as terms of **`Terms`**: a value is the set of its XOR summands, so
that masking and unmasking are the same operation, and a point of the curve is
the set of scalars that Q is multiplied by, so that ECDH comes out the same on
both sides. Each method is one action, `BeginDrone`, `StoreCredentials`;
`BeginUser`, `CompleteUser`; `BuildMu1`, `BuildMu2Batch`, `HandleMu2`,
`VerifyMu3`, except for the two that threads of the server run at once on the
shared tables: `enroll_drone` writes `drones` (`EnrollDrone`), `dids`
(`IndexDrone`) and the CRP store (`StorePair`), `enroll_user` writes `users`
(`EnrollUser`) and `pids` (`IndexUser`), in one step each, and other threads run
in between (`threads` has those under way). Requests and replies lie in `net` and
are handled in any order; a drone may be replaced by a new object at any time,
and the user may enrol again. T1 and T2 are always fresh here, for `Fanout` has
the clock, and are left out of the terms. What `main.py` does in one straight
line is one of these behaviours. Each enrollment takes a fixed number of steps
and each draws its own numbered values, hence the small bounds.

**`CommLog`** is the life of one message in `send_msg` after `sendall`: is there
a logger (`FindsNone`), else make one (`Create`), read the global again
(`TakeLogger`) and append to what was read (`LogToHeld`). The last two are one
step (`LogInstant`) as long as nobody can tell: the logger that is read may be
replaced before the append only while a thread is making one, and only once main
has got its logger does it matter which one a record is in. **`Simulation`** is `socket_main.py`: the main thread, one action per call
that waits for something, and the daemon threads of the programs it starts, each
message with its `CommLog`. A listener thread binds its port when it gets to it
(`Bind`; a drone's waits for `_enrolled` first), and `Open` is what
`wait_for_port` asks.

**`Registration`** is `ra.py`: a run registers the drones in turn and then the
user; `Enroll`, `Open` and `Dump` are the enrollment in memory, `open(path, "w")`
and the write. A file's content is the number of the run it is from - that run's
master key - or `Torn`. A run may be killed at any moment and `ra.py` run again
with other arguments.

Operators commented *Fault* (`PutLast`, `HalvesOverlap`, ...) are plausible
slips in the operator they stand before. No specification uses them; substituted
one at a time they show that each property notices the slip it is meant for.

## 3. What the runs check

| Run (`cfg`) | Instance | Shows |
|---|---|---|
| `batch` (`MCBatchVerify`) | every batch of at most 5 responses over 2 DIDj, of at most 4 with ones that cannot be read, and every pattern of faults in at most 8; weights may cancel; 45,160 states | each response is reported once (`VerdictPartitions`); no honest one is blamed, whatever faulty ones are with it (`HonestNeverBlamed`); a single faulty one is found (`FaultyIsolated`); at most 2n checks (`ChecksBounded`) and at most 2 + 2k·ceil(log2 n) for k faulty ones, the O(k log N) of the docstring with its constant (`ChecksLogarithmic`); no drone both blamed and given a key, if its DIDj occurs once (`BlamedGetNoSession`); it ends with a verdict, unless a response cannot be read (`Terminates`); it implements `Classification` |
| `reenroll` (`MCReenroll`) | 2 drones, each started up to twice and killed at any moment, 1 user; 1,455,302 states up to symmetry | the zipped lists stay aligned (`ZipAligned`) and no drone is sent another's mu2 (`Mu2ReachesItsDrone`); acknowledged drones are known (`AcknowledgedIsKnown`); one response per drone although it restarts (`OneResponsePerDrone`); the Event means that all have answered (`WokenMeansAllAnswered`) |
| `restart` (`MCRestart`) | 2 drones, everyone may die, the CS restarts once, no timeout; 49,516 states | the user never waits for ever for the reply to mu1 (`RequestsAnswered`), and only a restart of the CS makes it fail, never a drone (`FailsOnlyByRestart`); when nobody is killed each drone gets a session (`AllDronesGetSessions`) |
| `overlap` (`MCOverlap`) | 2 user processes in turn, timeouts; 517,799 states | threads of the first session still run in the second and share a drone's stash with its own: still one response per drone *to this mu1* (`OneResponsePerDrone`); a user whose mu1 comes when all of the first one's mu2 have been stashed gets data under its own keys (`SettledKeysAreOwn`) |
| `fanout` (`MCFanout`) | up to 3 drones in any combination of conditions, and 14 of which up to 13 silent ones stand before one that is up; 508,812 states | one silent drone aborts nothing (`OneSilentIsTolerated`); a user that verifies has every response it can get (`VerifiedHasAll`); with all drones up, no data comes before its key (`DataIsRead`); a mu2 is found stale only in a session the user has long aborted: the 120 s never cost a session (`StaleOnlyAfterAbort`) |
| `framing` (`MCFraming`) | 3 messages of 1, 2 or 6 bytes, headers of 4, a window of 5; the sender may close at any byte, the receiver time out; 7,625 states | messages arrive as they were sent (`FramesIntact`); at the end none is missing that was sent completely (`NothingLostAtTheEnd`); every message arrives (`MessageArrives`) and the end is noticed (`EndIsNoticed`); it implements `MessageChannel` |
| `enrollment` (`MCEnrollment`) | 2 drones, 2 drone objects, 2 enrollments of the user, 2 replies, 2 mu1, 2 fan-outs; 311,097 states | whatever threads write at once, indexes, records and the CRP store agree on whom no thread is at work for, and on all who have been answered (`TablesAgree`); the password opens what was stored, and only it (`LoginIsSound`); a mu1 once built stays acceptable (`Mu1Accepted`); a drone is shut out only by a late enrollment of its predecessor (`AcceptedUnlessOvertaken`); both sides derive one key (`KeysAgree`) |
| `simulation` (`MCSimulation`) | 2 drones; 1,049,124 states | the global logger is not replaced any more once the first request and its acknowledgement are logged (`LoggerSettles`); every port has the listener that the others mean (`PortsReachTheirOwners`); the simulation ends (`SimulationEnds`) |
| `registration` (`MCRegistration`) | 3 runs with 0 to 2 drones and 2 user names, killed at any moment; 8,732 states | the file of the user means that all files of its run are there (`UserFileMeansComplete`); no credentials are newer than the parameters beside them (`ParamsAreNewest`); a run that is not killed completes (`RunsComplete`) |
| `lost_wakeup`, `stash_overwritten`, `data_lost` | the smallest instance for each | a statement of the repository that the code does not keep, see section 5 |

Some properties need a word on when they hold.

- `AcknowledgedIsKnown` speaks of a drone's *first* process. When a drone is
  killed while enrolling and started again, the CS threads of both requests run
  at once and the older may write last; the live drone then has a record in the
  CS that is not its own, and rejects every mu2. `AcceptedUnlessOvertaken` says
  that this is the only way a drone with credentials can be shut out: `late` has
  the objects that were enrolled after a newer one of the same drone.
- `WokenMeansAllAnswered` is checked where `--drones` is at least the number of
  drones, as `user_app.py` asks (lines 22-23), and with one user process: with a
  second one, answers to the first are counted too (a remark in section 5).
- A user's data decrypts (`DataDecrypts`) when no thread for another user writes
  the stash; with a late mu2 of an earlier user it fails (finding 2).
  `SettledKeysAreOwn` says from when on it is safe: when the server has answered
  the mu1 of all earlier users and the drones have stashed or refused all mu2
  made for them (`Settled`). Their threads may still sleep, and derive keys and
  send data later; they read the stash and do not write it.
- `OneSilentIsTolerated` is stated for round trips to all drones that fit into
  5 s in all, which is what one silent drone leaves of the user's 15 s;
  `DataIsRead` for round trips to all drones, and one more, within the 2 s of
  the sleep. On a slower network, or with more drones, the first drone's data
  comes before the last drone's mu3 even when every drone is up, and the user
  aborts although one drone only is silent.
- `TablesAgree` does not speak of a drone or a user that a thread is at work for:
  between two of the writes its record is not in the index yet. Two threads for
  one drone may write in different orders; the tables still agree in the end,
  because the index and the store only grow.
- `Terminates` has the verdict for batches that can be read. One response whose Rj
  or Kj is not a point makes `batch_verify` raise, and the user program ends
  without a verdict on the others, though the docstring of `batch_verify` speaks
  of pinpointing invalid drones.
- `FailsOnlyByRestart` holds without timeouts. With them the user also fails
  when two drones are silent (a remark in section 5).
- `LoginIsSound` says exactly when the password opens the stored values: not
  while an enrollment has begun and not completed, since r, salt and UID are
  overwritten first (`user.py:131-133`). The old credentials are then unusable
  though the CS would still accept them; `user_app.py` enrols once.
- `LoggerSettles` leaves open how long the settling takes: the server's thread
  that sends the very first acknowledgement may be held up between its check and
  its assignment for as long as the simulation lasts, and the records of the
  logger it replaces are lost: the first remark of section 5.
- `ParamsAreNewest` allows files of earlier runs beside newer parameters. That is
  the case after every `ra.py` with fewer drones than the last, and these
  credentials are of a master key that no longer exists anywhere.
- `PortsReachTheirOwners` rests on `PortAssumption`: with 101 drones the last one
  would have the user's port 9200.

## 4. Bounds, fairness, deadlock

*Bounds.* `MaxUsers`, `MaxIncarnations` and `MaxRestarts` bound how often each
program is started; no other counter is bounded, since every process sends a
bounded number of frames. Two drones are the least for which the order in the
table and the pairing of the zip mean anything; two incarnations let a drone be
replaced while its old record, mu2 or address is in use; two users let a thread
of the previous session meet the next. In `Framing` a message of 1 byte is shorter
than a header, one of 6 is longer than the window, which cannot even hold a
header and a short body: each of the loops has to go round. In `Enrollment` two of
everything let each old value meet a new one; a mu2 built before a re-enrollment
can arrive after it. In `Simulation` two drones are the least in which the first
one's messages race with those of a second; in `Registration` three runs let one
find the remains of two others. `MaxLen` = 5 reaches odd and even
halves over three levels of recursion and a slice with several faults beside one
with none; `MaxLong` = 8 reaches four levels with every pattern of faults, with
one DIDj, for the recursion does not look at it; `MaxMixed` = 4 puts a response
that cannot be read beside any three others. `Crashes` and `Timeouts` switch two sources of
failure off where a run asks what happens without them: a liveness property
that a timeout would rescue is worth more when it holds without.

*Time.* In the runs of `Fanout` a tick is a fifth of a second and a message takes
at most one, so that a connection takes up to two; three drones, with the round
trip `DataIsRead` has besides, just stay within the 2 s of the sleep. The handlers' own computation is neglected: it is milliseconds where
the shortest timer has seconds. Three drones let two be silent while a third has
answered. The long batches have 14 (`MaxLong`) because 12 drones at 10 s fill the 120 s of T2
and the 13th exceeds it; of the conditions it takes those that make the last
contact as late as possible. One `mu1` is sent and every process starts its
timers once, so `now` is bounded by the model itself.

*Hosts.* `UserHost` and `DroneHost` are equal in all runs: `socket_main.py` and the default arguments run everything on one machine.

*Fairness.* `FairSpec` has weak fairness of each program's own steps (`CSStep`,
`DroneStep(d)`, `UserStep`): an operating system schedules every thread that can
run, sockets deliver, and the sleeps of the code end. Only threads that are
ready to run take these steps, and each program can take a bounded number of
them (frames, threads and starts are bounded), so weak fairness of the program
is as strong as weak fairness of each of its threads. Nothing is assumed about
what the code does not control: starting a program (`StartDrone`, `StartUser`),
`Restart`, `CrashDrone`, and `UserExits`. In `BatchVerify`, `WF(Next)` says the
verification runs on.

In `Framing`, `sendall` and `recv` return when there is room or something to
read. In `Simulation` some thread of the process always runs on: its steps are
finitely many, so each thread gets its turn before the end. In `Registration` a
process that has not been killed goes on.

`AllDronesGetSessions` assumes what `socket_main.py` sets up before it starts
the user, every drone enrolled and listening, and that nobody is killed. It needs no timeout because
timeouts are off in that run; it is not vacuous, for the run has behaviours
that start the user after the drones.

*Deadlock* is not checked: the programs end. So do a connection, a simulation and a
run of `ra.py`. A finished verification, or a
deployment whose user has exited and whose drones have used up their starts, has
no step left, nor has `Fanout` when the user is gone and nobody sends any more; the liveness properties say that they do not stop before.

## 5. What the runs found

1. **A lost wake-up** (`lost_wakeup`). A drone has crashed, so the CS lists one
   drone fewer than `--drones`. The last mu3 is counted against `--drones`
   before the reply arrives; the reply lowers `num_drones` (`user_app.py:234`),
   nobody sets the Event any more, and the user waits its 30 s with all
   responses in hand.
2. **The stash is per drone, not per session** (`stash_overwritten`). A user
   gives up (15 s without a reply) while the CS is still forwarding its mu2, and
   a second user starts. The late mu2 of the first reaches a drone between the
   second's mu2 and its key derivation, overwrites `_user_point` and `_pid_u`,
   and the drone's data is encrypted with a key the second user does not have.
3. **Two seconds are not enough** (`data_lost`). A drone sleeps for 2 s "to give
   user time to verify batch and store SKij" (`drone_app.py:189`). The user may
   first wait 10 s for the CS to give up on a silent drone, or 30 s for a
   listed drone that rejected its mu2 (or for the missing wake-up of finding 1).
   The data of all drones that did right arrives before there is a key and is
   dropped; nothing repeats it. Slow connections to many drones have the same
   effect with every drone up (section 3, `DataIsRead`).

Remarks, on what the models show and no run is spent on:

- *The log may lose its records.* `get_comm_logger` looks at the "global singleton"
  (`comm_logger.py:190`) and sets it without a lock (line 198). The server's thread
  that acknowledges the first enrollment finds none, as does main; main makes one,
  logs, goes on, and the messages of the whole simulation are logged. Then the
  server's thread puts its own in its place, and that is what main saves: "Save
  all records" (`comm_logger.py:143`) saves none of the earlier ones. The statement
  is `SavesAllRecords` in module `Simulation`; TLC refutes it with one drone within
  a second. `LoggerSettles` is what does hold.
- `drone_app.py:85` sends `--user-host` as `auth_host`, so that with drones and
  user on different machines the CS forwards mu2 to the user's machine, where
  `server_app.py:28` says that each drone registers its own address.
- Ports are fixed, so a mu3 made for an earlier user process reaches the next
  one, takes a place in its batch, fails under its X and has its honest drone
  reported invalid.
- Drones are contacted one after the other with 10 s each (`server_app.py:250`)
  before the user is answered; with two silent ones the user's `recv` times out
  after 15 s (`user_app.py:214`) and `main` ends, responses of other drones in
  hand. `user_app.py:241` intends to proceed with what arrived, and does so for
  the second wait only.
- One response that is not a point of the curve makes `batch_verify` raise
  (`crypto.py:184`), and the user gets no session with any drone. Programs of this
  repository do not send one.
- No program loads the files of `ra.py` (`load_json` has no caller), and the
  master key s, without which a server cannot use them, is not among them.
- `batch_verify` checks the whole batch (`user.py:374`) and
  `_divide_and_conquer` checks it again (`user.py:420`), so a single faulty
  response of 16 costs 10 checks, where `tests/test_authentication.py:298` says 9
  and asserts 10; the constant of `ChecksLogarithmic` is the code's.

## 6. What is proved

Every safety invariant, both action properties, `SettledKeysAreOwn` and both
refinements that the passing runs check are theorems, proved by TLAPS in eight modules for every
value of the constants that satisfies the named assumptions:

- `Batches` a set of sequences of responses (`BatchesAssumption`),
  `WeightsMayCancel` a Boolean;
- `Drones` a finite set without `User`, the bounds natural numbers, `Crashes`
  and `Timeouts` Booleans (`NetworkAssumption`), `NumDronesArg` a natural number;
- in `Enrollment` any set of drones, the bounds natural numbers
  (`BoundsAssumption`);
- in `Fanout` any number of drones in any conditions, and connections that are set
  up within the 10 s of `create_connection` (`FanoutAssumption`);
- in `Framing` any sequence of message sizes, any header size and any window
  that are positive;
- in `Simulation` at least one drone and ports that leave room for all of them
  (`NumDronesAssumption`, `PortAssumption`);
- in `Registration` any bounds, and no user with one of the names the other
  files have (`RegistrationAssumption`).

Some theorems have a hypothesis of their own, stated in the theorem:

| Theorem | Hypothesis | Why |
|---|---|---|
| `UserFailsOnlyByRestart` | no timeouts | with them two silent drones make the user fail (section 5) |
| `WokenOnlyByAll` | one user process, told of at least as many drones as there are | what `user_app.py:22-23` asks; a second user counts answers to the first |

Two properties of `Fanout` carry theirs in the property: `OneSilentIsTolerated` that
the round trips to all n drones take less than 5 s, `DataIsRead` that n + 1 round
trips take less than 2 s. Nothing else bounds the number of drones or the delay.

**`BatchVerifyProofs`.** `TypeCorrect`, `VerdictIsPartition`, `NoHonestBlamed`,
`IsolatesFaulty`, `NoSessionForBlamed` and `Refinement` (`Spec =>
Abstract!Spec`) hold for batches of any length. None of these formulas is inductive. The inductive invariant `IInv`
adds

- `StackTilesTheRest`: the slices on the stack are adjacent, start right after
  what has been sorted, and end with the batch. This is what makes the verdict
  complete when the stack is empty, and its preservation by `SliceSplits` is the
  argument that `mid` splits a slice of two or more into two non-empty parts;
- `SortedIsPrefix`: the sorted responses are a prefix, both lists increasing -
  so that appending the slice on top cannot report anything twice;
- `PhaseInv`: in which phase which lists are empty, and that isolation started
  because some response is faulty (needed for `all => failed = {}` in
  `Classification`);
- `ValidExplained`: a faulty response is reported valid only together with
  another one. It is what `IsolatesFaulty` and `MayPass` follow from. The run
  has weights that may cancel; that *several* faulty ones are all found when the
  weights are exact is `IsolatesFaulty` alone.

The lemmas on `Interval`, concatenation and `Halves` carry the arithmetic; a
proof per action shows `IInv` preserved, and `Refinement` maps `BatchPasses` and
`IsolationEnds` to `Report` and all other steps to stutters.

`CostIsBounded`: n responses cost at most 2n aggregate
checks. Each sorted response has paid for two checks and each slice on the stack
for one: `checks <= 2 * sorted + slices` holds initially (after the first check
the stack has one slice), and each step adds one check and either sorts a
response in place of a slice or splits one slice in two. The bound follows
because every slice holds a response of its own, so sorted and slices together
are at most n; this is the second conjunct of the invariant (`Spread`: the k-th
slice on the stack starts at least k - 1 positions after the sorted ones).

`CostIsLogarithmic`: the O(k log N) of the docstring, with its constant. `Credit`
is the set of pairs of a faulty response in a slice on the stack and a level of
this slice (`CeilLog2` of its width is the number of levels). A check takes a slice
off the stack and costs one. Without a fault in it that is all. With one, it
may put back two halves, and then each fault in it has lost a level, for a half
is at least one level lower (`HalvesAreLower`): one credit less pays for the
check and the additional slice, two in all. So `checks + slices + 2 * credits`
never grows (`LogInv`), and initially there are at most k levels' worth of
credits. The provers know nothing of `^`; that `2^n` is the number of subsets of
`1 .. n` (`FS_SUBSET`) gives the little that is needed, and the least exponent
exists because `<` is well-founded (`WFMin`).

**`DeploymentProofs`.** `ZipStaysAligned` and `Mu2IsNotMisrouted`: for any number
of drones, users, process starts, crashes and restarts. The reason is one that
the code nowhere states: a dict keeps the position of a key that is assigned
again, and the deployment never deletes a drone. So any list that was read from
the table agrees, position by position and in the drones' identities, with the
table now (`ReadFrom`), `Put` preserves it (`ReadFromPut`), and two such lists
agree with each other. The invariant has `ReadFrom` for the two lists of every
thread in `_process_mu1`, and that every enrol frame names its own sender. A
restart empties the table and ends all these threads at once.

`TypesAreRight` has, besides the types, the shape of every frame on the wire and
`Ports`: a port belongs to the latest process of its program while that is past
binding it. The proofs of this module and of the next use it throughout.

`AcknowledgedDronesAreKnown`: a thread of `_enroll_drone` has stored the record
before the address and the address before its answer (`AckInv`), and neither is
ever removed but by a restart. Records are of processes that were started, so
that of a drone started once is its own.

`UserFailsOnlyByRestart`: while the server has not been restarted, it knows the
user that sends `mu1` and reports no error, and the user that waits has its
connection open or its answer on the way (`ReplyInv`), so `recv_msg` cannot raise.

**`ResponseProofs`.** `DronesRespondOnce`: the response of a drone to one `mu1`
is a token (`Token`). It passes, in this order, from the request to the thread's
list, to a mu2, to a thread of the drone, to a mu3, and to the batch; as long as
it is at one of these places there is nothing at any later one, and never two of
it. It needs that no list of the server has a drone twice (`ListsDistinct`),
which is what the keys of a dict promise. A step moves the token on or destroys
it (`Shrinks`); crashes and restarts destroy it.

`WokenOnlyByAll`: once the Event is set, the batch is as long as `num_drones`
(`EventInv`). The handlers compare outside the lock, while the main thread may
change the number; but a batch only grows, and the number only falls: the list
the server reports has no drone twice and is therefore not longer than the drones
there are, which `--drones` is not below. With no drone twice in the batch, its
length is the number of drones that have answered.

`SettledUsersGetTheirKeys`: for any number of users. Once all earlier users are
settled, no thread for another user is about to write a drone's stash, nor will
there be one (`Undisturbed`): no mu1 or mu2 of theirs is left, and none comes while
this user is the latest (`NobodyElseStashes`). From this user's own mu2 on the
stash then has its PIDu and X (`StashOf`), for by `Token` one mu1 starts at most
one thread in a drone, and a drone that restarts has lost the thread with the
stash.

**`EnrollmentProofs`.** The invariant traces every value to what it was made of,
in three parts. `DroneInv`: a Drone object is new or has exactly what the server
computed for it, every request and answer belongs to an object that was begun, a
record is that of some object of the drone - the newest enrolled or one that
overtook it - and an index entry leads from an object's DIDj to its drone. Of an
enrolled object the index and the CRP store know, or a thread is still to write
them (`Stored`, `Writers`).
`UserInv`: a PIDu belongs to one UID and is never forgotten, a record is under its
PIDu or a thread is to put it there (`Accounts`), and the user's store
is made from the latest enrollment it completed (`Wallet`). `SessionInv`: an x is
drawn for one mu1 (`Keys`), and every mu2, stash, mu3 and session goes back to a
mu1 (`Stashed`, `BatchFrames`, `Sessions`). `TablesAlwaysAgree` and
`ShutOutOnlyWhenOvertaken` follow from the first, `LoginAlwaysSound` and
`Mu1AlwaysAccepted` from the second, and `KeysAlwaysAgree` from the third with the
one law of the curve, a.(b.Q) = b.(a.Q). That terms with different arguments
differ is a fact about tuples of different length or content.

**`FanoutProofs`.** Time is part of the state, so the invariant is a timetable.
`CourseInv`: no message is overdue, the user is answered once and after all
drones have been tried, and with at most one silent drone the server gets to the
p-th one no later than p - 1 round trips, and the 10 s if the silent one is among
them, after mu1 (`Punctual`, `Reached`); hence `SilenceTolerated`. `CollectInv`: the response of every drone that does right is
counted or still to come (`AllComing`), and all that is to come is due before the
30 s end (`Deadlines`); a user that is told fewer drones than it counted on still
waits for at least as many as do right (`Counted`). `VerifiedAlwaysHasAll` and
`StaleOnlyWhenAborted` are part of it. `DataInv`: when every drone is up, the
server contacts the last one n - 1 round trips after the first at the latest
(`LastAt`), each response is there a message, a connection and a message later
(`Swift`), and no data arrives until 2 s and a connection have passed after the
first response was sent (`Dispatch`).

**`FramingProofs`.** However the stream is cut into pieces, and whenever the
connection ends: `MessagesArriveWhole`, `EndLosesNothing`, and
`FramingRefinement`, by which framing implements the channel of whole messages.
The invariant has the counters in their order (bytes written, delivered and
read), and `InStep`: what the receiver reads next is the next frame, and how far
it is in this frame follows from the number of bytes it has read. Without it the
four bytes that `RecvHeader` unpacks could lie anywhere in the stream.

**`SimulationProofs`.** `PortsAreOwned`: however many drones there are, as long
as the ports leave room, `wait_for_port` is satisfied only by the listener it
waits for. Whoever is bound to a port has bound its own (`BoundRight`), and no
two listeners want the same one (`PortInjective`), so that a port which is open
is the right one; main has waited for each before it goes on, and nobody ever
unbinds.
`LoggerIsSettled`: as long as there is no logger, main waits for its first request
to be logged, and nothing but this request and its acknowledgement has been sent
(`Early`); so only these two can be making one (`Creators`), and only who is making
one replaces it (`OnlyCreateReplaces`). Who has read a logger holds one that exists
(`Holders`).

**`RegistrationProofs`.** `UserFileComesLast` and `ParamsComeFirst`, for any
number of runs with any arguments, killed anywhere. While a run goes on, the
files it has saved are the beginning of its agenda and those it has not yet
saved are not of this run (`Place`, `Saved`); the user's file, being the last,
means all of them, the parameters, being the first, are there before any other.
Nothing else has this run's number (`Latest`). What held when a process ended
holds until the next one starts (`LeftComplete`), whose number no file has.

*Only model-checked*: liveness under fairness, which is outside what TLAPS proves
here: `Terminates`, `AllDronesGetSessions`, `RequestsAnswered`, `MessageArrives`,
`EndIsNoticed`, `SimulationEnds`, `RunsComplete`. The three runs that expect a
violation are counterexamples of small instances and need no proof.

## 7. What is left out, and the plan

Not modelled, and not planned: how `crypto.py` computes on the curve and hashes
and how `aes_utils.py` encrypts (`Terms` has the algebra the protocol uses, with
hashes that do not collide); the JSON text of a value (`_encode_value`,
`_decode_value`), a pure conversion; the `sessions` table of `database.py`, which
no program uses; `log_send` and `log_recv` of `comm_logger.py`, which have
no caller in these programs, and the layout of what it prints; `lookup` and
`response_verification` of `CRPStore`, which only the tests call; logging,
banners, argument parsing; `benchmark.py`, `attack_demo.py` and the tests, which
have no state of the system.

Simplifications of what is modelled:

- `Deployment` is untimed: a timeout may expire at any moment when `Timeouts`,
  never otherwise, and `is_fresh` always holds. `Fanout` has the clock, for one
  session and without the threads; clocks of different hosts are taken to agree;
- CS is up when a client connects (`Restart` is atomic); port probes of
  `wait_for_port` connect and send nothing, which the servers ignore;
- a frame is read whole or lost in `Network`, which `Framing` justifies; `MSG_ERROR`
  from unknown message types cannot arise between these programs;
- user processes run in turn, for two on one host could not both bind 9200;
- `Enrollment` takes each method as one step but for the writes of `enroll_drone`
  and `enroll_user`: a Drone or a User belongs to one thread there (the stash that
  threads share is in `Deployment`), and `verify_mu1` reads the index and then a
  record whose UID, all it uses, no other thread changes. T1 and T2 are fresh;
- in `Fanout` each connection takes at most a round trip, also one that is refused,
  unless the host is silent; the CS reads mu1 as soon as it is there;
- `Simulation` has no timeouts, crashes or rejections, and of each message only
  how far it is logged; the read of the global and the append are two steps only
  where it shows (`ReadApart`);
- one `ra.py` runs at a time.

What remains, in order:

1. `Fanout` with a network that drops packets, so that a host that is up may take
   more than a round trip to accept.
2. `WokenOnlyByAll` for several users, with an invariant that tells the answers
   to each `mu1` apart, to see how much of it survives.
3. The safety halves of the liveness properties: that an unfinished `Framing`,
   `Registration` or `BatchVerify` always has a step, as a state predicate
   without ENABLED, and a measure that every step lowers.
