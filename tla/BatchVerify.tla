---------------------------- MODULE BatchVerify -----------------------------
(***************************************************************************)
(* User.batch_verify, User._divide_and_conquer and User.establish_sessions *)
(* (user.py): a batch of mu3 responses is verified with one aggregated     *)
(* Schnorr equation; when it fails the batch is split in halves, depth     *)
(* first and left to right, until the faulty responses are isolated; a     *)
(* session key is then derived for every drone reported valid.             *)
(*                                                                         *)
(* A response is its DIDj, whether its Rj and Kj can be read as points of  *)
(* the curve, and whether its own equation sj.Q = Rj + ej.Kj holds.  The   *)
(* aggregate draws a fresh nonzero weight per response, so it holds when   *)
(* every response is good, fails when exactly one is not, and may do       *)
(* either when several are faulty and WeightsMayCancel.  bytes_to_point    *)
(* raises on what it cannot read, and nobody catches it.                   *)
(***************************************************************************)
EXTENDS Naturals, Sequences, FiniteSets

CONSTANTS DIDs,              \* drone pseudo-identities
          Batches,           \* the batches of responses a user may collect
          WeightsMayCancel   \* may random weights make several errors cancel?

Mu3 == {m \in [did : DIDs, good : BOOLEAN, readable : BOOLEAN] : m.good => m.readable}

ASSUME BatchesAssumption == Batches \subseteq Seq(Mu3)
ASSUME WeightsAssumption == WeightsMayCancel \in BOOLEAN

VARIABLES
    batch,     \* the list of responses under verification
    pc,        \* where batch_verify is
    todo,      \* the slices still to check: the recursion's stack, top first
    valid,     \* positions reported valid (the code appends their did_j)
    invalid,   \* positions reported invalid
    allValid,  \* VerificationResult.all_valid
    checks,    \* counter["checks"]
    sessions   \* the DIDj that got a session key

vars == <<batch, pc, todo, valid, invalid, allValid, checks, sessions>>

Positions == DOMAIN batch
Honest(p) == batch[p].good
Unreadable == \E p \in Positions : ~batch[p].readable

Slice(lo, hi) == [lo |-> lo, hi |-> hi]
Width(s) == s.hi + 1 - s.lo
In(s) == s.lo .. s.hi
Interval(s) == [i \in 1 .. Width(s) |-> s.lo + i - 1]
Whole == Slice(1, Len(batch))

\* Fault: only neighbours are compared, so a slice can pass with one error.
AggregateSkipsLast(s) == \A p \in s.lo .. (s.hi - 1) : Honest(p)

\* _aggregate_holds over a slice: what the equation can come out as.
AggregateMayHold(s) ==
    \/ \A p \in In(s) : Honest(p)
    \/ WeightsMayCancel /\ \E p, q \in In(s) : p # q /\ ~Honest(p) /\ ~Honest(q)

\* Fault: the equation fails on a slice of honest responses.
AggregateFailsAtRandom(s) == TRUE

AggregateMayFail(s) == \E p \in In(s) : ~Honest(p)

-----------------------------------------------------------------------------
Init ==
    /\ batch \in Batches
    /\ pc = "aggregate"
    /\ todo = <<>> /\ valid = <<>> /\ invalid = <<>>
    /\ allValid = FALSE
    /\ checks = 0
    /\ sessions = {}

\* bytes_to_point raises in the first check, which reads every response: the
\* exception goes through batch_verify and authenticate and ends the program.
BatchAborts ==
    /\ pc = "aggregate" /\ Unreadable
    /\ checks' = checks + 1
    /\ pc' = "aborted"
    /\ UNCHANGED <<batch, todo, valid, invalid, allValid, sessions>>

\* The whole batch verifies in one aggregate check (also the empty batch).
BatchPasses ==
    /\ pc = "aggregate" /\ ~Unreadable
    /\ AggregateMayHold(Whole)
    /\ checks' = checks + 1
    /\ valid' = Interval(Whole)
    /\ allValid' = TRUE
    /\ pc' = "verified"
    /\ UNCHANGED <<batch, todo, invalid, sessions>>

\* The first check fails: isolation starts over, on the whole batch again.
BatchFails ==
    /\ pc = "aggregate" /\ ~Unreadable
    /\ AggregateMayFail(Whole)
    /\ checks' = checks + 1
    /\ todo' = <<Whole>>
    /\ pc' = "isolate"
    /\ UNCHANGED <<batch, valid, invalid, allValid, sessions>>

\* One call of _divide_and_conquer: its slice passes.
SlicePasses ==
    /\ pc = "isolate" /\ todo # <<>>
    /\ AggregateMayHold(Head(todo))
    /\ checks' = checks + 1
    /\ valid' = valid \o Interval(Head(todo))
    /\ todo' = Tail(todo)
    /\ UNCHANGED <<batch, pc, invalid, allValid, sessions>>

\* Fault: a failing slice of at most two responses counts as a leaf.
LeafTooWide ==
    /\ pc = "isolate" /\ todo # <<>>
    /\ AggregateMayFail(Head(todo))
    /\ Width(Head(todo)) <= 2
    /\ checks' = checks + 1
    /\ invalid' = invalid \o Interval(Head(todo))
    /\ todo' = Tail(todo)
    /\ UNCHANGED <<batch, pc, valid, allValid, sessions>>

\* Fault: without its return the leaf calls itself, until Python gives up.
LeafRecurses ==
    /\ pc = "isolate" /\ todo # <<>>
    /\ AggregateMayFail(Head(todo))
    /\ Width(Head(todo)) = 1
    /\ pc' = "aborted"
    /\ UNCHANGED <<batch, todo, valid, invalid, allValid, checks, sessions>>

\* ... its slice is a single response and fails.
LeafFails ==
    /\ pc = "isolate" /\ todo # <<>>
    /\ AggregateMayFail(Head(todo))
    /\ Width(Head(todo)) = 1
    /\ checks' = checks + 1
    /\ invalid' = Append(invalid, Head(todo).lo)
    /\ todo' = Tail(todo)
    /\ UNCHANGED <<batch, pc, valid, allValid, sessions>>

\* Faults: the halves share a response; the middle of a pair is taken to be
\* its start; one response is split off at a time.
HalvesOverlap(s) ==
    LET mid == s.lo + Width(s) \div 2
    IN  <<Slice(s.lo, mid), Slice(mid, s.hi)>>

HalvesRoundDown(s) ==
    LET mid == s.lo + (Width(s) - 1) \div 2
    IN  <<Slice(s.lo, mid - 1), Slice(mid, s.hi)>>

SplitOffOne(s) == <<Slice(s.lo, s.lo), Slice(s.lo + 1, s.hi)>>

Halves(s) ==
    LET mid == s.lo + Width(s) \div 2
    IN  <<Slice(s.lo, mid - 1), Slice(mid, s.hi)>>

\* ... its slice is longer and fails: recurse on both halves.
SliceSplits ==
    /\ pc = "isolate" /\ todo # <<>>
    /\ AggregateMayFail(Head(todo))
    /\ Width(Head(todo)) # 1
    /\ checks' = checks + 1
    /\ todo' = Halves(Head(todo)) \o Tail(todo)
    /\ UNCHANGED <<batch, pc, valid, invalid, allValid, sessions>>

\* Fault: isolation stops as soon as one faulty response is found.
StopsAtFirst ==
    /\ pc = "isolate" /\ (todo = <<>> \/ invalid # <<>>)
    /\ pc' = "verified"
    /\ UNCHANGED <<batch, todo, valid, invalid, allValid, checks, sessions>>

IsolationEnds ==
    /\ pc = "isolate" /\ todo = <<>>
    /\ pc' = "verified"
    /\ UNCHANGED <<batch, todo, valid, invalid, allValid, checks, sessions>>

DidsAt(positions) == {batch[positions[i]].did : i \in DOMAIN positions}

\* Fault: keys are derived for the whole batch.
SessionsForAll ==
    /\ pc = "verified"
    /\ sessions' = {batch[p].did : p \in Positions}
    /\ pc' = "done"
    /\ UNCHANGED <<batch, todo, valid, invalid, allValid, checks>>

\* establish_sessions: a key for every response whose DIDj was reported valid.
EstablishSessions ==
    /\ pc = "verified"
    /\ sessions' = {batch[p].did : p \in {q \in Positions : batch[q].did \in DidsAt(valid)}}
    /\ pc' = "done"
    /\ UNCHANGED <<batch, todo, valid, invalid, allValid, checks>>

Next ==
    \/ BatchAborts \/ BatchPasses \/ BatchFails
    \/ SlicePasses \/ LeafFails \/ SliceSplits \/ IsolationEnds
    \/ EstablishSessions

Spec == Init /\ [][Next]_vars
FairSpec == Spec /\ WF_vars(Next)

-----------------------------------------------------------------------------
\* Properties

RangeOf(s) == {s[i] : i \in DOMAIN s}
Faulty == {p \in Positions : ~Honest(p)}
Reported == pc \in {"verified", "done"}

Slices == {s \in [lo : Nat, hi : Nat] : s.lo \in Positions /\ s.hi \in s.lo .. Len(batch)}

\* The types of the variables; every slice on the stack is a non-empty part
\* of the batch, so the guard `if not batch: return` never fires below the top.
TypeOK ==
    /\ batch \in Batches
    /\ pc \in {"aggregate", "isolate", "verified", "done", "aborted"}
    /\ todo \in Seq(Slices)
    /\ valid \in Seq(Positions) /\ invalid \in Seq(Positions)
    /\ allValid \in BOOLEAN
    /\ checks \in Nat
    /\ sessions \subseteq DIDs

Done == Len(valid) + Len(invalid)

\* The stack tiles what is left of the batch: the slices still to check are
\* adjacent, start right after the responses already sorted and end with the batch.
StackTilesTheRest ==
    pc = "isolate" =>
        /\ todo = <<>> => Done = Len(batch)
        /\ todo # <<>> => todo[1].lo = Done + 1 /\ todo[Len(todo)].hi = Len(batch)
        /\ \A i \in 1 .. Len(todo) - 1 : todo[i + 1].lo = todo[i].hi + 1

\* What has been sorted so far is a prefix of the batch, no response twice.
SortedIsPrefix ==
    /\ RangeOf(valid) \cup RangeOf(invalid) = 1 .. Done
    /\ RangeOf(valid) \cap RangeOf(invalid) = {}
    /\ \A i, j \in DOMAIN valid : i < j => valid[i] < valid[j]
    /\ \A i, j \in DOMAIN invalid : i < j => invalid[i] < invalid[j]

\* The verdict of batch_verify loses no response and reports none twice, the
\* recursion over odd and even halves included.
VerdictPartitions == Reported => Done = Len(batch) /\ SortedIsPrefix

\* No honest response is ever reported invalid, whatever the faulty ones in
\* the same batch do to the aggregates it takes part in.
HonestNeverBlamed == \A p \in RangeOf(invalid) : ~Honest(p)

\* A faulty response is isolated, unless the weights of several cancel.
FaultyIsolated ==
    Reported /\ (~WeightsMayCancel \/ \A p, q \in Faulty : p = q)
        => RangeOf(invalid) = Faulty

\* However the weights fall, a batch of n costs at most 2n aggregate checks.
ChecksBounded == checks <= IF batch = <<>> THEN 1 ELSE 2 * Len(batch)

CeilLog2(n) == CHOOSE d \in 0 .. n : 2^d >= n /\ \A e \in 0 .. d - 1 : 2^e < n
NumFaulty == Cardinality(Faulty)

\* The docstring's O(k log N), however the weights fall: k faulty responses cost
\* two checks per level and faulty response, plus two of the whole batch.
ChecksLogarithmic == checks <= 2 + 2 * NumFaulty * CeilLog2(Len(batch))

DistinctDids == \A p, q \in Positions : batch[p].did = batch[q].did => p = q

\* No drone gets both a session key and a place in the list of invalid ones.
\* Verdicts are lists of DIDj, so this needs one response per DIDj.
BlamedGetNoSession == DistinctDids => sessions \cap DidsAt(invalid) = {}

\* Every verification ends: with an exception and not one key if some response
\* cannot be read, else with the keys of the drones reported valid.
Terminates ==
    <>(IF Unreadable THEN pc = "aborted" /\ sessions = {} /\ invalid = <<>>
                     ELSE pc = "done" /\ sessions = DidsAt(valid))

\* The detailed algorithm implements the one-step classification.
Verdict == IF Reported
           THEN <<[valid |-> RangeOf(valid), invalid |-> RangeOf(invalid), allValid |-> allValid]>>
           ELSE <<>>
Abstract == INSTANCE Classification WITH verdict <- Verdict
ImplementsClassification == Abstract!Spec

=============================================================================
