--------------------------- MODULE Classification ---------------------------
(***************************************************************************)
(* What User.batch_verify promises, whatever the order of its checks: one  *)
(* verdict that sorts the responses of a batch into valid and invalid      *)
(* ones.  The implementation is the aggregate check followed by divide and *)
(* conquer of module BatchVerify, which is shown to refine this one.       *)
(***************************************************************************)
EXTENDS Naturals, Sequences

CONSTANTS Batches,           \* the batches of responses a user may collect
          WeightsMayCancel   \* may random weights make several errors cancel?

VARIABLES batch,
          verdict            \* <<>> before the report, then <<the verdict>>

Honest(p) == batch[p].good

\* A faulty response passes only together with another faulty one.
MayPass(p, passed) ==
    \/ Honest(p)
    \/ WeightsMayCancel /\ \E q \in passed \ {p} : ~Honest(q)

Init ==
    /\ batch \in Batches
    /\ verdict = <<>>

Report ==
    /\ verdict = <<>>
    /\ \E passed \in SUBSET DOMAIN batch, all \in BOOLEAN :
          LET failed == DOMAIN batch \ passed IN
          /\ \A p \in passed : MayPass(p, passed)
          /\ \A p \in failed : ~Honest(p)
          /\ all => failed = {}
          /\ ~all => \E p \in DOMAIN batch : ~Honest(p)
          /\ verdict' = <<[valid |-> passed, invalid |-> failed, allValid |-> all]>>
    /\ UNCHANGED batch

Spec == Init /\ [][Report]_<<batch, verdict>>
=============================================================================
