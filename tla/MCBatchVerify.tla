---------------------------- MODULE MCBatchVerify ----------------------------
(* Small batches for BatchVerify: every mix of good and faulty responses,   *)
(* and the shorter ones with responses that cannot be read.                 *)
EXTENDS BatchVerify

CONSTANTS MaxLen,    \* the length of batches with any DIDj
          MaxLong,   \* the length of batches that differ in their faults only
          MaxMixed,  \* the length of batches that may be unreadable
          OneDid

Readable == {m \in Mu3 : m.readable}

MCBatches == UNION {[1 .. n -> Readable] : n \in 0 .. MaxLen}
             \cup UNION {[1 .. n -> {m \in Readable : m.did = OneDid}] : n \in 0 .. MaxLong}
             \cup UNION {[1 .. n -> Mu3] : n \in 0 .. MaxMixed}
=============================================================================
