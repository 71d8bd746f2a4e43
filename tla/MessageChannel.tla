--------------------------- MODULE MessageChannel ----------------------------
(***************************************************************************)
(* What protocol_messages.py promises to its callers: messages sent over a *)
(* connection are received whole, once each and in order, until it ends.   *)
(***************************************************************************)
EXTENDS Naturals, Sequences

VARIABLES
    sent,      \* messages given to send_msg
    received,  \* messages returned by recv_msg
    ended      \* has recv_msg raised?

vars == <<sent, received, ended>>

Init == sent = <<>> /\ received = <<>> /\ ended = FALSE

\* One more message of any kind is sent.
Send ==
    /\ Len(sent') = Len(sent) + 1
    /\ SubSeq(sent', 1, Len(sent)) = sent
    /\ UNCHANGED <<received, ended>>

Receive ==
    /\ ~ended
    /\ Len(received) < Len(sent)
    /\ received' = Append(received, sent[Len(received) + 1])
    /\ UNCHANGED <<sent, ended>>

End ==
    /\ ~ended
    /\ ended' = TRUE
    /\ UNCHANGED <<sent, received>>

Next == Send \/ Receive \/ End

Spec == Init /\ [][Next]_vars
=============================================================================
