------------------------------- MODULE Framing -------------------------------
(***************************************************************************)
(* One direction of a TCP connection as protocol_messages.py uses it: a    *)
(* byte stream cut into pieces anywhere, in which each message is a header *)
(* of HEADER_SIZE bytes holding the length of the body that follows.  A    *)
(* byte is known by its position in the stream, a body by its interval.    *)
(***************************************************************************)
EXTENDS Naturals, Sequences

CONSTANTS
    HeaderSize,   \* HEADER_SIZE
    BodySizes,    \* lengths of encoded messages
    MaxMessages,  \* bound: messages sent over the connection
    Window,       \* bytes the connection holds that nobody has read
    Timeouts      \* has the receiver set a timeout on its socket?

\* An encoded message is a JSON object, hence not empty.
ASSUME FramingAssumption ==
    /\ HeaderSize \in Nat \ {0} /\ BodySizes \subseteq Nat \ {0}
    /\ MaxMessages \in Nat /\ Window \in Nat \ {0}
    /\ Timeouts \in BOOLEAN

VARIABLES
    frames,    \* bodies of the frames given to sendall: first byte and length
    written,   \* bytes sendall has passed on
    up,        \* is the sender's end of the connection open?
    read,      \* bytes recv has returned
    phase,     \* what recv_msg is reading, or how it ended
    from,      \* bytes read before the current _recv_exactly
    want,      \* its argument n
    received   \* the bodies recv_msg has decoded

senderVars == <<frames, written, up>>
receiverVars == <<read, phase, from, want, received>>
vars == <<senderVars, receiverVars>>

Frames == [body : Nat, len : BodySizes]
End(f) == f.body + f.len
Given == IF frames = <<>> THEN 0 ELSE End(frames[Len(frames)])

Init ==
    /\ frames = <<>> /\ written = 0 /\ up = TRUE
    /\ read = 0 /\ phase = "header" /\ from = 0 /\ want = HeaderSize
    /\ received = <<>>

-----------------------------------------------------------------------------
(* The sender *)

\* send_msg: sendall of the last message has returned.
SendMsg(len) ==
    /\ up /\ written = Given /\ Len(frames) < MaxMessages
    /\ frames' = Append(frames, [body |-> Given + HeaderSize, len |-> len])
    /\ UNCHANGED <<written, up, receiverVars>>

\* sendall passes bytes on as there is room for them.
Write(k) ==
    /\ up /\ k <= Given - written /\ k <= Window - (written - read)
    /\ written' = written + k
    /\ UNCHANGED <<frames, up, receiverVars>>

\* The sender closes its socket, fails or is killed, be it within a frame.
Close ==
    /\ up /\ up' = FALSE
    /\ UNCHANGED <<frames, written, receiverVars>>

-----------------------------------------------------------------------------
(* The receiver *)

Reading == phase \in {"header", "body"}

\* Fault: recv is asked for any number of bytes.
ChunksBeyond == {k \in 1 .. Window : k <= written - read}

\* Fault: recv waits until it can return everything at once.
ChunksAtOnce == {k \in {want - (read - from)} : k <= written - read}

\* What sock.recv(n - len(buf)) may return.
Chunks == {k \in 1 .. Window : k <= written - read /\ k <= want - (read - from)}

\* Fault: whatever recv returns is taken for all.
FilledByAny == read' > from

\* while len(buf) < n.
Filled == read' >= from + want

\* What the four bytes after position p read as: the length of the body that
\* follows, if they are a header, and otherwise anything.
Unpack(p) ==
    IF \E i \in DOMAIN frames : frames[i].body = p + HeaderSize
    THEN {frames[i].len : i \in {j \in DOMAIN frames : frames[j].body = p + HeaderSize}}
    ELSE BodySizes \cup {0}

RecvSome ==
    /\ Reading
    /\ \E k \in Chunks : read' = read + k
    /\ ~Filled
    /\ UNCHANGED <<senderVars, phase, from, want, received>>

\* The header is there: read the body.  A length of 0 would give the b"" that
\* recv_msg takes for the end of the connection.
RecvHeader ==
    /\ phase = "header"
    /\ \E k \in Chunks : read' = read + k
    /\ Filled
    /\ from' = read'
    /\ \E len \in Unpack(from) :
        /\ want' = len
        /\ phase' = IF len = 0 THEN "closed" ELSE "body"
    /\ UNCHANGED <<senderVars, received>>

\* The body is there: decode it.
RecvBody ==
    /\ phase = "body"
    /\ \E k \in Chunks : read' = read + k
    /\ Filled
    /\ received' = Append(received, [body |-> from, len |-> want])
    /\ from' = read' /\ want' = HeaderSize /\ phase' = "header"
    /\ UNCHANGED senderVars

\* Fault: an empty chunk within a frame is not an end.
RecvEndBetween ==
    /\ phase = "header" /\ read = from
    /\ ~up /\ read = written
    /\ phase' = "closed"
    /\ UNCHANGED <<senderVars, read, from, want, received>>

\* recv returns b"" once the sender has closed and everything is read:
\* ConnectionError, in the middle of a frame or between two.
RecvEnd ==
    /\ Reading
    /\ ~up /\ read = written
    /\ phase' = "closed"
    /\ UNCHANGED <<senderVars, read, from, want, received>>

\* recv raises: a timeout, or a reset that takes unread bytes with it.
RecvRaises ==
    /\ Reading
    /\ (Timeouts /\ read = written) \/ ~up
    /\ phase' = "broken"
    /\ UNCHANGED <<senderVars, read, from, want, received>>

-----------------------------------------------------------------------------

Sendall == \E k \in 1 .. Window : Write(k)
Recv == RecvSome \/ RecvHeader \/ RecvBody \/ RecvEnd

Next ==
    \/ \E len \in BodySizes : SendMsg(len)
    \/ Sendall \/ Close
    \/ Recv \/ RecvRaises

Spec == Init /\ [][Next]_vars

\* sendall and recv return when there is room, or something to read.
FairSpec == Spec /\ WF_vars(Sendall) /\ WF_vars(Recv)

-----------------------------------------------------------------------------
\* Properties

\* Types, and the order of the positions in the stream.
TypeOK ==
    /\ frames \in Seq(Frames) /\ written \in 0 .. Given /\ up \in BOOLEAN
    /\ read \in 0 .. written /\ phase \in {"header", "body", "closed", "broken"}
    /\ from \in 0 .. read /\ want \in Nat /\ received \in Seq(Frames)

\* However the stream was cut, recv_msg has returned exactly the bytes of the
\* first messages sent: none is truncated, merged, skipped or repeated.
FramesIntact ==
    /\ Len(received) <= Len(frames)
    /\ \A i \in DOMAIN received : received[i] = frames[i]

\* protocol_messages.py:161, "Raises ConnectionError if the socket closes
\* mid-read": a message sent completely before an orderly end is not given up.
NothingLostAtTheEnd ==
    phase = "closed" =>
        \A i \in DOMAIN frames : End(frames[i]) <= written => i <= Len(received)

\* The stream implements the channel of whole messages.
Channel == INSTANCE MessageChannel WITH sent <- frames, ended <- ~Reading
ImplementsChannel == Channel!Spec

\* A message sent arrives, however small the window is, unless an end fails.
MessageArrives ==
    \A i \in 1 .. MaxMessages :
        Len(frames) >= i ~> Len(received) >= i \/ ~up \/ phase = "broken"

\* A receiver does not wait for ever for a sender that has gone.
EndIsNoticed == ~up ~> ~Reading
=============================================================================
