---------------------------- MODULE FramingProofs ----------------------------
(***************************************************************************)
(* Framing by a length prefix is right for messages of any sizes, however  *)
(* the stream is cut and whenever it ends.                                 *)
(***************************************************************************)
EXTENDS Framing, TLAPS

\* Frames follow one another in the stream, each after a header of its own.
Ordered ==
    /\ \A i \in DOMAIN frames : End(frames[i]) <= Given
    /\ \A i, j \in DOMAIN frames : i < j => End(frames[i]) + HeaderSize <= frames[j].body
    /\ \A i \in DOMAIN frames :
        frames[i].body = (IF i = 1 THEN 0 ELSE End(frames[i - 1])) + HeaderSize

\* The end of the last message received.
Taken == IF received = <<>> THEN 0 ELSE End(received[Len(received)])

\* What the receiver is reading is the next frame: this is what lets it trust
\* the four bytes it unpacks.
InStep ==
    /\ Reading => read < from + want
    /\ phase = "header" => from = Taken /\ want = HeaderSize
    /\ phase = "body" =>
        /\ Len(received) < Len(frames)
        /\ frames[Len(received) + 1].body = from
        /\ frames[Len(received) + 1].len = want
    /\ phase = "closed" => ~up

IInv == TypeOK /\ Ordered /\ FramesIntact /\ InStep /\ NothingLostAtTheEnd

-----------------------------------------------------------------------------
\* FramingAssumption, as arithmetic uses it.
LEMMA Sizes ==
    /\ HeaderSize \in Nat /\ HeaderSize > 0 /\ 0 \notin BodySizes
    /\ \A n \in BodySizes : n \in Nat /\ n > 0
  <1>1. HeaderSize \in Nat /\ HeaderSize > 0 /\ 0 \notin BodySizes
    BY FramingAssumption DEF FramingAssumption
  <1>2. ASSUME NEW n \in BodySizes PROVE n \in Nat /\ n > 0
    <2>1. n \in Nat /\ n # 0
      BY <1>2, FramingAssumption DEF FramingAssumption
    <2> QED
      BY <2>1
  <1> QED
    BY <1>1, <1>2

LEMMA FrameType ==
    ASSUME NEW f \in Frames
    PROVE  f.body \in Nat /\ f.len \in Nat /\ f.len > 0 /\ End(f) \in Nat
  <1>1. f.body \in Nat /\ f.len \in BodySizes
    BY DEF Frames
  <1>2. f.len \in Nat /\ f.len > 0
    BY <1>1, Sizes
  <1> QED
    BY <1>1, <1>2 DEF End

LEMMA FrameIsItsFields ==
    ASSUME NEW f \in Frames
    PROVE  f = [body |-> f.body, len |-> f.len]
  BY DEF Frames

LEMMA GivenType ==
    ASSUME frames \in Seq(Frames)
    PROVE  Given \in Nat
  <1>1. CASE frames = <<>>
    BY <1>1 DEF Given
  <1>2. CASE frames # <<>>
    <2>1. Len(frames) \in DOMAIN frames /\ frames[Len(frames)] \in Frames
      BY <1>2
    <2> QED
      BY <1>2, <2>1, FrameType DEF Given
  <1> QED
    BY <1>1, <1>2

\* While a header is read, bytes beyond the last message received belong to a
\* frame, and that is the next one.
LEMMA NextFrame ==
    ASSUME IInv, phase = "header", from < written
    PROVE  /\ Len(received) + 1 \in DOMAIN frames
           /\ frames[Len(received) + 1].body = from + HeaderSize
  <1> DEFINE n == Len(received)
  <1>1. n \in Nat /\ n <= Len(frames) /\ from = Taken
    BY DEF IInv, TypeOK, FramesIntact, InStep
  <1>2. n # 0 => received # <<>> /\ received[n] = frames[n] /\ Taken = End(frames[n])
    BY <1>1 DEF IInv, TypeOK, FramesIntact, Taken
  <1>3. n = 0 => Taken = 0 /\ received = <<>>
    BY DEF IInv, TypeOK, Taken
  <1>4. n # Len(frames)
    <2> SUFFICES ASSUME n = Len(frames) PROVE FALSE
      OBVIOUS
    <2>1. CASE n = 0
      <3>1. frames = <<>>
        <4>1. Len(frames) = 0 /\ frames \in Seq(Frames)
          BY <2>1 DEF IInv, TypeOK
        <4> QED
          BY <4>1
      <3>2. Given = 0
        BY <3>1 DEF Given
      <3> QED
        BY <1>1, <1>3, <2>1, <3>2 DEF IInv, TypeOK
    <2>2. CASE n # 0
      <3>1. Given = End(frames[n])
        BY <1>1, <2>2 DEF IInv, TypeOK, Given
      <3> QED
        BY <1>1, <1>2, <2>2, <3>1, GivenType DEF IInv, TypeOK
    <2> QED
      BY <2>1, <2>2
  <1>5. n + 1 \in DOMAIN frames
    BY <1>1, <1>4 DEF IInv, TypeOK
  <1>6. frames[n + 1].body = from + HeaderSize
    <2>1. frames[n + 1].body = (IF n + 1 = 1 THEN 0 ELSE End(frames[n + 1 - 1])) + HeaderSize
      BY <1>5 DEF IInv, Ordered
    <2>2. n + 1 - 1 = n /\ (n + 1 = 1 <=> n = 0)
      BY <1>1
    <2> QED
      BY <1>1, <1>2, <1>3, <2>1, <2>2
  <1> QED
    BY <1>5, <1>6

\* So the four bytes there can only read as its length.
LEMMA HeaderIsReal ==
    ASSUME IInv, phase = "header", from < written, NEW len \in Unpack(from)
    PROVE  len = frames[Len(received) + 1].len
  <1> DEFINE m == Len(received) + 1
  <1>1. m \in DOMAIN frames /\ frames[m].body = from + HeaderSize
    BY NextFrame
  <1>2. PICK j \in DOMAIN frames : frames[j].body = from + HeaderSize /\ len = frames[j].len
    BY <1>1 DEF Unpack
  <1>3. \A i, k \in DOMAIN frames : frames[i].body = frames[k].body => ~(i < k)
    <2> SUFFICES ASSUME NEW i \in DOMAIN frames, NEW k \in DOMAIN frames,
                        frames[i].body = frames[k].body, i < k
                 PROVE FALSE
      OBVIOUS
    <2>1. End(frames[i]) + HeaderSize <= frames[k].body
      BY DEF IInv, Ordered
    <2>2. frames[i] \in Frames /\ frames[k] \in Frames
      BY DEF IInv, TypeOK
    <2> QED
      BY <2>1, <2>2, FrameType, Sizes DEF End
  <1>4. j = m
    <2>1. j \in Nat /\ m \in Nat
      BY <1>1 DEF IInv, TypeOK
    <2> QED
      BY <1>1, <1>2, <1>3, <2>1
  <1> QED
    BY <1>2, <1>4

-----------------------------------------------------------------------------
(* The invariant is inductive: one lemma per action *)

LEMMA InitInv == Init => IInv
  <1> SUFFICES ASSUME Init PROVE IInv
    OBVIOUS
  <1>1. Given = 0 /\ Taken = 0
    BY DEF Init, Given, Taken
  <1>2. TypeOK
    BY <1>1, Sizes DEF Init, TypeOK
  <1>3. Ordered /\ FramesIntact /\ NothingLostAtTheEnd
    BY DEF Init, Ordered, FramesIntact, NothingLostAtTheEnd
  <1>4. InStep
    BY <1>1, Sizes DEF Init, InStep
  <1> QED
    BY <1>2, <1>3, <1>4 DEF IInv

LEMMA SendMsgInv ==
    ASSUME IInv, NEW len \in BodySizes, SendMsg(len)
    PROVE  IInv'
  <1> DEFINE f == [body |-> Given + HeaderSize, len |-> len]
             n == Len(frames)
  <1>1. Given \in Nat /\ f \in Frames /\ End(f) = Given + HeaderSize + len
    BY GivenType, Sizes DEF IInv, TypeOK, Frames, End
  <1>2. /\ frames \in Seq(Frames) /\ frames' = Append(frames, f) /\ n \in Nat
        /\ up /\ up' /\ UNCHANGED <<written, receiverVars>>
    BY DEF IInv, TypeOK, SendMsg
  <1>3. /\ frames' \in Seq(Frames) /\ Len(frames') = n + 1 /\ frames' # <<>>
        /\ DOMAIN frames = 1 .. n /\ DOMAIN frames' = 1 .. n + 1
        /\ frames'[n + 1] = f /\ \A i \in 1 .. n : frames'[i] = frames[i]
    BY <1>1, <1>2
  <1>4. Given' = End(f)
    BY <1>3 DEF Given, End
  <1>5. TypeOK'
    <2>1. written' \in 0 .. Given'
      BY <1>1, <1>2, <1>4, Sizes DEF IInv, TypeOK
    <2> QED
      BY <1>2, <1>3, <2>1 DEF IInv, TypeOK, receiverVars
  <1>6. Ordered'
    <2>1. \A i \in 1 .. n : End(frames[i]) <= Given /\ End(frames[i]) \in Nat
      BY <1>2, <1>3, FrameType DEF IInv, Ordered
    <2>2. \A i \in DOMAIN frames' : End(frames'[i]) <= Given'
      <3> SUFFICES ASSUME NEW i \in 1 .. n + 1 PROVE End(frames'[i]) <= Given'
        BY <1>3 DEF End
      <3>1. CASE i \in 1 .. n
        <4>1. End(frames[i]) <= Given /\ End(frames[i]) \in Nat /\ frames'[i] = frames[i]
          BY <2>1, <3>1, <1>3
        <4> QED
          BY <1>1, <1>4, <4>1, Sizes
      <3>2. CASE i = n + 1
        BY <1>1, <1>3, <1>4, <3>2, Sizes
      <3> QED
        BY <1>2, <3>1, <3>2
    <2>3. \A i, j \in DOMAIN frames' : i < j => End(frames'[i]) + HeaderSize <= frames'[j].body
      <3> SUFFICES ASSUME NEW i \in 1 .. n + 1, NEW j \in 1 .. n + 1, i < j
                   PROVE End(frames'[i]) + HeaderSize <= frames'[j].body
        BY <1>3 DEF End
      <3>1. i \in 1 .. n /\ frames'[i] = frames[i]
        BY <1>2, <1>3
      <3>2. CASE j \in 1 .. n
        BY <1>3, <3>1, <3>2 DEF IInv, Ordered
      <3>3. CASE j = n + 1
        <4>1. frames'[j].body = Given + HeaderSize
          BY <1>3, <3>3
        <4> QED
          BY <1>1, <2>1, <3>1, <4>1, Sizes
      <3> QED
        BY <1>2, <3>2, <3>3
    <2>4. ASSUME NEW i \in DOMAIN frames'
          PROVE  frames'[i].body = (IF i = 1 THEN 0 ELSE End(frames'[i - 1])) + HeaderSize
      <3>1. CASE i \in 1 .. n
        <4>1. frames[i].body = (IF i = 1 THEN 0 ELSE End(frames[i - 1])) + HeaderSize
          BY <1>3, <3>1 DEF IInv, Ordered
        <4>2. i # 1 => i - 1 \in 1 .. n
          BY <1>2, <3>1
        <4> QED
          BY <1>3, <3>1, <4>1, <4>2
      <3>2. CASE i = n + 1
        <4>1. frames'[i].body = Given + HeaderSize
          BY <1>3, <3>2
        <4>2. CASE n = 0
          <5>1. frames = <<>>
            BY <1>2, <4>2
          <5> QED
            BY <3>2, <4>1, <4>2, <5>1 DEF Given
        <4>3. CASE n # 0
          <5>1. frames # <<>> /\ i - 1 = n /\ i # 1 /\ n \in 1 .. n
            BY <1>2, <3>2, <4>3
          <5>2. frames'[i - 1] = frames[n] /\ Given = End(frames[n])
            BY <1>3, <5>1 DEF Given
          <5> QED
            BY <4>1, <5>1, <5>2
        <4> QED
          BY <4>2, <4>3
      <3> QED
        BY <1>2, <1>3, <3>1, <3>2
    <2> QED
      BY <2>2, <2>3, <2>4 DEF Ordered, End
  <1>7. FramesIntact'
    <2>1. received' = received /\ Len(received) \in Nat /\ Len(received) <= n
          /\ DOMAIN received = 1 .. Len(received)
      BY <1>2 DEF IInv, TypeOK, FramesIntact, receiverVars
    <2> QED
      BY <1>2, <1>3, <2>1 DEF IInv, FramesIntact
  <1>8. InStep'
    <2>1. Len(received) \in Nat
      BY DEF IInv, TypeOK
    <2>2. Len(received) < n => Len(received) + 1 \in 1 .. n
      BY <1>2, <2>1
    <2>3. Len(received) < n => frames'[Len(received) + 1] = frames[Len(received) + 1]
      BY <1>3, <2>2
    <2> QED
      BY <1>2, <1>3, <2>1, <2>3 DEF IInv, InStep, Reading, Taken, receiverVars, End
  <1>9. NothingLostAtTheEnd'
    BY <1>2 DEF IInv, InStep, NothingLostAtTheEnd, receiverVars
  <1> QED
    BY <1>5, <1>6, <1>7, <1>8, <1>9 DEF IInv

LEMMA WriteInv ==
    ASSUME IInv, NEW k \in 1 .. Window, Write(k)
    PROVE  IInv'
  <1>1. Given \in Nat /\ Given' = Given /\ k \in Nat /\ written \in Nat /\ k <= Given - written
    BY GivenType, FramingAssumption DEF IInv, TypeOK, Write, Given, End, FramingAssumption
  <1>2. TypeOK'
    BY <1>1 DEF IInv, TypeOK, Write, receiverVars
  <1>3. Ordered' /\ FramesIntact' /\ InStep'
    BY <1>1 DEF IInv, Write, receiverVars, Ordered, FramesIntact, InStep, Reading, Taken, End
  <1>4. NothingLostAtTheEnd'
    BY DEF IInv, Write, receiverVars, InStep, NothingLostAtTheEnd
  <1> QED
    BY <1>2, <1>3, <1>4 DEF IInv

LEMMA CloseInv ==
    ASSUME IInv, Close
    PROVE  IInv'
  BY DEF IInv, Close, receiverVars, TypeOK, Given, End, Ordered, FramesIntact, InStep,
         Reading, Taken, NothingLostAtTheEnd

\* recv adds at most what is missing, of what has been written.
LEMMA RecvBounds ==
    ASSUME IInv, NEW k \in Chunks, read' = read + k
    PROVE  /\ read \in Nat /\ read' \in Nat /\ from < read' /\ from <= read
           /\ read' <= written /\ read' <= from + want
           /\ from \in Nat /\ want \in Nat /\ written \in Nat /\ Given \in Nat
  <1>1. k \in Nat /\ k > 0 /\ k <= written - read /\ k <= want - (read - from)
    BY FramingAssumption DEF Chunks, FramingAssumption
  <1>2. /\ read \in Nat /\ from \in Nat /\ want \in Nat /\ written \in Nat
        /\ from <= read /\ Given \in Nat
    BY GivenType DEF IInv, TypeOK
  <1> QED
    BY <1>1, <1>2

LEMMA RecvSomeInv ==
    ASSUME IInv, RecvSome
    PROVE  IInv'
  <1>1. PICK k \in Chunks : read' = read + k
    BY DEF RecvSome
  <1>2. UNCHANGED <<senderVars, phase, from, want, received>> /\ ~Filled /\ Given' = Given
    BY DEF RecvSome, senderVars, Given, End
  <1>3. TypeOK'
    BY <1>1, <1>2, RecvBounds DEF IInv, TypeOK, senderVars
  <1>4. Ordered' /\ FramesIntact' /\ NothingLostAtTheEnd'
    BY <1>2 DEF IInv, Ordered, FramesIntact, NothingLostAtTheEnd, senderVars, End
  <1>5. InStep'
    <2>1. read' < from' + want'
      BY <1>1, <1>2, RecvBounds DEF Filled
    <2> QED
      BY <1>2, <2>1 DEF IInv, InStep, Reading, Taken, senderVars, End
  <1> QED
    BY <1>3, <1>4, <1>5 DEF IInv

LEMMA RecvHeaderInv ==
    ASSUME IInv, RecvHeader
    PROVE  IInv'
  <1> DEFINE m == Len(received) + 1
  <1>1. PICK k \in Chunks : read' = read + k
    BY DEF RecvHeader
  <1>2. /\ UNCHANGED <<senderVars, received>> /\ Filled /\ Given' = Given
        /\ from' = read' /\ phase = "header"
    BY DEF RecvHeader, senderVars, Given, End
  <1>3. read' = from + HeaderSize /\ from < written
    <2>1. want = HeaderSize
      BY <1>2 DEF IInv, InStep
    <2>2. read' >= from + want
      BY <1>2 DEF Filled
    <2> QED
      BY <1>1, <2>1, <2>2, RecvBounds
  <1>4. m \in DOMAIN frames /\ frames[m].body = from'
    BY <1>2, <1>3, NextFrame
  <1>5. PICK len \in Unpack(from) : want' = len /\ phase' = IF len = 0 THEN "closed" ELSE "body"
    BY DEF RecvHeader
  <1>6. len = frames[m].len
    BY <1>2, <1>3, HeaderIsReal
  <1>7. len \in Nat /\ len > 0
    BY <1>4, <1>6, FrameType DEF IInv, TypeOK
  <1>8. phase' = "body" /\ want' = frames[m].len
    BY <1>5, <1>6, <1>7
  <1>9. TypeOK'
    BY <1>1, <1>2, <1>5, <1>7, <1>8, RecvBounds DEF IInv, TypeOK, senderVars
  <1>10. Ordered' /\ FramesIntact' /\ NothingLostAtTheEnd'
    BY <1>2, <1>8 DEF IInv, Ordered, FramesIntact, NothingLostAtTheEnd, senderVars, End
  <1>11. InStep'
    <2>1. read' < from' + want'
      BY <1>1, <1>2, <1>5, <1>7, RecvBounds
    <2>2. Len(received) < Len(frames)
      BY <1>4 DEF IInv, TypeOK
    <2> QED
      BY <1>2, <1>4, <1>8, <2>1, <2>2 DEF InStep, senderVars
  <1> QED
    BY <1>9, <1>10, <1>11 DEF IInv

LEMMA RecvBodyInv ==
    ASSUME IInv, RecvBody
    PROVE  IInv'
  <1> DEFINE m == Len(received) + 1
             g == [body |-> from, len |-> want]
  <1>1. PICK k \in Chunks : read' = read + k
    BY DEF RecvBody
  <1>2. /\ UNCHANGED senderVars /\ Filled /\ Given' = Given
        /\ from' = read' /\ phase = "body" /\ phase' = "header" /\ want' = HeaderSize
        /\ received' = Append(received, g)
    BY DEF RecvBody, senderVars, Given, End
  <1>3. /\ Len(received) \in Nat /\ m \in DOMAIN frames
        /\ frames[m].body = from /\ frames[m].len = want
    BY <1>2 DEF IInv, TypeOK, InStep
  <1>4. frames[m] = g /\ g \in Frames
    <2>1. frames[m] \in Frames
      BY <1>3 DEF IInv, TypeOK
    <2> QED
      BY <1>3, <2>1, FrameIsItsFields
  <1>5. /\ received' \in Seq(Frames) /\ Len(received') = m /\ received' # <<>>
        /\ received'[m] = g /\ DOMAIN received' = 1 .. m /\ DOMAIN received = 1 .. m - 1
        /\ \A i \in 1 .. m - 1 : received'[i] = received[i]
    BY <1>2, <1>3, <1>4 DEF IInv, TypeOK
  <1>6. read' = from + want
    BY <1>1, <1>2, RecvBounds DEF Filled
  <1>7. TypeOK'
    BY <1>1, <1>2, <1>5, Sizes, RecvBounds DEF IInv, TypeOK, senderVars
  <1>8. Ordered' /\ NothingLostAtTheEnd'
    BY <1>2 DEF IInv, Ordered, NothingLostAtTheEnd, senderVars, End
  <1>9. FramesIntact'
    <2>1. \A i \in 1 .. m : received'[i] = frames[i]
      <3> SUFFICES ASSUME NEW i \in 1 .. m PROVE received'[i] = frames[i]
        OBVIOUS
      <3>1. CASE i = m
        BY <1>4, <1>5, <3>1
      <3>2. CASE i \in 1 .. m - 1
        BY <1>5, <3>2 DEF IInv, FramesIntact
      <3> QED
        BY <1>3, <3>1, <3>2
    <2>2. m <= Len(frames)
      BY <1>3 DEF IInv, TypeOK
    <2> QED
      BY <1>2, <1>5, <2>1, <2>2 DEF FramesIntact, senderVars
  <1>10. InStep'
    <2>1. Taken' = End(g)
      BY <1>5 DEF Taken, End
    <2>2. End(g) = from'
      BY <1>2, <1>6 DEF End
    <2>3. read' < from' + want'
      BY <1>1, <1>2, Sizes, RecvBounds
    <2> QED
      BY <1>2, <2>1, <2>2, <2>3 DEF InStep
  <1> QED
    BY <1>7, <1>8, <1>9, <1>10 DEF IInv

\* At the end of the stream every frame after the last one received is cut off.
LEMMA RecvEndInv ==
    ASSUME IInv, RecvEnd
    PROVE  IInv'
  <1> DEFINE m == Len(received) + 1
  <1>1. /\ UNCHANGED <<senderVars, read, from, want, received>> /\ Given' = Given
        /\ Reading /\ phase' = "closed" /\ read = written /\ ~up
    BY DEF RecvEnd, senderVars, Given, End
  <1>2. TypeOK' /\ Ordered' /\ FramesIntact' /\ InStep'
    BY <1>1 DEF IInv, TypeOK, Ordered, FramesIntact, InStep, Reading, senderVars, End
  <1>3. ASSUME NEW i \in DOMAIN frames, End(frames[i]) <= written, i > Len(received)
        PROVE  FALSE
    <2>1. i \in Nat /\ m \in DOMAIN frames /\ m \in Nat /\ m <= i
      BY <1>3 DEF IInv, TypeOK
    <2>2. frames[m] \in Frames /\ frames[i] \in Frames
      BY <2>1 DEF IInv, TypeOK
    <2>3. End(frames[m]) <= End(frames[i])
      <3>1. m = i => End(frames[m]) = End(frames[i])
        OBVIOUS
      <3>2. m < i => End(frames[m]) + HeaderSize <= frames[i].body
        BY <2>1 DEF IInv, Ordered
      <3> QED
        BY <2>1, <2>2, <3>1, <3>2, FrameType, Sizes DEF End
    <2>4. /\ read < from + want /\ written \in Nat /\ read \in Nat
          /\ from \in Nat /\ want \in Nat /\ from <= read /\ Given \in Nat
      BY <1>1, GivenType DEF IInv, TypeOK, InStep
    <2>5. written < End(frames[m])
      <3>1. CASE phase = "body"
        <4>1. End(frames[m]) = from + want
          BY <3>1 DEF IInv, InStep, End
        <4> QED
          BY <1>1, <2>4, <4>1
      <3>2. CASE phase = "header"
        <4>1. want = HeaderSize
          BY <3>2 DEF IInv, InStep
        <4>2. frames[m].body = from + HeaderSize
          <5>1. CASE from < written
            BY <3>2, <5>1, NextFrame
          <5>2. CASE ~(from < written)
            <6>1. from = written
              BY <1>1, <2>4, <5>2
            <6>2. frames[m].body = (IF m = 1 THEN 0 ELSE End(frames[m - 1])) + HeaderSize
              BY <2>1 DEF IInv, Ordered
            <6>3. Taken = IF m = 1 THEN 0 ELSE End(frames[m - 1])
              <7>1. /\ Len(received) \in Nat /\ received \in Seq(Frames)
                    /\ m - 1 = Len(received) /\ (m = 1 <=> Len(received) = 0)
                BY <2>1 DEF IInv, TypeOK
              <7>2. CASE Len(received) = 0
                BY <7>1, <7>2 DEF Taken
              <7>3. CASE Len(received) # 0
                <8>1. received # <<>> /\ received[Len(received)] = frames[Len(received)]
                  BY <7>1, <7>3 DEF IInv, FramesIntact
                <8> QED
                  BY <7>1, <7>3, <8>1 DEF Taken
              <7> QED
                BY <7>2, <7>3
            <6> QED
              BY <3>2, <6>2, <6>3 DEF IInv, InStep
          <5> QED
            BY <5>1, <5>2
        <4>3. frames[m].len \in Nat
          BY <2>2, FrameType
        <4> QED
          BY <1>1, <2>4, <4>1, <4>2, <4>3, Sizes DEF End
      <3> QED
        BY <1>1, <3>1, <3>2 DEF Reading
    <2> QED
      BY <1>3, <2>2, <2>3, <2>4, <2>5, FrameType
  <1>4. NothingLostAtTheEnd'
    <2>1. \A i \in DOMAIN frames : End(frames[i]) <= written => ~(i > Len(received))
      BY <1>3
    <2>2. Len(received) \in Nat /\ \A i \in DOMAIN frames : i \in Nat
      BY DEF IInv, TypeOK
    <2>3. \A i \in DOMAIN frames : End(frames[i]) <= written => i <= Len(received)
      BY <2>1, <2>2
    <2> QED
      BY <1>1, <2>3 DEF NothingLostAtTheEnd, senderVars, End
  <1> QED
    BY <1>2, <1>4 DEF IInv

LEMMA RecvRaisesInv ==
    ASSUME IInv, RecvRaises
    PROVE  IInv'
  BY DEF IInv, RecvRaises, senderVars, TypeOK, Given, End, Ordered, FramesIntact, InStep,
         Reading, Taken, NothingLostAtTheEnd

LEMMA StutterInv ==
    ASSUME IInv, UNCHANGED vars
    PROVE  IInv'
  BY DEF IInv, vars, senderVars, receiverVars, TypeOK, Given, End, Ordered, FramesIntact,
         InStep, Reading, Taken, NothingLostAtTheEnd

LEMMA StepInv == IInv /\ [Next]_vars => IInv'
  BY SendMsgInv, WriteInv, CloseInv, RecvSomeInv, RecvHeaderInv, RecvBodyInv, RecvEndInv,
     RecvRaisesInv, StutterInv DEF Next, Sendall, Recv

LEMMA Invariance == Spec => []IInv
  BY InitInv, StepInv, PTL DEF Spec

-----------------------------------------------------------------------------
(* Theorems *)

\* recv_msg returns the messages send_msg was given: whole, in order, once.
THEOREM MessagesArriveWhole == Spec => []FramesIntact
  <1>1. IInv => FramesIntact
    BY DEF IInv
  <1> QED
    BY <1>1, Invariance, PTL

\* When the sender has closed, nothing it had sent completely is missing.
THEOREM EndLosesNothing == Spec => []NothingLostAtTheEnd
  <1>1. IInv => NothingLostAtTheEnd
    BY DEF IInv
  <1> QED
    BY <1>1, Invariance, PTL

\* _recv_exactly never takes bytes nobody has sent, nor gives any back.
THEOREM FramingTypes == Spec => []TypeOK
  <1>1. IInv => TypeOK
    BY DEF IInv
  <1> QED
    BY <1>1, Invariance, PTL

\* The byte stream implements the channel of whole messages.
THEOREM FramingRefinement == Spec => ImplementsChannel
  <1>1. Init => Channel!Init
    BY DEF Init, Channel!Init, Reading
  <1>2. IInv /\ [Next]_vars => [Channel!Next]_Channel!vars
    <2> SUFFICES ASSUME IInv, [Next]_vars PROVE [Channel!Next]_Channel!vars
      OBVIOUS
    <2> USE DEF Channel!Next, Channel!vars
    <2>1. ASSUME NEW len \in BodySizes, SendMsg(len) PROVE Channel!Send
      <3>1. frames \in Seq(Frames) /\ [body |-> Given + HeaderSize, len |-> len] \in Frames
        BY GivenType, Sizes DEF IInv, TypeOK, Frames
      <3>2. Len(frames') = Len(frames) + 1 /\ SubSeq(frames', 1, Len(frames)) = frames
        BY <2>1, <3>1 DEF SendMsg
      <3> QED
        BY <2>1, <3>2 DEF SendMsg, Channel!Send, Reading, receiverVars
    <2>2. ASSUME NEW k \in 1 .. Window, Write(k) PROVE UNCHANGED Channel!vars
      BY <2>2 DEF Write, Reading, receiverVars
    <2>3. ASSUME Close PROVE UNCHANGED Channel!vars
      BY <2>3 DEF Close, Reading, receiverVars
    <2>4. ASSUME RecvSome PROVE UNCHANGED Channel!vars
      BY <2>4 DEF RecvSome, Reading, senderVars
    <2>5. ASSUME RecvHeader PROVE [Channel!Next]_Channel!vars
      BY <2>5 DEF RecvHeader, Reading, senderVars, Channel!End
    <2>6. ASSUME RecvBody PROVE Channel!Receive
      <3>1. /\ Len(received) < Len(frames)
            /\ frames[Len(received) + 1].body = from /\ frames[Len(received) + 1].len = want
            /\ Len(received) + 1 \in DOMAIN frames
        BY <2>6 DEF IInv, TypeOK, InStep, RecvBody
      <3>2. frames[Len(received) + 1] = [body |-> from, len |-> want]
        <4>1. frames[Len(received) + 1] \in Frames
          BY <3>1 DEF IInv, TypeOK
        <4> QED
          BY <3>1, <4>1, FrameIsItsFields
      <3> QED
        BY <2>6, <3>1, <3>2 DEF RecvBody, Reading, senderVars, Channel!Receive
    <2>7. ASSUME RecvEnd \/ RecvRaises PROVE Channel!End
      BY <2>7 DEF RecvEnd, RecvRaises, Reading, senderVars, Channel!End
    <2>8. ASSUME UNCHANGED vars PROVE UNCHANGED Channel!vars
      BY <2>8 DEF vars, senderVars, receiverVars, Reading
    <2> QED
      BY <2>1, <2>2, <2>3, <2>4, <2>5, <2>6, <2>7, <2>8 DEF Next, Sendall, Recv
  <1> QED
    BY <1>1, <1>2, Invariance, PTL DEF Spec, Channel!Spec, ImplementsChannel
=============================================================================
