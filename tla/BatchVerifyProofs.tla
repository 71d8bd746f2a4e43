-------------------------- MODULE BatchVerifyProofs --------------------------
(***************************************************************************)
(* Proofs about BatchVerify, for every set of batches: the verdict sorts   *)
(* each response exactly once, blames no honest response and implements    *)
(* the one-step Classification; what it costs is bounded.                  *)
(***************************************************************************)
EXTENDS BatchVerify, SequenceTheorems, FiniteSetTheorems, FunctionTheorems,
        WellFoundedInduction, TLAPS

\* A response passes if it is honest, or together with another faulty one.
ValidExplained ==
    \A p \in RangeOf(valid) :
        Honest(p) \/ (WeightsMayCancel /\ \E q \in RangeOf(valid) \ {p} : ~Honest(q))

\* What each phase of batch_verify knows.
PhaseInv ==
    /\ pc = "aggregate" => valid = <<>> /\ invalid = <<>> /\ ~allValid
    /\ pc = "isolate" => AggregateMayFail(Whole) /\ ~allValid
    /\ pc = "aborted" => valid = <<>> /\ invalid = <<>>
    /\ Reported => /\ Done = Len(batch)
                   /\ allValid => invalid = <<>>
                   /\ ~allValid => AggregateMayFail(Whole)

\* The inductive invariant.
IInv ==
    /\ TypeOK
    /\ PhaseInv
    /\ StackTilesTheRest
    /\ SortedIsPrefix
    /\ HonestNeverBlamed
    /\ ValidExplained

-----------------------------------------------------------------------------
(* Sequences of positions *)

LEMMA BatchSeq ==
    ASSUME batch \in Batches
    PROVE  /\ batch \in Seq(Mu3) /\ Len(batch) \in Nat
           /\ Positions = 1 .. Len(batch)
  BY BatchesAssumption, LenProperties DEF Positions

\* Interval lists the positions of a slice in increasing order.
LEMMA IntervalProperties ==
    ASSUME NEW n \in Nat, NEW s \in [lo : Nat, hi : Nat],
           1 <= s.lo, s.lo <= s.hi + 1, s.hi <= n
    PROVE  /\ Interval(s) \in Seq(1 .. n)
           /\ Len(Interval(s)) = Width(s)
           /\ Width(s) \in Nat
           /\ \A i \in 1 .. Width(s) : Interval(s)[i] = s.lo + i - 1
           /\ RangeOf(Interval(s)) = In(s)
<1>1. Width(s) \in Nat
  BY DEF Width
<1>2. \A i \in 1 .. Width(s) : s.lo + i - 1 \in 1 .. n
  BY DEF Width
<1>3. Interval(s) \in Seq(1 .. n) /\ Len(Interval(s)) = Width(s)
  BY <1>1, <1>2 DEF Interval
<1>4. \A i \in 1 .. Width(s) : Interval(s)[i] = s.lo + i - 1
  BY DEF Interval
<1>5. DOMAIN Interval(s) = 1 .. Width(s)
  BY DEF Interval
<1>6. \A p \in In(s) : p - s.lo + 1 \in 1 .. Width(s) /\ Interval(s)[p - s.lo + 1] = p
  BY <1>4 DEF In, Width
<1>7. \A i \in 1 .. Width(s) : Interval(s)[i] \in In(s)
  BY <1>4 DEF In, Width
<1>8. RangeOf(Interval(s)) = In(s)
  BY <1>5, <1>6, <1>7 DEF RangeOf
<1> QED
  BY <1>1, <1>3, <1>4, <1>8

\* The range of a concatenation.
LEMMA RangeOfConcat ==
    ASSUME NEW S, NEW s \in Seq(S), NEW t \in Seq(S)
    PROVE  RangeOf(s \o t) = RangeOf(s) \cup RangeOf(t)
<1>1. /\ Len(s) \in Nat /\ Len(t) \in Nat
      /\ DOMAIN s = 1 .. Len(s) /\ DOMAIN t = 1 .. Len(t)
  BY LenProperties
<1>2. /\ s \o t \in Seq(S) /\ Len(s \o t) = Len(s) + Len(t)
      /\ \A i \in 1 .. Len(s) + Len(t) :
            (s \o t)[i] = IF i <= Len(s) THEN s[i] ELSE t[i - Len(s)]
  BY ConcatProperties
<1>3. DOMAIN (s \o t) = 1 .. Len(s) + Len(t)
  BY <1>2, LenProperties
<1>4. \A i \in 1 .. Len(s) : (s \o t)[i] = s[i] /\ i \in 1 .. Len(s) + Len(t)
  BY <1>1, <1>2
<1>5. \A j \in 1 .. Len(t) : /\ (s \o t)[Len(s) + j] = t[j]
                             /\ Len(s) + j \in 1 .. Len(s) + Len(t)
  BY <1>1, <1>2
<1>6. \A i \in 1 .. Len(s) + Len(t) :
         \/ i \in 1 .. Len(s)
         \/ i - Len(s) \in 1 .. Len(t) /\ (s \o t)[i] = t[i - Len(s)]
  BY <1>1, <1>2
<1>7. ASSUME NEW x \in RangeOf(s \o t) PROVE x \in RangeOf(s) \cup RangeOf(t)
  <2>1. PICK i \in 1 .. Len(s) + Len(t) : x = (s \o t)[i]
    BY <1>3 DEF RangeOf
  <2> QED
    BY <1>1, <1>4, <1>6, <2>1 DEF RangeOf
<1>8. RangeOf(s) \subseteq RangeOf(s \o t)
  BY <1>1, <1>3, <1>4 DEF RangeOf
<1>9. RangeOf(t) \subseteq RangeOf(s \o t)
  BY <1>1, <1>3, <1>5 DEF RangeOf
<1> QED
  BY <1>7, <1>8, <1>9

\* Appending one position.
LEMMA RangeOfAppend ==
    ASSUME NEW S, NEW s \in Seq(S), NEW e \in S
    PROVE  /\ Append(s, e) \in Seq(S) /\ Len(Append(s, e)) = Len(s) + 1
           /\ RangeOf(Append(s, e)) = RangeOf(s) \cup {e}
<1>1. Append(s, e) = s \o <<e>>
  BY AppendIsConcat
<1>2. <<e>> \in Seq(S) /\ Len(<<e>>) = 1 /\ RangeOf(<<e>>) = {e}
  BY DEF RangeOf
<1>3. RangeOf(s \o <<e>>) = RangeOf(s) \cup {e}
  BY <1>2, RangeOfConcat
<1>4. s \o <<e>> \in Seq(S) /\ Len(s \o <<e>>) = Len(s) + 1
  BY <1>2, ConcatProperties
<1> QED
  BY <1>1, <1>3, <1>4

\* A strictly increasing sequence of positions stays so when larger ones follow.
Increasing(s) == \A i, j \in DOMAIN s : i < j => s[i] < s[j]

LEMMA IncreasingConcat ==
    ASSUME NEW s \in Seq(Nat), NEW t \in Seq(Nat), Increasing(s), Increasing(t),
           \A p \in RangeOf(s), q \in RangeOf(t) : p < q
    PROVE  Increasing(s \o t)
<1>1. /\ Len(s) \in Nat /\ Len(t) \in Nat
      /\ DOMAIN s = 1 .. Len(s) /\ DOMAIN t = 1 .. Len(t)
  BY LenProperties
<1>2. /\ s \o t \in Seq(Nat) /\ Len(s \o t) = Len(s) + Len(t)
      /\ \A i \in 1 .. Len(s) + Len(t) :
            (s \o t)[i] = IF i <= Len(s) THEN s[i] ELSE t[i - Len(s)]
  BY ConcatProperties
<1>3. DOMAIN (s \o t) = 1 .. Len(s) + Len(t)
  BY <1>2, LenProperties
<1> SUFFICES ASSUME NEW i \in 1 .. Len(s) + Len(t), NEW j \in 1 .. Len(s) + Len(t), i < j
             PROVE  (s \o t)[i] < (s \o t)[j]
  BY <1>3 DEF Increasing
<1>4. CASE j <= Len(s)
  <2>1. i \in DOMAIN s /\ j \in DOMAIN s
    BY <1>1, <1>4
  <2>2. s[i] < s[j]
    BY <2>1 DEF Increasing
  <2> QED
    BY <1>1, <1>2, <1>4, <2>2
<1>5. CASE i <= Len(s) /\ j > Len(s)
  <2>1. i \in DOMAIN s /\ j - Len(s) \in DOMAIN t
    BY <1>1, <1>5
  <2>2. s[i] \in RangeOf(s) /\ t[j - Len(s)] \in RangeOf(t)
    BY <2>1 DEF RangeOf
  <2> QED
    BY <1>1, <1>2, <1>5, <2>2
<1>6. CASE i > Len(s)
  <2>1. i - Len(s) \in DOMAIN t /\ j - Len(s) \in DOMAIN t /\ i - Len(s) < j - Len(s)
    BY <1>1, <1>6
  <2>2. t[i - Len(s)] < t[j - Len(s)]
    BY <2>1 DEF Increasing
  <2>3. (s \o t)[i] = t[i - Len(s)] /\ (s \o t)[j] = t[j - Len(s)]
    BY <1>1, <1>2, <1>6
  <2> QED
    BY <2>2, <2>3
<1> QED
  BY <1>1, <1>4, <1>5, <1>6

-----------------------------------------------------------------------------
(* The steps of the algorithm *)

\* The slice on top of the stack starts where the sorted prefix ends.
LEMMA TopOfStack ==
    ASSUME IInv, pc = "isolate", todo # <<>>
    PROVE  /\ Head(todo) \in Slices /\ Head(todo) = todo[1]
           /\ Head(todo).lo = Done + 1 /\ Head(todo).hi \in Head(todo).lo .. Len(batch)
           /\ Done \in Nat /\ Len(batch) \in Nat
           /\ Len(todo) \in Nat \ {0} /\ Len(Tail(todo)) = Len(todo) - 1
           /\ Tail(todo) \in Seq(Slices)
           /\ \A i \in 1 .. Len(Tail(todo)) : Tail(todo)[i] = todo[i + 1]
           /\ Tail(todo) = <<>> => Head(todo).hi = Len(batch) /\ Len(todo) = 1
           /\ Tail(todo) # <<>> => /\ Len(todo) > 1
                                   /\ Tail(todo)[1].lo = Head(todo).hi + 1
                                   /\ Tail(todo)[Len(Tail(todo))].hi = Len(batch)
<1>1. todo \in Seq(Slices) /\ valid \in Seq(Positions) /\ invalid \in Seq(Positions)
  BY DEF IInv, TypeOK
<1>2. Len(batch) \in Nat
  BY BatchSeq DEF IInv, TypeOK
<1>3. Done \in Nat
  BY <1>1, LenProperties DEF Done
<1>4. /\ Len(todo) \in Nat \ {0} /\ Len(Tail(todo)) = Len(todo) - 1
      /\ Head(todo) \in Slices /\ Head(todo) = todo[1] /\ Tail(todo) \in Seq(Slices)
      /\ \A i \in 1 .. Len(Tail(todo)) : Tail(todo)[i] = todo[i + 1]
  BY <1>1, HeadTailProperties, EmptySeq
<1>5. /\ todo[1].lo = Done + 1 /\ todo[Len(todo)].hi = Len(batch)
      /\ \A i \in 1 .. Len(todo) - 1 : todo[i + 1].lo = todo[i].hi + 1
  BY DEF IInv, StackTilesTheRest
<1>6. Head(todo).hi \in Head(todo).lo .. Len(batch)
  BY <1>4 DEF Slices
<1>7. Tail(todo) = <<>> => Len(todo) = 1
  <2>1. Tail(todo) = <<>> => Len(Tail(todo)) = 0
    BY EmptySeq
  <2> QED
    BY <1>4, <2>1
<1>8. ASSUME Tail(todo) # <<>>
      PROVE  /\ Len(todo) > 1
             /\ Tail(todo)[1].lo = Head(todo).hi + 1
             /\ Tail(todo)[Len(Tail(todo))].hi = Len(batch)
  <2>1. Len(Tail(todo)) \in Nat \ {0}
    BY <1>4, <1>8, EmptySeq
  <2>2. Len(todo) > 1
    BY <1>4, <2>1
  <2>3. Tail(todo)[1] = todo[2] /\ todo[2].lo = todo[1].hi + 1
    BY <1>4, <1>5, <2>1, <2>2
  <2>4. Tail(todo)[Len(todo) - 1] = todo[Len(todo)]
    BY <1>4, <2>1
  <2> QED
    BY <1>4, <1>5, <2>2, <2>3, <2>4
<1> QED
  BY <1>2, <1>3, <1>4, <1>5, <1>6, <1>7, <1>8

\* A slice of two or more responses splits into two adjacent non-empty halves.
LEMMA HalvesProperties ==
    ASSUME batch \in Batches, NEW s \in Slices, Width(s) # 1
    PROVE  /\ Halves(s) \in Seq(Slices) /\ Len(Halves(s)) = 2
           /\ Halves(s)[1].lo = s.lo /\ Halves(s)[2].hi = s.hi
           /\ Halves(s)[2].lo = Halves(s)[1].hi + 1
<1> DEFINE mid == s.lo + Width(s) \div 2
<1>1. /\ s.lo \in Nat /\ s.hi \in Nat /\ 1 <= s.lo /\ s.lo <= s.hi /\ s.hi <= Len(batch)
      /\ Len(batch) \in Nat /\ Positions = 1 .. Len(batch)
  BY BatchSeq DEF Slices
<1>2. Width(s) \in Nat /\ Width(s) >= 2
  BY <1>1 DEF Width
<1>3. Width(s) \div 2 \in Nat /\ Width(s) \div 2 >= 1 /\ Width(s) \div 2 < Width(s)
  BY <1>2
<1>4. mid \in Nat /\ s.lo < mid /\ mid <= s.hi
  BY <1>1, <1>3 DEF Width
<1> HIDE DEF mid
<1>5. Slice(s.lo, mid - 1) \in Slices /\ Slice(mid, s.hi) \in Slices
  BY <1>1, <1>4 DEF Slices, Slice
<1>6. Halves(s) = <<Slice(s.lo, mid - 1), Slice(mid, s.hi)>>
  BY DEF Halves, mid
<1> QED
  BY <1>1, <1>4, <1>5, <1>6 DEF Slice

-----------------------------------------------------------------------------
(* The invariant is inductive *)

LEMMA InitIInv == Init => IInv
<1> SUFFICES ASSUME Init PROVE IInv
  OBVIOUS
<1>1. batch \in Batches /\ pc = "aggregate" /\ todo = <<>> /\ valid = <<>> /\ invalid = <<>>
      /\ allValid = FALSE /\ checks = 0 /\ sessions = {}
  BY DEF Init
<1>2. TypeOK
  BY <1>1, EmptySeq DEF TypeOK
<1>3. PhaseInv /\ StackTilesTheRest
  BY <1>1 DEF PhaseInv, StackTilesTheRest, Reported
<1>4. DOMAIN valid = {} /\ DOMAIN invalid = {} /\ Done = 0
  BY <1>1 DEF Done
<1>5. SortedIsPrefix /\ HonestNeverBlamed /\ ValidExplained
  BY <1>4 DEF SortedIsPrefix, HonestNeverBlamed, ValidExplained, RangeOf
<1> QED
  BY <1>2, <1>3, <1>5 DEF IInv

\* valid grows by a slice that starts where the sorted prefix ends.
LEMMA SortedGrowsValid ==
    ASSUME IInv, NEW s \in [lo : Nat, hi : Nat],
           s.lo = Done + 1, s.lo <= s.hi + 1, s.hi <= Len(batch),
           valid' = valid \o Interval(s), invalid' = invalid, batch' = batch
    PROVE  /\ valid' \in Seq(Positions) /\ Done' = s.hi
           /\ RangeOf(valid)' = RangeOf(valid) \cup In(s)
           /\ SortedIsPrefix'
<1>1. /\ Len(batch) \in Nat /\ Positions = 1 .. Len(batch)
      /\ valid \in Seq(Positions) /\ invalid \in Seq(Positions)
  BY BatchSeq DEF IInv, TypeOK
<1>2. Done \in Nat /\ Len(valid) \in Nat /\ Len(invalid) \in Nat
      /\ DOMAIN valid = 1 .. Len(valid) /\ DOMAIN invalid = 1 .. Len(invalid)
  BY <1>1, LenProperties DEF Done
<1>3. /\ Interval(s) \in Seq(Positions) /\ Len(Interval(s)) = Width(s)
      /\ \A i \in 1 .. Width(s) : Interval(s)[i] = s.lo + i - 1
      /\ RangeOf(Interval(s)) = In(s)
      /\ Width(s) \in Nat /\ DOMAIN Interval(s) = 1 .. Width(s)
  <2>1. 1 <= s.lo
    BY <1>2
  <2>2. DOMAIN Interval(s) = 1 .. Width(s)
    BY DEF Interval
  <2> QED
    BY <1>1, <2>1, <2>2, IntervalProperties
<1>4. valid' \in Seq(Positions) /\ Len(valid') = Len(valid) + Width(s)
  <2>1. \A p, q \in Seq(Positions) : p \o q \in Seq(Positions) /\ Len(p \o q) = Len(p) + Len(q)
    BY ConcatProperties
  <2>2. /\ valid \o Interval(s) \in Seq(Positions)
        /\ Len(valid \o Interval(s)) = Len(valid) + Len(Interval(s))
    BY <1>1, <1>3, <2>1
  <2> QED
    BY <1>3, <2>2
<1>5. Done' = s.hi
  BY <1>2, <1>4 DEF Done, Width
<1>6. RangeOf(valid)' = RangeOf(valid) \cup In(s)
  <2>1. RangeOf(valid \o Interval(s)) = RangeOf(valid) \cup RangeOf(Interval(s))
    BY <1>1, <1>3, RangeOfConcat
  <2> QED
    BY <1>3, <2>1 DEF RangeOf
<1>7. /\ RangeOf(valid) \cup RangeOf(invalid) = 1 .. Done
      /\ RangeOf(valid) \cap RangeOf(invalid) = {}
      /\ Increasing(valid) /\ Increasing(invalid)
  BY DEF IInv, SortedIsPrefix, Increasing
<1>8. RangeOf(invalid)' = RangeOf(invalid)
  BY DEF RangeOf
<1>9. RangeOf(valid)' \cup RangeOf(invalid)' = 1 .. Done'
  <2>1. 1 .. s.hi = (1 .. Done) \cup In(s)
    BY <1>2 DEF In
  <2> QED
    BY <1>5, <1>6, <1>7, <1>8, <2>1
<1>10. RangeOf(valid)' \cap RangeOf(invalid)' = {}
  <2>1. (1 .. Done) \cap In(s) = {}
    BY <1>2 DEF In
  <2>2. RangeOf(invalid) \subseteq 1 .. Done
    BY <1>7
  <2> QED
    BY <1>6, <1>7, <1>8, <2>1, <2>2
<1>11. Increasing(valid \o Interval(s))
  <2>1. valid \in Seq(Nat) /\ Interval(s) \in Seq(Nat)
    BY <1>1, <1>3
  <2>2. Increasing(Interval(s))
    BY <1>3 DEF Increasing
  <2>3. \A p \in RangeOf(valid), q \in RangeOf(Interval(s)) : p < q
    BY <1>2, <1>3, <1>7 DEF In
  <2> QED
    BY <1>7, <2>1, <2>2, <2>3, IncreasingConcat
<1> QED
  BY <1>4, <1>5, <1>6, <1>7, <1>9, <1>10, <1>11 DEF SortedIsPrefix, Increasing

\* A slice that passes is all honest, or holds two faulty responses.
LEMMA ExplainedGrows ==
    ASSUME ValidExplained, NEW s, AggregateMayHold(s),
           RangeOf(valid)' = RangeOf(valid) \cup In(s), batch' = batch
    PROVE  ValidExplained'
<1> SUFFICES ASSUME NEW p \in RangeOf(valid)', ~Honest(p)
             PROVE  WeightsMayCancel /\ \E q \in RangeOf(valid)' \ {p} : ~Honest(q)
  BY DEF ValidExplained, Honest
<1>1. CASE p \in RangeOf(valid)
  BY <1>1 DEF ValidExplained
<1>2. CASE p \in In(s)
  <2>1. WeightsMayCancel
    BY <1>2 DEF AggregateMayHold
  <2>2. PICK q \in In(s), r \in In(s) : q # r /\ ~Honest(q) /\ ~Honest(r)
    BY <1>2 DEF AggregateMayHold
  <2> QED
    BY <2>1, <2>2
<1> QED
  BY <1>1, <1>2

\* What a step keeps when it leaves the sorted responses alone.
LEMMA SortedUnchanged ==
    ASSUME IInv, UNCHANGED <<batch, valid, invalid>>
    PROVE  /\ SortedIsPrefix' /\ HonestNeverBlamed' /\ ValidExplained' /\ Done' = Done
           /\ valid' \in Seq(Positions)' /\ invalid' \in Seq(Positions)' /\ batch' \in Batches
<1>1. batch' \in Batches /\ Done' = Done /\ RangeOf(valid)' = RangeOf(valid)
      /\ RangeOf(invalid)' = RangeOf(invalid)
  BY DEF IInv, TypeOK, Done, RangeOf
<1>2. valid' \in Seq(Positions)' /\ invalid' \in Seq(Positions)'
  BY DEF IInv, TypeOK, Positions
<1>3. SortedIsPrefix'
  BY <1>1 DEF IInv, SortedIsPrefix
<1>4. HonestNeverBlamed' /\ ValidExplained'
  BY <1>1 DEF IInv, HonestNeverBlamed, ValidExplained, Honest
<1> QED
  BY <1>1, <1>2, <1>3, <1>4

\* The exception leaves everything as it was.
LEMMA StepBatchAborts == IInv /\ BatchAborts => IInv'
<1> SUFFICES ASSUME IInv, BatchAborts PROVE IInv'
  OBVIOUS
<1>1. /\ SortedIsPrefix' /\ HonestNeverBlamed' /\ ValidExplained' /\ Done' = Done
      /\ valid' \in Seq(Positions)' /\ invalid' \in Seq(Positions)' /\ batch' \in Batches
  BY SortedUnchanged DEF BatchAborts
<1>2. TypeOK'
  BY <1>1 DEF IInv, TypeOK, BatchAborts, Positions, Slices
<1>3. PhaseInv' /\ StackTilesTheRest'
  BY DEF IInv, PhaseInv, Reported, BatchAborts, StackTilesTheRest
<1> QED
  BY <1>1, <1>2, <1>3 DEF IInv

LEMMA StepBatchPasses == IInv /\ BatchPasses => IInv'
<1> SUFFICES ASSUME IInv, BatchPasses PROVE IInv'
  OBVIOUS
<1>1. /\ valid = <<>> /\ invalid = <<>> /\ Len(batch) \in Nat /\ batch \in Batches
      /\ Positions = 1 .. Len(batch)
  BY BatchSeq DEF IInv, TypeOK, PhaseInv, BatchPasses
<1>2. Whole \in [lo : Nat, hi : Nat] /\ Whole.lo = Done + 1 /\ Whole.lo <= Whole.hi + 1
      /\ Whole.hi = Len(batch)
  BY <1>1, EmptySeq DEF Whole, Slice, Done
<1>3. valid' = valid \o Interval(Whole)
  <2>1. Interval(Whole) \in Seq(1 .. Len(batch))
    BY <1>1, <1>2, IntervalProperties DEF Whole, Slice
  <2> QED
    BY <1>1, <2>1, ConcatEmptySeq DEF BatchPasses
<1>4. invalid' = invalid /\ batch' = batch /\ AggregateMayHold(Whole)
  BY DEF BatchPasses
<1>5. /\ valid' \in Seq(Positions) /\ Done' = Len(batch)
      /\ RangeOf(valid)' = RangeOf(valid) \cup In(Whole)
      /\ SortedIsPrefix'
  BY <1>1, <1>2, <1>3, <1>4, SortedGrowsValid
<1>6. TypeOK'
  BY <1>4, <1>5 DEF IInv, TypeOK, BatchPasses, Positions, Slices
<1>7. PhaseInv'
  BY <1>1, <1>4, <1>5 DEF PhaseInv, Reported, BatchPasses
<1>8. StackTilesTheRest'
  BY DEF StackTilesTheRest, BatchPasses
<1>9. HonestNeverBlamed'
  BY <1>4 DEF IInv, HonestNeverBlamed, RangeOf, Honest
<1>10. ValidExplained'
  BY <1>4, <1>5, ExplainedGrows DEF IInv
<1> QED
  BY <1>5, <1>6, <1>7, <1>8, <1>9, <1>10 DEF IInv

LEMMA StepBatchFails == IInv /\ BatchFails => IInv'
<1> SUFFICES ASSUME IInv, BatchFails PROVE IInv'
  OBVIOUS
<1>1. /\ valid = <<>> /\ invalid = <<>> /\ ~allValid /\ Len(batch) \in Nat
      /\ batch \in Batches /\ Positions = 1 .. Len(batch)
  BY BatchSeq DEF IInv, TypeOK, PhaseInv, BatchFails
<1>2. /\ SortedIsPrefix' /\ HonestNeverBlamed' /\ ValidExplained' /\ Done' = Done
      /\ valid' \in Seq(Positions)' /\ invalid' \in Seq(Positions)' /\ batch' \in Batches
  BY SortedUnchanged DEF BatchFails
<1>3. Whole \in Slices
  <2>1. PICK p \in In(Whole) : ~Honest(p)
    BY DEF BatchFails, AggregateMayFail
  <2> QED
    BY <1>1, <2>1 DEF Slices, Whole, Slice, In
<1>4. todo' = <<Whole>> /\ Len(todo') = 1 /\ todo'[1] = Whole /\ todo' \in Seq(Slices)
  BY <1>3 DEF BatchFails
<1>5. TypeOK'
  BY <1>2, <1>4 DEF IInv, TypeOK, BatchFails, Slices, Positions
<1>6. PhaseInv'
  BY <1>1 DEF PhaseInv, Reported, BatchFails, AggregateMayFail, Whole, Honest
<1>7. StackTilesTheRest'
  <2>1. Done' = 0
    BY <1>1, <1>2 DEF Done
  <2> QED
    BY <1>1, <1>4, <2>1 DEF StackTilesTheRest, BatchFails, Whole, Slice
<1> QED
  BY <1>2, <1>5, <1>6, <1>7 DEF IInv

LEMMA StepSlicePasses == IInv /\ SlicePasses => IInv'
<1> SUFFICES ASSUME IInv, SlicePasses PROVE IInv'
  OBVIOUS
<1> DEFINE h == Head(todo)
<1>1. pc = "isolate" /\ todo # <<>> /\ pc' = pc /\ batch' = batch /\ invalid' = invalid
      /\ allValid' = allValid /\ todo' = Tail(todo) /\ valid' = valid \o Interval(h)
      /\ AggregateMayHold(h)
  BY DEF SlicePasses
<1>2. /\ h \in Slices /\ h.lo = Done + 1 /\ h.hi \in h.lo .. Len(batch)
      /\ Done \in Nat /\ Len(batch) \in Nat
      /\ Tail(todo) \in Seq(Slices)
      /\ Len(Tail(todo)) = Len(todo) - 1 /\ Len(todo) \in Nat
      /\ \A i \in 1 .. Len(Tail(todo)) : Tail(todo)[i] = todo[i + 1]
      /\ Tail(todo) = <<>> => h.hi = Len(batch)
      /\ Tail(todo) # <<>> => /\ Tail(todo)[1].lo = h.hi + 1
                              /\ Tail(todo)[Len(Tail(todo))].hi = Len(batch)
  BY <1>1, TopOfStack
<1>3. h \in [lo : Nat, hi : Nat] /\ h.lo <= h.hi + 1 /\ h.hi <= Len(batch)
  BY <1>2 DEF Slices
<1> HIDE DEF h
<1>4. /\ valid' \in Seq(Positions) /\ Done' = h.hi
      /\ RangeOf(valid)' = RangeOf(valid) \cup In(h)
      /\ SortedIsPrefix'
  BY <1>1, <1>2, <1>3, SortedGrowsValid
<1>5. TypeOK'
  BY <1>1, <1>2, <1>4 DEF IInv, TypeOK, SlicePasses, Positions, Slices
<1>6. PhaseInv'
  BY <1>1 DEF IInv, PhaseInv, Reported, AggregateMayFail, Whole, Honest
<1>7. StackTilesTheRest'
  <2>1. \A i \in 1 .. Len(todo) - 1 : todo[i + 1].lo = todo[i].hi + 1
    BY <1>1 DEF IInv, StackTilesTheRest
  <2>2. \A i \in 1 .. Len(Tail(todo)) - 1 :
           /\ i \in 1 .. Len(Tail(todo)) /\ i + 1 \in 1 .. Len(Tail(todo))
           /\ i + 1 \in 1 .. Len(todo) - 1
    BY <1>2
  <2>3. \A i \in 1 .. Len(Tail(todo)) - 1 : Tail(todo)[i + 1].lo = Tail(todo)[i].hi + 1
    BY <1>2, <2>1, <2>2
  <2> QED
    BY <1>1, <1>2, <1>4, <2>3 DEF StackTilesTheRest
<1>8. HonestNeverBlamed'
  BY <1>1 DEF IInv, HonestNeverBlamed, RangeOf, Honest
<1>9. ValidExplained'
  BY <1>1, <1>4, ExplainedGrows DEF IInv
<1> QED
  BY <1>4, <1>5, <1>6, <1>7, <1>8, <1>9 DEF IInv

LEMMA StepLeafFails == IInv /\ LeafFails => IInv'
<1> SUFFICES ASSUME IInv, LeafFails PROVE IInv'
  OBVIOUS
<1> DEFINE h == Head(todo)
<1>1. pc = "isolate" /\ todo # <<>> /\ pc' = pc /\ batch' = batch /\ valid' = valid
      /\ allValid' = allValid /\ todo' = Tail(todo) /\ invalid' = Append(invalid, h.lo)
      /\ AggregateMayFail(h) /\ Width(h) = 1
  BY DEF LeafFails
<1>2. /\ h \in Slices /\ h.lo = Done + 1 /\ h.hi \in h.lo .. Len(batch)
      /\ Done \in Nat /\ Len(batch) \in Nat
      /\ Tail(todo) \in Seq(Slices)
      /\ Len(Tail(todo)) = Len(todo) - 1 /\ Len(todo) \in Nat
      /\ \A i \in 1 .. Len(Tail(todo)) : Tail(todo)[i] = todo[i + 1]
      /\ Tail(todo) = <<>> => h.hi = Len(batch)
      /\ Tail(todo) # <<>> => /\ Tail(todo)[1].lo = h.hi + 1
                              /\ Tail(todo)[Len(Tail(todo))].hi = Len(batch)
  BY <1>1, TopOfStack
<1>3. h.lo \in Nat /\ h.hi = h.lo /\ h.lo \in Positions /\ ~Honest(h.lo)
  <2>1. h.lo \in Nat /\ h.hi \in Nat /\ h.lo \in Positions
    BY <1>2 DEF Slices
  <2>2. h.hi = h.lo
    BY <1>1, <2>1 DEF Width
  <2> QED
    BY <1>1, <2>1, <2>2 DEF AggregateMayFail, In
<1> HIDE DEF h
<1>4. /\ valid \in Seq(Positions) /\ invalid \in Seq(Positions)
      /\ Positions = 1 .. Len(batch) /\ Len(valid) \in Nat /\ Len(invalid) \in Nat
  BY BatchSeq, LenProperties DEF IInv, TypeOK
<1>5. /\ invalid' \in Seq(Positions) /\ Len(invalid') = Len(invalid) + 1
      /\ RangeOf(invalid)' = RangeOf(invalid) \cup {h.lo}
  <2>1. RangeOf(Append(invalid, h.lo)) = RangeOf(invalid) \cup {h.lo}
    BY <1>3, <1>4, RangeOfAppend
  <2>2. RangeOf(invalid)' = RangeOf(Append(invalid, h.lo))
    BY <1>1 DEF RangeOf
  <2> QED
    BY <1>1, <1>3, <1>4, <2>1, <2>2, RangeOfAppend
<1>6. Done' = h.hi /\ RangeOf(valid)' = RangeOf(valid)
  BY <1>1, <1>2, <1>3, <1>4, <1>5 DEF Done, RangeOf
<1>7. SortedIsPrefix'
  <2>1. /\ RangeOf(valid) \cup RangeOf(invalid) = 1 .. Done
        /\ RangeOf(valid) \cap RangeOf(invalid) = {}
        /\ Increasing(valid) /\ Increasing(invalid)
    BY DEF IInv, SortedIsPrefix, Increasing
  <2>2. 1 .. Done' = (1 .. Done) \cup {h.lo} /\ h.lo \notin 1 .. Done
    BY <1>2, <1>3, <1>6
  <2>3. RangeOf(valid)' \cup RangeOf(invalid)' = 1 .. Done'
    BY <1>5, <1>6, <2>1, <2>2
  <2>4. RangeOf(valid)' \cap RangeOf(invalid)' = {}
    BY <1>5, <1>6, <2>1, <2>2
  <2>5. Increasing(invalid \o <<h.lo>>)
    <3>1. invalid \in Seq(Nat) /\ <<h.lo>> \in Seq(Nat) /\ Increasing(<<h.lo>>)
          /\ RangeOf(<<h.lo>>) = {h.lo}
      BY <1>3, <1>4 DEF Increasing, RangeOf
    <3>2. \A p \in RangeOf(invalid), q \in RangeOf(<<h.lo>>) : p < q
      BY <1>2, <2>1, <3>1
    <3> QED
      BY <2>1, <3>1, <3>2, IncreasingConcat
  <2>6. invalid' = invalid \o <<h.lo>>
    BY <1>1, <1>3, <1>4, AppendIsConcat
  <2> QED
    BY <1>1, <2>1, <2>3, <2>4, <2>5, <2>6 DEF SortedIsPrefix, Increasing
<1>8. TypeOK'
  BY <1>1, <1>2, <1>5 DEF IInv, TypeOK, LeafFails, Positions, Slices
<1>9. PhaseInv'
  BY <1>1 DEF IInv, PhaseInv, Reported, AggregateMayFail, Whole, Honest
<1>10. StackTilesTheRest'
  <2>1. \A i \in 1 .. Len(todo) - 1 : todo[i + 1].lo = todo[i].hi + 1
    BY <1>1 DEF IInv, StackTilesTheRest
  <2>2. \A i \in 1 .. Len(Tail(todo)) - 1 :
           /\ i \in 1 .. Len(Tail(todo)) /\ i + 1 \in 1 .. Len(Tail(todo))
           /\ i + 1 \in 1 .. Len(todo) - 1
    BY <1>2
  <2>3. \A i \in 1 .. Len(Tail(todo)) - 1 : Tail(todo)[i + 1].lo = Tail(todo)[i].hi + 1
    BY <1>2, <2>1, <2>2
  <2> QED
    BY <1>1, <1>2, <1>6, <2>3 DEF StackTilesTheRest
<1>11. HonestNeverBlamed'
  BY <1>1, <1>3, <1>5 DEF IInv, HonestNeverBlamed, Honest
<1>12. ValidExplained'
  BY <1>1, <1>6 DEF IInv, ValidExplained, Honest
<1> QED
  BY <1>7, <1>8, <1>9, <1>10, <1>11, <1>12 DEF IInv

LEMMA StepSliceSplits == IInv /\ SliceSplits => IInv'
<1> SUFFICES ASSUME IInv, SliceSplits PROVE IInv'
  OBVIOUS
<1> DEFINE h == Head(todo)
           hs == Halves(h)
<1>1. pc = "isolate" /\ todo # <<>> /\ pc' = pc /\ batch' = batch /\ valid' = valid
      /\ invalid' = invalid /\ allValid' = allValid /\ todo' = hs \o Tail(todo)
      /\ Width(h) # 1
  BY DEF SliceSplits
<1>2. /\ h \in Slices /\ h.lo = Done + 1
      /\ Done \in Nat /\ Len(batch) \in Nat
      /\ Tail(todo) \in Seq(Slices)
      /\ Len(Tail(todo)) = Len(todo) - 1 /\ Len(todo) \in Nat \ {0}
      /\ \A i \in 1 .. Len(Tail(todo)) : Tail(todo)[i] = todo[i + 1]
      /\ Tail(todo) = <<>> => h.hi = Len(batch) /\ Len(todo) = 1
      /\ Tail(todo) # <<>> => /\ Len(todo) > 1
                              /\ Tail(todo)[1].lo = h.hi + 1
                              /\ Tail(todo)[Len(Tail(todo))].hi = Len(batch)
  BY <1>1, TopOfStack
<1>3. /\ hs \in Seq(Slices) /\ Len(hs) = 2
      /\ hs[1].lo = h.lo /\ hs[2].hi = h.hi /\ hs[2].lo = hs[1].hi + 1
  BY <1>1, <1>2, HalvesProperties DEF IInv, TypeOK
<1> HIDE DEF h, hs
<1>4. /\ todo' \in Seq(Slices) /\ Len(todo') = Len(todo) + 1
      /\ \A i \in 1 .. Len(todo) + 1 :
            todo'[i] = IF i <= 2 THEN hs[i] ELSE Tail(todo)[i - 2]
  <2>1. /\ hs \o Tail(todo) \in Seq(Slices)
        /\ Len(hs \o Tail(todo)) = Len(hs) + Len(Tail(todo))
        /\ \A i \in 1 .. Len(hs) + Len(Tail(todo)) :
              (hs \o Tail(todo))[i] = IF i <= Len(hs) THEN hs[i] ELSE Tail(todo)[i - Len(hs)]
    <3>1. hs \in Seq(Slices) /\ Tail(todo) \in Seq(Slices)
      BY <1>2, <1>3
    <3> QED
      BY <3>1, ConcatProperties
  <2>2. Len(hs) + Len(Tail(todo)) = Len(todo) + 1
    BY <1>2, <1>3
  <2> QED
    BY <1>1, <1>3, <2>1, <2>2
<1>5. /\ SortedIsPrefix' /\ HonestNeverBlamed' /\ ValidExplained' /\ Done' = Done
      /\ valid' \in Seq(Positions)' /\ invalid' \in Seq(Positions)' /\ batch' \in Batches
  BY <1>1, SortedUnchanged
<1>6. TypeOK'
  BY <1>1, <1>4, <1>5 DEF IInv, TypeOK, SliceSplits, Positions, Slices
<1>7. PhaseInv'
  BY <1>1 DEF IInv, PhaseInv, Reported, AggregateMayFail, Whole, Honest
<1>8. StackTilesTheRest'
  <2>1. \A i \in 1 .. Len(todo) - 1 : todo[i + 1].lo = todo[i].hi + 1
    BY <1>1 DEF IInv, StackTilesTheRest
  <2>2. todo'[1] = hs[1] /\ todo'[2] = hs[2]
    BY <1>2, <1>4
  <2>3. \A i \in 3 .. Len(todo) + 1 : todo'[i] = todo[i - 1]
    BY <1>2, <1>4
  <2>4. todo'[Len(todo')].hi = Len(batch)
    <3>1. CASE Tail(todo) = <<>>
      <4>1. Len(todo) = 1 /\ h.hi = Len(batch) /\ hs[2].hi = h.hi
        BY <1>2, <1>3, <3>1
      <4>2. Len(todo') = Len(todo) + 1
        BY <1>4
      <4>3. Len(todo') = 2
        BY <4>1, <4>2
      <4> QED
        BY <2>2, <4>1, <4>3
    <3>2. CASE Tail(todo) # <<>>
      <4>1. Len(todo') \in 3 .. Len(todo) + 1 /\ Len(todo') - 1 = Len(todo)
        BY <1>2, <1>4, <3>2
      <4>2. Len(Tail(todo)) \in 1 .. Len(Tail(todo)) /\ Len(Tail(todo)) + 1 = Len(todo)
        BY <1>2, <3>2
      <4>3. todo[Len(todo)].hi = Len(batch)
        BY <1>2, <3>2, <4>2
      <4>4. todo'[Len(todo')] = todo[Len(todo)]
        BY <2>3, <4>1
      <4> QED
        BY <4>3, <4>4
    <3> QED
      BY <3>1, <3>2
  <2>5. ASSUME NEW i \in 1 .. Len(todo') - 1 PROVE todo'[i + 1].lo = todo'[i].hi + 1
    <3>1. CASE i = 1
      BY <1>3, <2>2, <3>1
    <3>2. CASE i = 2
      <4>1. Tail(todo) # <<>>
        BY <1>2, <1>4, <3>2
      <4> QED
        BY <1>2, <1>3, <1>4, <2>2, <3>2, <4>1
    <3>3. CASE i > 2
      BY <1>2, <1>4, <2>1, <2>3, <3>3
    <3> QED
      BY <1>2, <1>4, <3>1, <3>2, <3>3
  <2>6. todo' # <<>>
    <3>1. Len(todo') # 0
      BY <1>2, <1>4
    <3> QED
      BY <3>1, EmptySeq
  <2>7. todo'[1].lo = Done' + 1
    BY <1>2, <1>3, <1>5, <2>2
  <2> QED
    BY <1>1, <2>4, <2>5, <2>6, <2>7 DEF StackTilesTheRest
<1> QED
  BY <1>5, <1>6, <1>7, <1>8 DEF IInv

LEMMA StepIsolationEnds == IInv /\ IsolationEnds => IInv'
<1> SUFFICES ASSUME IInv, IsolationEnds PROVE IInv'
  OBVIOUS
<1>1. /\ SortedIsPrefix' /\ HonestNeverBlamed' /\ ValidExplained' /\ Done' = Done
      /\ valid' \in Seq(Positions)' /\ invalid' \in Seq(Positions)' /\ batch' \in Batches
  BY SortedUnchanged DEF IsolationEnds
<1>2. TypeOK'
  BY <1>1 DEF IInv, TypeOK, IsolationEnds, Positions, Slices
<1>3. PhaseInv' /\ StackTilesTheRest'
  BY <1>1 DEF IInv, PhaseInv, Reported, AggregateMayFail, Whole, Honest, IsolationEnds,
              StackTilesTheRest
<1> QED
  BY <1>1, <1>2, <1>3 DEF IInv

LEMMA StepEstablishSessions == IInv /\ EstablishSessions => IInv'
<1> SUFFICES ASSUME IInv, EstablishSessions PROVE IInv'
  OBVIOUS
<1>1. /\ SortedIsPrefix' /\ HonestNeverBlamed' /\ ValidExplained' /\ Done' = Done
      /\ valid' \in Seq(Positions)' /\ invalid' \in Seq(Positions)' /\ batch' \in Batches
  BY SortedUnchanged DEF EstablishSessions
<1>2. sessions' \subseteq DIDs
  <2>1. \A p \in Positions : batch[p].did \in DIDs
    <3>1. batch \in Seq(Mu3) /\ Positions = 1 .. Len(batch)
      BY BatchSeq DEF IInv, TypeOK
    <3>2. \A p \in Positions : batch[p] \in Mu3
      BY <3>1, ElementOfSeq
    <3> QED
      BY <3>2 DEF Mu3
  <2> QED
    BY <2>1 DEF EstablishSessions
<1>3. TypeOK'
  BY <1>1, <1>2 DEF IInv, TypeOK, EstablishSessions, Positions, Slices
<1>4. PhaseInv' /\ StackTilesTheRest'
  BY <1>1 DEF IInv, PhaseInv, Reported, AggregateMayFail, Whole, Honest, EstablishSessions,
              StackTilesTheRest
<1> QED
  BY <1>1, <1>3, <1>4 DEF IInv

LEMMA StepStutters == IInv /\ UNCHANGED vars => IInv'
<1> SUFFICES ASSUME IInv, UNCHANGED vars PROVE IInv'
  OBVIOUS
<1>1. /\ SortedIsPrefix' /\ HonestNeverBlamed' /\ ValidExplained' /\ Done' = Done
      /\ valid' \in Seq(Positions)' /\ invalid' \in Seq(Positions)' /\ batch' \in Batches
  BY SortedUnchanged DEF vars
<1>2. TypeOK'
  BY <1>1 DEF IInv, TypeOK, vars, Positions, Slices
<1>3. PhaseInv' /\ StackTilesTheRest'
  BY <1>1 DEF IInv, PhaseInv, Reported, AggregateMayFail, Whole, Honest, vars,
              StackTilesTheRest
<1> QED
  BY <1>1, <1>2, <1>3 DEF IInv

\* IInv is an invariant of the specification.
THEOREM Invariant == Spec => []IInv
<1>1. IInv /\ [Next]_vars => IInv'
  BY StepBatchAborts, StepBatchPasses, StepBatchFails, StepSlicePasses, StepLeafFails,
     StepSliceSplits, StepIsolationEnds, StepEstablishSessions, StepStutters DEF Next
<1> QED
  BY InitIInv, <1>1, PTL DEF Spec

-----------------------------------------------------------------------------
(* What follows from the invariant *)

\* The variables keep their types and no empty slice is ever checked.
THEOREM TypeCorrect == Spec => []TypeOK
  BY Invariant, PTL DEF IInv

\* batch_verify sorts every response of every batch exactly once.
THEOREM VerdictIsPartition == Spec => []VerdictPartitions
<1>1. IInv => VerdictPartitions
  BY DEF IInv, VerdictPartitions, PhaseInv
<1> QED
  BY Invariant, <1>1, PTL

\* No honest response is ever blamed, in batches of any size.
THEOREM NoHonestBlamed == Spec => []HonestNeverBlamed
  BY Invariant, PTL DEF IInv

\* Faulty responses are isolated: all of them with exact weights, a single
\* one with any weights.
THEOREM IsolatesFaulty == Spec => []FaultyIsolated
<1>1. ASSUME IInv PROVE FaultyIsolated
  <2> SUFFICES ASSUME Reported, ~WeightsMayCancel \/ \A p, q \in Faulty : p = q
               PROVE  RangeOf(invalid) = Faulty
    BY DEF FaultyIsolated
  <2>1. RangeOf(valid) \cup RangeOf(invalid) = Positions
    BY <1>1, BatchSeq DEF IInv, TypeOK, SortedIsPrefix, PhaseInv
  <2>2. RangeOf(invalid) \subseteq Faulty
    BY <1>1, <2>1 DEF IInv, HonestNeverBlamed, Faulty
  <2>3. \A p \in RangeOf(valid) : p \notin Faulty
    BY <1>1, <2>1 DEF IInv, ValidExplained, Faulty
  <2> QED
    BY <2>1, <2>2, <2>3 DEF Faulty
<1> QED
  BY Invariant, <1>1, PTL

-----------------------------------------------------------------------------
(* Refinement of the one-step classification *)

LEMMA ReportsOnce ==
    ASSUME IInv, ~Reported, Reported', IInv', batch' = batch
    PROVE  Abstract!Report
<1> DEFINE passed == RangeOf(valid)'
           failed == DOMAIN batch \ passed
<1>1. /\ passed \cup RangeOf(invalid)' = DOMAIN batch
      /\ passed \cap RangeOf(invalid)' = {}
  <2>1. /\ RangeOf(valid)' \cup RangeOf(invalid)' = 1 .. Done'
        /\ RangeOf(valid)' \cap RangeOf(invalid)' = {} /\ Done' = Len(batch')
    BY DEF IInv, SortedIsPrefix, PhaseInv
  <2> QED
    BY <2>1, BatchSeq DEF IInv, TypeOK, Positions
<1>2. passed \in SUBSET DOMAIN batch /\ failed = RangeOf(invalid)'
  BY <1>1
<1>3. allValid' \in BOOLEAN
  BY DEF IInv, TypeOK
<1>4. \A p \in passed : Abstract!MayPass(p, passed)
  BY DEF IInv, ValidExplained, Abstract!MayPass, Abstract!Honest, Honest
<1>5. \A p \in failed : ~Abstract!Honest(p)
  BY <1>2 DEF IInv, HonestNeverBlamed, Abstract!Honest, Honest
<1>6. allValid' => failed = {}
  <2>1. allValid' => invalid' = <<>>
    BY DEF IInv, PhaseInv
  <2>2. invalid' = <<>> => RangeOf(invalid)' = {}
    BY DEF RangeOf
  <2> QED
    BY <1>2, <2>1, <2>2
<1>7. ~allValid' => \E p \in DOMAIN batch : ~Abstract!Honest(p)
  <2>1. ~allValid' => \E p \in In(Whole)' : ~batch'[p].good
    BY DEF IInv, PhaseInv, AggregateMayFail, Honest
  <2>2. In(Whole)' = DOMAIN batch
    BY BatchSeq DEF IInv, TypeOK, In, Whole, Slice, Positions
  <2> QED
    BY <2>1, <2>2 DEF Abstract!Honest
<1>8. Verdict = <<>> /\ Verdict' = <<[valid |-> passed, invalid |-> failed, allValid |-> allValid']>>
  BY <1>2 DEF Verdict
<1> HIDE DEF passed, failed
<1> QED
  BY <1>2, <1>3, <1>4, <1>5, <1>6, <1>7, <1>8 DEF Abstract!Report, failed

\* Keys are derived last, and for reported DIDj only.
SessionsInv ==
    /\ pc # "done" => sessions = {}
    /\ sessions \subseteq DidsAt(valid)

LEMMA SessionsInvariant == Spec => []SessionsInv
<1>1. Init => SessionsInv
  BY DEF Init, SessionsInv
<1>2. SessionsInv /\ [Next]_vars => SessionsInv'
  <2> SUFFICES ASSUME SessionsInv, [Next]_vars PROVE SessionsInv'
    OBVIOUS
  <2>1. CASE EstablishSessions
    BY <2>1 DEF EstablishSessions, SessionsInv, DidsAt
  <2>2. CASE \/ BatchAborts \/ BatchPasses \/ BatchFails
             \/ SlicePasses \/ LeafFails \/ SliceSplits \/ IsolationEnds
    <3>1. sessions' = sessions /\ pc # "done"
      BY <2>2 DEF BatchAborts, BatchPasses, BatchFails, SlicePasses, LeafFails, SliceSplits, IsolationEnds
    <3> QED
      BY <3>1 DEF SessionsInv
  <2>3. CASE UNCHANGED vars
    BY <2>3 DEF vars, SessionsInv, DidsAt
  <2> QED
    BY <2>1, <2>2, <2>3 DEF Next
<1> QED
  BY <1>1, <1>2, PTL DEF Spec

\* With one response per DIDj, establish_sessions derives no key for a drone
\* that batch_verify has reported invalid.
THEOREM NoSessionForBlamed == Spec => []BlamedGetNoSession
<1>1. ASSUME IInv, SessionsInv, DistinctDids PROVE sessions \cap DidsAt(invalid) = {}
  <2>1. CASE ~Reported
    BY <1>1, <2>1 DEF SessionsInv, Reported
  <2>2. CASE Reported
    <3> SUFFICES ASSUME NEW i \in DOMAIN valid, NEW j \in DOMAIN invalid,
                        batch[valid[i]].did = batch[invalid[j]].did
                 PROVE  FALSE
      BY <1>1 DEF SessionsInv, DidsAt
    <3>1. valid[i] \in Positions /\ invalid[j] \in Positions
      BY <1>1 DEF IInv, TypeOK
    <3>2. valid[i] = invalid[j]
      BY <1>1, <3>1 DEF DistinctDids
    <3>3. RangeOf(valid) \cap RangeOf(invalid) = {}
      BY <1>1 DEF IInv, SortedIsPrefix
    <3> QED
      BY <3>2, <3>3 DEF RangeOf
  <2> QED
    BY <2>1, <2>2
<1>2. IInv /\ SessionsInv => BlamedGetNoSession
  BY <1>1 DEF BlamedGetNoSession
<1> QED
  BY <1>2, Invariant, SessionsInvariant, PTL

\* Each step of divide and conquer is a report or a stutter of Classification.
THEOREM Refinement == Spec => ImplementsClassification
<1>1. Init => Abstract!Init
  BY DEF Init, Abstract!Init, Verdict, Reported
<1>2. IInv /\ IInv' /\ [Next]_vars => [Abstract!Report]_<<batch, Verdict>>
  <2> SUFFICES ASSUME IInv, IInv', [Next]_vars
               PROVE  Abstract!Report \/ UNCHANGED <<batch, Verdict>>
    OBVIOUS
  <2>1. CASE ~Reported /\ Reported'
    <3>1. batch' = batch
      BY DEF Next, vars, BatchAborts, BatchPasses, BatchFails, SlicePasses, LeafFails, SliceSplits,
             IsolationEnds, EstablishSessions
    <3> QED
      BY <2>1, <3>1, ReportsOnce
  <2>2. CASE ~Reported /\ ~Reported'
    BY <2>2 DEF Verdict, Next, vars, BatchAborts, BatchPasses, BatchFails, SlicePasses,
                LeafFails, SliceSplits, IsolationEnds, EstablishSessions
  <2>3. CASE Reported
    BY <2>3 DEF Verdict, Reported, RangeOf, Next, vars, BatchAborts, BatchPasses, BatchFails,
                SlicePasses, LeafFails, SliceSplits, IsolationEnds, EstablishSessions
  <2> QED
    BY <2>1, <2>2, <2>3
<1> QED
  BY <1>1, <1>2, Invariant, PTL DEF Spec, ImplementsClassification, Abstract!Spec
-----------------------------------------------------------------------------
(***************************************************************************)
(* The cost of batch_verify, for every batch: at most two aggregate checks *)
(* per response, however the random weights fall.                          *)
(***************************************************************************)
\* The slices on the stack start at increasing positions, no two at the same.
Spread == \A i, j \in 1 .. Len(todo) : i <= j => todo[i].lo + (j - i) <= todo[j].lo

\* Each sorted response has paid for two checks, each slice on the stack for
\* one: a split costs one check and adds one slice.
CostInv ==
    /\ pc = "aggregate" => checks = 0
    /\ pc = "aborted" => checks = 1
    /\ pc = "isolate" => Spread /\ checks <= 2 * Done + Len(todo)
    /\ Reported => ChecksBounded

\* Every slice on the stack has a response of its own.
LEMMA StackFits ==
    ASSUME IInv, pc = "isolate", Spread
    PROVE  /\ Done \in Nat /\ Len(todo) \in Nat /\ Len(batch) \in Nat
           /\ Done + Len(todo) <= Len(batch)
<1>1. /\ todo \in Seq(Slices) /\ Len(todo) \in Nat /\ Len(batch) \in Nat
      /\ Len(valid) \in Nat /\ Len(invalid) \in Nat
  BY BatchSeq, LenProperties DEF IInv, TypeOK
<1>2. CASE todo = <<>>
  BY <1>1, <1>2, EmptySeq DEF IInv, StackTilesTheRest, Done
<1>3. CASE todo # <<>>
  <2>1. Len(todo) \in Nat \ {0} /\ todo[1].lo = Done + 1 /\ todo[Len(todo)].hi = Len(batch)
    BY <1>1, <1>3, EmptySeq DEF IInv, StackTilesTheRest
  <2>2. todo[Len(todo)] \in Slices
    BY <1>1, <2>1, ElementOfSeq
  <2>3. todo[Len(todo)].lo \in Nat /\ todo[Len(todo)].lo <= Len(batch)
    BY <1>1, <2>1, <2>2 DEF Slices
  <2>4. todo[1].lo + (Len(todo) - 1) <= todo[Len(todo)].lo
    BY <2>1 DEF Spread
  <2> QED
    BY <1>1, <2>1, <2>3, <2>4 DEF Done
<1> QED
  BY <1>2, <1>3

\* The invariant gives the bound.
LEMMA CostGivesBound == ASSUME IInv, CostInv PROVE ChecksBounded
<1>1. Len(batch) \in Nat /\ checks \in Nat /\ batch \in Seq(Mu3)
  BY BatchSeq DEF IInv, TypeOK
<1>2. batch # <<>> => Len(batch) \in Nat \ {0}
  BY <1>1, EmptySeq
<1>3. CASE pc \in {"aggregate", "aborted"}
  BY <1>1, <1>2, <1>3 DEF CostInv, ChecksBounded
<1>4. CASE pc = "isolate"
  <2>1. Done + Len(todo) <= Len(batch) /\ Done \in Nat /\ Len(todo) \in Nat
        /\ checks <= 2 * Done + Len(todo)
    BY <1>4, StackFits DEF CostInv
  <2>2. checks <= 2 * Len(batch)
    BY <1>1, <2>1
  <2>3. batch = <<>> => Len(batch) = 0
    BY EmptySeq
  <2> QED
    BY <1>1, <2>2, <2>3 DEF ChecksBounded
<1> QED
  BY <1>3, <1>4 DEF CostInv, IInv, TypeOK, Reported

-----------------------------------------------------------------------------
(* The steps *)

\* Taking the top slice off the stack.
LEMMA SpreadTail ==
    ASSUME IInv, pc = "isolate", todo # <<>>, Spread, todo' = Tail(todo)
    PROVE  Spread' /\ Len(todo') = Len(todo) - 1 /\ Len(todo) \in Nat \ {0}
<1>1. /\ Len(todo) \in Nat \ {0} /\ Len(todo') = Len(todo) - 1
      /\ \A i \in 1 .. Len(todo') : todo'[i] = todo[i + 1]
  BY TopOfStack
<1>2. ASSUME NEW i \in 1 .. Len(todo'), NEW j \in 1 .. Len(todo'), i <= j
      PROVE  todo'[i].lo + (j - i) <= todo'[j].lo
  <2>1. todo[i + 1].lo + ((j + 1) - (i + 1)) <= todo[j + 1].lo
    <3>1. i + 1 \in 1 .. Len(todo) /\ j + 1 \in 1 .. Len(todo) /\ i + 1 <= j + 1
      BY <1>1, <1>2
    <3> QED
      BY <3>1 DEF Spread
  <2>2. (j + 1) - (i + 1) = j - i
    BY <1>1
  <2> QED
    BY <1>1, <2>1, <2>2
<1> QED
  BY <1>1, <1>2 DEF Spread

\* Putting the two halves of the top slice in its place.
LEMMA SplitStack ==
    ASSUME IInv, pc = "isolate", SliceSplits, NEW h, h = Head(todo), NEW hs, hs = Halves(h)
    PROVE  /\ batch \in Batches /\ h \in Slices /\ h = todo[1] /\ Width(h) # 1
           /\ Len(todo) \in Nat \ {0}
           /\ \A i \in 1 .. Len(todo) : todo[i] \in Slices
           /\ Len(todo) >= 2 => todo[2].lo = h.hi + 1
           /\ hs[1].lo = h.lo /\ hs[2].hi = h.hi /\ hs[2].lo = hs[1].hi + 1
           /\ hs[1] \in Slices /\ hs[2] \in Slices
           /\ Len(todo') = Len(todo) + 1
           /\ \A i \in 1 .. Len(todo') : todo'[i] = IF i <= 2 THEN hs[i] ELSE todo[i - 1]
<1>1. /\ todo # <<>> /\ Width(h) # 1 /\ todo' = hs \o Tail(todo) /\ batch \in Batches
  BY DEF SliceSplits, IInv, TypeOK
<1>2. /\ h \in Slices /\ h = todo[1] /\ Len(todo) \in Nat \ {0}
      /\ Tail(todo) \in Seq(Slices) /\ Len(Tail(todo)) = Len(todo) - 1
      /\ \A i \in 1 .. Len(Tail(todo)) : Tail(todo)[i] = todo[i + 1]
  BY <1>1, TopOfStack
<1>3. /\ hs \in Seq(Slices) /\ Len(hs) = 2
      /\ hs[1].lo = h.lo /\ hs[2].hi = h.hi /\ hs[2].lo = hs[1].hi + 1
  BY <1>1, <1>2, HalvesProperties
<1>4. todo \in Seq(Slices) /\ \A i \in 1 .. Len(todo) : todo[i] \in Slices
  BY ElementOfSeq DEF IInv, TypeOK
<1>5. Len(todo) >= 2 => todo[2].lo = h.hi + 1
  BY <1>1, <1>2 DEF IInv, StackTilesTheRest
<1>6. hs[1] \in Slices /\ hs[2] \in Slices
  <2>1. \A i \in 1 .. Len(hs) : hs[i] \in Slices
    BY <1>3, ElementOfSeq
  <2> QED
    BY <1>3, <2>1
<1>7. /\ Len(todo') = Len(todo) + 1
      /\ \A i \in 1 .. Len(todo') : todo'[i] = IF i <= 2 THEN hs[i] ELSE todo[i - 1]
  <2> DEFINE t == Tail(todo)
             n == Len(t)
  <2>1. /\ Len(hs \o t) = Len(hs) + n
        /\ \A i \in 1 .. Len(hs) + n :
              (hs \o t)[i] = IF i <= Len(hs) THEN hs[i] ELSE t[i - Len(hs)]
    BY <1>2, <1>3, ConcatProperties
  <2>2. Len(todo') = Len(todo) + 1
    <3>1. todo' = hs \o t /\ Len(hs) = 2 /\ n = Len(todo) - 1 /\ Len(todo) \in Nat
      BY <1>1, <1>2, <1>3
    <3> HIDE DEF t, n
    <3> QED
      BY <2>1, <3>1
  <2>4. n \in Nat /\ Len(hs) = 2 /\ Len(todo') = n + 2
    BY <1>2, <1>3, <2>2
  <2>5. \A i \in 1 .. n + 2 : todo'[i] = IF i <= 2 THEN hs[i] ELSE t[i - 2]
    <3>1. 2 + n = n + 2
      BY <2>4
    <3> QED
      BY <1>1, <1>3, <2>1, <3>1
  <2>6. \A i \in 1 .. n : t[i] = todo[i + 1]
    BY <1>2
  <2> HIDE DEF t, n
  <2>7. ASSUME NEW i \in 1 .. n + 2
        PROVE  todo'[i] = IF i <= 2 THEN hs[i] ELSE todo[i - 1]
    <3>1. CASE i <= 2
      BY <2>5, <3>1
    <3>2. CASE i > 2
      <4>1. i - 2 \in 1 .. n /\ (i - 2) + 1 = i - 1
        BY <2>4, <3>2
      <4> QED
        BY <2>5, <2>6, <3>2, <4>1
    <3> QED
      BY <2>4, <3>1, <3>2
  <2> QED
    BY <2>2, <2>4, <2>7
<1> QED
  BY <1>1, <1>2, <1>3, <1>4, <1>5, <1>6, <1>7

LEMMA SpreadSplit ==
    ASSUME IInv, pc = "isolate", Spread, SliceSplits
    PROVE  Spread' /\ Len(todo') = Len(todo) + 1 /\ Len(todo) \in Nat
<1> DEFINE h == Head(todo)
           hs == Halves(h)
<1>1. /\ h \in Slices /\ h = todo[1] /\ Len(todo) \in Nat \ {0}
      /\ \A i \in 1 .. Len(todo) : todo[i] \in Slices
      /\ Len(todo) >= 2 => todo[2].lo = h.hi + 1
      /\ hs[1].lo = h.lo /\ hs[2].hi = h.hi /\ hs[2].lo = hs[1].hi + 1
      /\ hs[1] \in Slices /\ hs[2] \in Slices
      /\ Len(todo') = Len(todo) + 1
      /\ \A i \in 1 .. Len(todo') : todo'[i] = IF i <= 2 THEN hs[i] ELSE todo[i - 1]
  BY SplitStack
<1> HIDE DEF h, hs
<1>2. /\ h.lo \in Nat /\ h.hi \in Nat /\ hs[2].lo \in Nat
      /\ h.lo < hs[2].lo /\ hs[2].lo <= h.hi
  BY <1>1 DEF Slices
<1>3. ASSUME NEW i \in 1 .. Len(todo'), NEW j \in 1 .. Len(todo'), i <= j
      PROVE  todo'[i].lo + (j - i) <= todo'[j].lo
  <2>1. CASE j <= 2
    <3>1. i \in {1, 2} /\ j \in {1, 2}
      BY <1>1, <1>3, <2>1
    <3> QED
      BY <1>1, <1>2, <1>3, <3>1
  <2>2. CASE j > 2 /\ i <= 2
    <3>1. j - 1 \in 1 .. Len(todo) /\ 2 <= j - 1 /\ 2 \in 1 .. Len(todo)
      BY <1>1, <2>2
    <3>2. todo[2].lo + ((j - 1) - 2) <= todo[j - 1].lo /\ todo[2].lo = h.hi + 1
      BY <1>1, <3>1 DEF Spread
    <3>3. todo[j - 1].lo \in Nat
      BY <1>1, <3>1 DEF Slices
    <3>4. i \in {1, 2} /\ todo'[i].lo <= h.hi + i - 2 /\ todo'[i].lo \in Nat
      <4>1. i \in {1, 2} /\ todo'[i] = hs[i]
        BY <1>1, <2>2
      <4>2. hs[1].lo <= h.hi + 1 - 2 /\ hs[2].lo <= h.hi + 2 - 2 /\ hs[1].lo \in Nat
        BY <1>1, <1>2
      <4> QED
        BY <1>2, <4>1, <4>2
    <3>5. todo'[j] = todo[j - 1]
      BY <1>1, <2>2
    <3>6. i \in Nat /\ j \in Nat
      BY <1>1
    <3> DEFINE x == todo'[i].lo
               y == todo[j - 1].lo
    <3>7. /\ x \in Nat /\ y \in Nat /\ x <= h.hi + i - 2
          /\ h.hi + 1 + ((j - 1) - 2) <= y
      BY <3>2, <3>3, <3>4
    <3> HIDE DEF x, y
    <3>8. x + (j - i) <= y
      BY <1>2, <3>6, <3>7
    <3> QED
      BY <3>5, <3>8 DEF x, y
  <2>3. CASE i > 2
    <3>1. i - 1 \in 1 .. Len(todo) /\ j - 1 \in 1 .. Len(todo) /\ i - 1 <= j - 1
      BY <1>1, <1>3, <2>3
    <3>2. todo[i - 1].lo + ((j - 1) - (i - 1)) <= todo[j - 1].lo
      BY <3>1 DEF Spread
    <3>3. todo'[i] = todo[i - 1] /\ todo'[j] = todo[j - 1] /\ (j - 1) - (i - 1) = j - i
      BY <1>1, <1>3, <2>3
    <3> QED
      BY <3>2, <3>3
  <2> QED
    BY <1>1, <2>1, <2>2, <2>3
<1> QED
  BY <1>1, <1>3 DEF Spread

LEMMA InitCost == Init => CostInv
  BY DEF Init, CostInv, Reported

LEMMA AggregateCost ==
    ASSUME IInv, CostInv, BatchAborts \/ BatchPasses \/ BatchFails
    PROVE  CostInv'
<1>1. checks' = 1 /\ batch' = batch /\ Len(batch) \in Nat /\ batch \in Seq(Mu3)
  BY BatchSeq DEF CostInv, BatchAborts, BatchPasses, BatchFails, IInv, TypeOK
<1>2. CASE BatchPasses
  <2>1. batch # <<>> => Len(batch) \in Nat \ {0}
    BY <1>1, EmptySeq
  <2>2. ChecksBounded'
    BY <1>1, <2>1 DEF ChecksBounded
  <2> QED
    BY <1>2, <2>2 DEF BatchPasses, CostInv, Reported
<1>3. CASE BatchFails
  <2>1. Done' = 0
    BY <1>3, EmptySeq DEF BatchFails, IInv, PhaseInv, Done
  <2>2. Len(todo') = 1 /\ Spread'
    <3>1. todo' = <<Whole>>
      BY <1>3 DEF BatchFails
    <3>2. Whole.lo \in Nat
      BY DEF Whole, Slice
    <3>3. Len(todo') = 1 /\ todo'[1].lo + (1 - 1) <= todo'[1].lo
      BY <3>1, <3>2
    <3> QED
      BY <3>3 DEF Spread
  <2> QED
    BY <1>1, <1>3, <2>1, <2>2 DEF BatchFails, CostInv, Reported
<1>4. CASE BatchAborts
  BY <1>1, <1>4 DEF BatchAborts, CostInv, Reported
<1> QED
  BY <1>2, <1>3, <1>4

\* A slice that is sorted, as a whole or as one faulty response.
LEMMA SortingCost ==
    ASSUME IInv, IInv', CostInv, SlicePasses \/ LeafFails
    PROVE  CostInv'
<1>1. /\ pc = "isolate" /\ pc' = pc /\ todo # <<>> /\ todo' = Tail(todo)
      /\ checks' = checks + 1 /\ batch' = batch
  BY DEF SlicePasses, LeafFails
<1>2. Spread' /\ Len(todo') = Len(todo) - 1 /\ Len(todo) \in Nat \ {0}
  BY <1>1, SpreadTail DEF CostInv
<1>3. Done \in Nat /\ checks \in Nat
  BY <1>1, TopOfStack DEF IInv, TypeOK
<1>4. Done' \in Nat /\ Done' >= Done + 1
  <2>1. /\ valid \in Seq(Positions) /\ invalid \in Seq(Positions) /\ Len(valid) \in Nat
        /\ Len(invalid) \in Nat /\ Head(todo) \in Slices /\ Len(batch) \in Nat
        /\ Positions = 1 .. Len(batch)
    BY <1>1, TopOfStack, BatchSeq, LenProperties DEF IInv, TypeOK
  <2>2. CASE SlicePasses
    <3>1. /\ Head(todo) \in [lo : Nat, hi : Nat] /\ Head(todo).lo = Done + 1
          /\ Head(todo).hi \in Head(todo).lo .. Len(batch)
      BY <1>1, <2>1, TopOfStack DEF Slices
    <3>2. valid' = valid \o Interval(Head(todo)) /\ invalid' = invalid
      BY <2>2 DEF SlicePasses
    <3>3. Done' = Head(todo).hi
      <4> DEFINE h == Head(todo)
      <4>1. /\ h \in [lo : Nat, hi : Nat] /\ h.lo = Done + 1 /\ h.lo <= h.hi + 1
            /\ h.hi <= Len(batch) /\ valid' = valid \o Interval(h)
        BY <1>3, <2>1, <3>1, <3>2
      <4> HIDE DEF h
      <4>2. Done' = h.hi
        BY <1>1, <3>2, <4>1, SortedGrowsValid
      <4> QED
        BY <4>2 DEF h
    <3> QED
      BY <1>3, <2>1, <3>1, <3>3
  <2>3. CASE LeafFails
    <3>1. Head(todo).lo \in Positions
      BY <2>1 DEF Slices
    <3>2. Len(Append(invalid, Head(todo).lo)) = Len(invalid) + 1
      BY <2>1, <3>1, AppendProperties
    <3> QED
      BY <2>1, <2>3, <3>2 DEF LeafFails, Done
  <2> QED
    BY <2>2, <2>3
<1>5. checks' <= 2 * Done' + Len(todo')
  BY <1>1, <1>2, <1>3, <1>4 DEF CostInv
<1> QED
  BY <1>1, <1>2, <1>5 DEF CostInv, Reported

LEMMA SplitCost ==
    ASSUME IInv, CostInv, SliceSplits
    PROVE  CostInv'
<1>1. /\ pc = "isolate" /\ pc' = pc /\ checks' = checks + 1 /\ Done' = Done
  BY DEF SliceSplits, Done
<1>2. Spread' /\ Len(todo') = Len(todo) + 1 /\ Len(todo) \in Nat
  BY <1>1, SpreadSplit DEF CostInv
<1>3. Done \in Nat /\ checks \in Nat
  BY <1>1, LenProperties DEF IInv, TypeOK, Done
<1>4. checks' <= 2 * Done' + Len(todo')
  BY <1>1, <1>2, <1>3 DEF CostInv
<1> QED
  BY <1>1, <1>2, <1>4 DEF CostInv, Reported

\* Steps that check nothing.
LEMMA RestCost ==
    ASSUME IInv, CostInv, IsolationEnds \/ EstablishSessions \/ UNCHANGED vars
    PROVE  CostInv'
<1>1. batch' = batch /\ checks' = checks /\ valid' = valid /\ invalid' = invalid /\ todo' = todo
  BY DEF IsolationEnds, EstablishSessions, vars
<1>2. ChecksBounded'
  BY <1>1, CostGivesBound DEF ChecksBounded
<1>3. Spread' <=> Spread
  BY <1>1 DEF Spread
<1>4. Done' = Done
  BY <1>1 DEF Done
<1> QED
  BY <1>1, <1>2, <1>3, <1>4 DEF CostInv, Reported, IsolationEnds, EstablishSessions, vars

\* A batch of n responses costs at most 2n aggregate checks.
THEOREM CostIsBounded == Spec => []ChecksBounded
<1>1. Init => CostInv
  BY InitCost
<1>2. IInv /\ IInv' /\ CostInv /\ [Next]_vars => CostInv'
  BY AggregateCost, SortingCost, SplitCost, RestCost DEF Next
<1>3. IInv /\ CostInv => ChecksBounded
  BY CostGivesBound
<1> QED
  BY <1>1, <1>2, <1>3, Invariant, PTL DEF Spec
-----------------------------------------------------------------------------
(***************************************************************************)
(* The cost when few responses are faulty.  Powers of two are counted as   *)
(* sets of subsets, of which FS_SUBSET knows the size.                     *)
(***************************************************************************)
LEMMA LeastExists ==
    ASSUME NEW T \in SUBSET Nat, T # {}
    PROVE  \E m \in T : \A k \in T : m <= k
  <1>1. PICK m \in T : \A y \in T : ~ (<<y, m>> \in OpToRel(<, Nat))
    BY NatLessThanWellFounded, WFMin
  <1>2. ASSUME NEW y \in T PROVE ~ (y < m)
    <2>1. y \in Nat /\ m \in Nat
      OBVIOUS
    <2>2. y < m => <<y, m>> \in OpToRel(<, Nat)
      BY <2>1, Zenon DEF OpToRel
    <2> QED
      BY <1>1, <2>2
  <1> QED
    BY <1>2

LEMMA PowerIsCount ==
    ASSUME NEW n \in Nat
    PROVE  /\ IsFiniteSet(SUBSET (1 .. n)) /\ 2^n = Cardinality(SUBSET (1 .. n)) /\ 2^n \in Nat
  <1>1. IsFiniteSet(1 .. n) /\ Cardinality(1 .. n) = n
    BY FS_Interval
  <1> QED
    BY <1>1, FS_SUBSET, FS_CardinalityType

LEMMA PowerDoubles ==
    ASSUME NEW n \in Nat
    PROVE  2^(n + 1) = 2 * 2^n
  <1> DEFINE A == SUBSET (1 .. n)
             B == {X \cup {n + 1} : X \in A}
             f == [X \in A |-> X \cup {n + 1}]
  <1>1. n + 1 \notin 1 .. n /\ 1 .. n + 1 = (1 .. n) \cup {n + 1}
    OBVIOUS
  <1>2. SUBSET (1 .. n + 1) = A \cup B
    <2>1. ASSUME NEW X \in SUBSET (1 .. n + 1) PROVE X \in A \cup B
      <3>1. CASE n + 1 \in X
        <4>1. X = (X \ {n + 1}) \cup {n + 1} /\ X \ {n + 1} \in A
          BY <1>1, <3>1
        <4> QED
          BY <4>1
      <3>2. CASE n + 1 \notin X
        BY <1>1, <3>2
      <3> QED
        BY <3>1, <3>2
    <2>2. ASSUME NEW X \in A \cup B PROVE X \in SUBSET (1 .. n + 1)
      BY <1>1
    <2> QED
      BY <2>1, <2>2
  <1>3. A \cap B = {}
    BY <1>1
  <1>4. f \in Bijection(A, B)
    <2>1. f \in [A -> B] /\ \A Y \in B : \E X \in A : f[X] = Y
      OBVIOUS
    <2>2. ASSUME NEW X \in A, NEW Y \in A, f[X] = f[Y] PROVE X = Y
      <3>1. X \cup {n + 1} = Y \cup {n + 1} /\ n + 1 \notin X /\ n + 1 \notin Y
        BY <1>1, <2>2
      <3> QED
        BY <3>1
    <2> QED
      BY <2>1, <2>2 DEF Bijection, Injection, Surjection, IsInjective
  <1>5. IsFiniteSet(A) /\ 2^n = Cardinality(A) /\ 2^n \in Nat
    BY PowerIsCount
  <1>6. IsFiniteSet(B) /\ Cardinality(B) = Cardinality(A)
    BY <1>4, <1>5, FS_Bijection DEF ExistsBijection
  <1> HIDE DEF A, B
  <1>7. Cardinality(A \cup B) = Cardinality(A) + Cardinality(B)
    BY <1>3, <1>5, <1>6, FS_Union, FS_EmptySet
  <1>8. 2^(n + 1) = Cardinality(SUBSET (1 .. n + 1))
    <2> DEFINE k == n + 1
    <2>1. k \in Nat
      OBVIOUS
    <2> HIDE DEF k
    <2>2. 2^k = Cardinality(SUBSET (1 .. k))
      BY <2>1, PowerIsCount
    <2> QED
      BY <2>2 DEF k
  <1>9. Cardinality(A) + Cardinality(A) = 2 * 2^n
    BY <1>5
  <1> QED
    BY <1>2, <1>6, <1>7, <1>8, <1>9

LEMMA PowerZero == 2^0 = 1
  <1>1. 2^0 = Cardinality(SUBSET (1 .. 0))
    BY PowerIsCount
  <1>2. SUBSET (1 .. 0) = {{}}
    OBVIOUS
  <1> QED
    BY <1>1, <1>2, FS_Singleton

LEMMA CountTo ==
    ASSUME NEW n \in Nat
    PROVE  IsFiniteSet(1 .. n) /\ Cardinality(1 .. n) = n
  <1>1. IsFiniteSet(1 .. n) /\ Cardinality(1 .. n) = IF 1 > n THEN 0 ELSE n - 1 + 1
    BY FS_Interval
  <1> QED
    BY <1>1

LEMMA PowerExceeds ==
    ASSUME NEW n \in Nat
    PROVE  2^n >= n
  <1> DEFINE f == [i \in 1 .. n |-> {i}]
  <1>1. f \in Injection(1 .. n, SUBSET (1 .. n))
    <2>1. f \in [1 .. n -> SUBSET (1 .. n)] /\ \A i, j \in 1 .. n : f[i] = f[j] => i = j
      OBVIOUS
    <2> QED
      BY <2>1 DEF Injection, IsInjective
  <1>2. Cardinality(1 .. n) = n
    BY CountTo
  <1>3. Cardinality(1 .. n) <= Cardinality(SUBSET (1 .. n))
    <2>1. IsFiniteSet(1 .. n) /\ IsFiniteSet(SUBSET (1 .. n))
      BY PowerIsCount, CountTo
    <2> HIDE DEF f
    <2> QED
      BY <1>1, <2>1, FS_Injection
  <1> QED
    BY <1>2, <1>3, PowerIsCount

\* CeilLog2 is what its name says.
LEMMA LogIs ==
    ASSUME NEW n \in Nat
    PROVE  /\ CeilLog2(n) \in Nat /\ 2^CeilLog2(n) >= n
           /\ \A e \in Nat : 2^e >= n => CeilLog2(n) <= e
  <1> DEFINE T == {d \in 0 .. n : 2^d >= n}
             P(d) == 2^d >= n /\ \A e \in 0 .. d - 1 : 2^e < n
  <1>1. n \in T
    BY PowerExceeds
  <1>2. PICK m \in T : \A k \in T : m <= k
    <2>1. T \in SUBSET Nat /\ T # {}
      BY <1>1
    <2> HIDE DEF T
    <2> QED
      BY <2>1, LeastExists
  <1>3. \A e \in Nat : 2^e \in Nat
    BY PowerIsCount
  <1>4. m \in 0 .. n /\ P(m)
    BY <1>2, <1>3
  <1>5. CeilLog2(n) = CHOOSE d \in 0 .. n : P(d)
    BY DEF CeilLog2
  <1>6. CeilLog2(n) \in 0 .. n /\ P(CeilLog2(n))
    BY <1>4, <1>5
  <1> QED
    BY <1>3, <1>6

\* A half of a slice has a level less to go.
LEMMA HalvesAreLower ==
    ASSUME NEW w \in Nat, NEW v \in Nat, w >= 2, 2 * v <= w + 1
    PROVE  CeilLog2(v) + 1 <= CeilLog2(w)
  <1>1. CeilLog2(w) # 0
    <2> SUFFICES ASSUME CeilLog2(w) = 0 PROVE FALSE
      OBVIOUS
    <2>1. 2^CeilLog2(w) >= w
      BY LogIs
    <2>2. 1 >= w
      BY <2>1, PowerZero
    <2> QED
      BY <2>2
  <1>2. PICK k \in Nat : CeilLog2(w) = k + 1
    <2>1. CeilLog2(w) - 1 \in Nat /\ CeilLog2(w) = (CeilLog2(w) - 1) + 1
      BY <1>1, LogIs
    <2> QED
      BY <2>1
  <1>3. 2 * 2^k >= w /\ 2^k \in Nat
    BY <1>2, LogIs, PowerDoubles, PowerIsCount
  <1>4. 2^k >= v
    BY <1>3
  <1>5. CeilLog2(v) <= k /\ CeilLog2(v) \in Nat
    BY <1>4, LogIs
  <1> QED
    BY <1>2, <1>5

LEMMA LogGrows ==
    ASSUME NEW w \in Nat, NEW v \in Nat, v <= w
    PROVE  CeilLog2(v) <= CeilLog2(w)
  <1>1. CeilLog2(w) \in Nat /\ 2^CeilLog2(w) >= w /\ 2^CeilLog2(w) \in Nat
    BY LogIs, PowerIsCount
  <1>2. 2^CeilLog2(w) >= v
    BY <1>1
  <1> QED
    BY <1>1, <1>2, LogIs

-----------------------------------------------------------------------------
\* What is left to pay with: two checks for each faulty response on the stack and
\* each level of its slice.
Levels == CeilLog2(Len(batch))
Credit ==
    {c \in Faulty \X (1 .. Levels) :
        \E i \in 1 .. Len(todo) : c[1] \in In(todo[i]) /\ c[2] <= CeilLog2(Width(todo[i]))}

LogInv ==
    /\ pc = "isolate" =>
          checks + Len(todo) + 2 * Cardinality(Credit) <= 2 + 2 * NumFaulty * Levels
    /\ Reported => ChecksLogarithmic

LEMMA CreditIs ==
    ASSUME IInv
    PROVE  /\ IsFiniteSet(Credit) /\ Cardinality(Credit) \in Nat /\ NumFaulty \in Nat
           /\ Levels \in Nat /\ Cardinality(Credit) <= NumFaulty * Levels
           /\ IsFiniteSet(Faulty \X (1 .. Levels))
           /\ Cardinality(Faulty \X (1 .. Levels)) = NumFaulty * Levels
  <1>1. Len(batch) \in Nat /\ Positions = 1 .. Len(batch)
    BY BatchSeq DEF IInv, TypeOK
  <1>2. Levels \in Nat
    BY <1>1, LogIs DEF Levels
  <1>3. IsFiniteSet(Faulty) /\ NumFaulty \in Nat
    <2>1. IsFiniteSet(1 .. Len(batch))
      BY <1>1, FS_Interval
    <2> QED
      BY <1>1, <2>1, FS_Subset, FS_CardinalityType DEF Faulty, NumFaulty
  <1>4. IsFiniteSet(1 .. Levels) /\ Cardinality(1 .. Levels) = Levels
    BY <1>2, FS_Interval
  <1>5. /\ IsFiniteSet(Faulty \X (1 .. Levels))
        /\ Cardinality(Faulty \X (1 .. Levels)) = NumFaulty * Levels
    BY <1>3, <1>4, FS_Product DEF NumFaulty
  <1>6. Credit \subseteq Faulty \X (1 .. Levels)
    BY DEF Credit
  <1> QED
    BY <1>2, <1>3, <1>5, <1>6, FS_Subset, FS_CardinalityType

LEMMA LogGivesBound ==
    ASSUME IInv, CostInv, LogInv
    PROVE  ChecksLogarithmic
  <1>1. /\ NumFaulty \in Nat /\ Levels \in Nat /\ Cardinality(Credit) \in Nat
        /\ NumFaulty * Levels \in Nat
    <2>1. NumFaulty \in Nat /\ Levels \in Nat /\ Cardinality(Credit) \in Nat
      BY CreditIs
    <2> QED
      BY <2>1
  <1>2. checks \in Nat /\ Len(todo) \in Nat
    BY LenProperties DEF IInv, TypeOK
  <1>3. ChecksLogarithmic <=> checks <= 2 + 2 * NumFaulty * Levels
    BY DEF ChecksLogarithmic, Levels
  <1>4. 2 * NumFaulty * Levels = 2 * (NumFaulty * Levels)
    BY <1>1
  <1>5. CASE pc \in {"aggregate", "aborted"}
    BY <1>1, <1>3, <1>4, <1>5 DEF CostInv
  <1>6. CASE pc = "isolate"
    BY <1>1, <1>2, <1>3, <1>4, <1>6 DEF LogInv
  <1> QED
    BY <1>5, <1>6 DEF LogInv, Reported, IInv, TypeOK

\* The most there ever is to pay with.
LEMMA CreditStep ==
    ASSUME IInv, batch' = batch
    PROVE  /\ NumFaulty' = NumFaulty /\ Levels' = Levels /\ Faulty' = Faulty
           /\ Cardinality(Credit') \in Nat /\ Cardinality(Credit') <= NumFaulty * Levels
  <1>1. Faulty' = Faulty /\ Levels' = Levels
    BY DEF Levels, Faulty, Positions, Honest
  <1>2. Credit' \subseteq Faulty \X (1 .. Levels)
    BY <1>1 DEF Credit
  <1> QED
    BY <1>1, <1>2, CreditIs, FS_Subset, FS_CardinalityType DEF NumFaulty

LEMMA AggregateLog ==
    ASSUME IInv, CostInv, BatchAborts \/ BatchPasses \/ BatchFails
    PROVE  LogInv'
  <1> DEFINE k == NumFaulty
             l == Levels
             c == Cardinality(Credit')
  <1>1. checks' = 1 /\ batch' = batch
    BY DEF CostInv, BatchAborts, BatchPasses, BatchFails
  <1>2. k \in Nat /\ l \in Nat /\ c \in Nat /\ c <= k * l /\ NumFaulty' = k /\ Levels' = l
    BY <1>1, CreditIs, CreditStep
  <1>3. ChecksLogarithmic' <=> checks' <= 2 + 2 * k * l
    BY <1>2 DEF ChecksLogarithmic, Levels
  <1>4. pc' = "isolate" => Len(todo') = 1
    BY DEF BatchAborts, BatchPasses, BatchFails
  <1>5. LogInv' <=> /\ pc' = "isolate" => checks' + Len(todo') + 2 * c <= 2 + 2 * k * l
                    /\ Reported' => ChecksLogarithmic'
    BY <1>2 DEF LogInv
  <1> HIDE DEF k, l, c
  <1>6. k * l \in Nat /\ 2 * k * l = 2 * (k * l)
    BY <1>2
  <1>7. 1 + 1 + 2 * c <= 2 + 2 * k * l /\ 1 <= 2 + 2 * k * l
    BY <1>2, <1>6
  <1> QED
    BY <1>1, <1>3, <1>4, <1>5, <1>7

\* A step of the isolation pays for its check.
LEMMA IsolationPays ==
    ASSUME IInv, LogInv, pc = "isolate", pc' = "isolate", batch' = batch,
           checks' = checks + 1, Len(todo) \in Nat, Len(todo') \in Nat,
           \/ /\ Len(todo') = Len(todo) - 1
              /\ Cardinality(Credit') <= Cardinality(Credit)
           \/ /\ Len(todo') = Len(todo) + 1
              /\ Cardinality(Credit') <= Cardinality(Credit) - 1
    PROVE  LogInv'
  <1> DEFINE b == 2 + 2 * NumFaulty * Levels
             c == Cardinality(Credit)
             d == Cardinality(Credit')
  <1>1. /\ NumFaulty \in Nat /\ Levels \in Nat /\ c \in Nat /\ d \in Nat
        /\ NumFaulty' = NumFaulty /\ Levels' = Levels
    BY CreditIs, CreditStep
  <1>2. checks \in Nat
    BY DEF IInv, TypeOK
  <1>3. b \in Nat /\ checks + Len(todo) + 2 * c <= b
    BY <1>1 DEF LogInv
  <1>4. \/ /\ Len(todo') = Len(todo) - 1
           /\ d <= c
        \/ /\ Len(todo') = Len(todo) + 1
           /\ d <= c - 1
    OBVIOUS
  <1>5. LogInv' <=> /\ pc' = "isolate" => checks' + Len(todo') + 2 * d <= b
                    /\ Reported' => ChecksLogarithmic'
    BY <1>1 DEF LogInv
  <1> HIDE DEF b, c, d
  <1>6. checks' + Len(todo') + 2 * d <= b
    BY <1>1, <1>2, <1>3, <1>4
  <1>7. ~Reported'
    BY DEF Reported
  <1> QED
    BY <1>5, <1>6, <1>7

LEMMA SortingLog ==
    ASSUME IInv, LogInv, SlicePasses \/ LeafFails
    PROVE  LogInv'
  <1>1. /\ pc = "isolate" /\ pc' = pc /\ todo # <<>> /\ todo' = Tail(todo)
        /\ checks' = checks + 1 /\ batch' = batch
    BY DEF SlicePasses, LeafFails
  <1>2. /\ Len(todo) \in Nat \ {0} /\ Len(todo') = Len(todo) - 1
        /\ \A i \in 1 .. Len(todo') : todo'[i] = todo[i + 1]
    BY <1>1, TopOfStack
  <1>3. Faulty' = Faulty /\ Levels' = Levels
    BY <1>1 DEF Faulty, Levels, Positions, Honest
  <1>4. Credit' \subseteq Credit
    <2> SUFFICES ASSUME NEW c \in Faulty \X (1 .. Levels), NEW i \in 1 .. Len(todo'),
                        c[1] \in In(todo'[i]) /\ c[2] <= CeilLog2(Width(todo'[i]))
                 PROVE  c \in Credit
      BY <1>3 DEF Credit, In, Width, CeilLog2
    <2>1. i + 1 \in 1 .. Len(todo) /\ todo'[i] = todo[i + 1]
      BY <1>2
    <2> QED
      BY <2>1 DEF Credit
  <1>5. Cardinality(Credit') <= Cardinality(Credit)
    BY <1>4, CreditIs, FS_Subset
  <1>6. Len(todo') \in Nat /\ Len(todo) \in Nat
    BY <1>2
  <1> QED
    BY <1>1, <1>2, <1>5, <1>6, IsolationPays

\* A split slice has a faulty response, which goes down a level.
LEMMA SplitLog ==
    ASSUME IInv, CostInv, LogInv, SliceSplits
    PROVE  LogInv'
  <1> DEFINE h == Head(todo)
             hs == Halves(h)
  <1>1. /\ pc = "isolate" /\ pc' = pc /\ checks' = checks + 1 /\ batch' = batch /\ Spread
        /\ AggregateMayFail(h)
    BY DEF SliceSplits, CostInv
  <1>2. /\ h \in Slices /\ h = todo[1] /\ Len(todo) \in Nat \ {0} /\ Width(h) # 1
        /\ batch \in Batches
        /\ \A i \in 1 .. Len(todo) : todo[i] \in Slices
        /\ Len(todo) >= 2 => todo[2].lo = h.hi + 1
        /\ Len(todo') = Len(todo) + 1
        /\ \A i \in 1 .. Len(todo') : todo'[i] = IF i <= 2 THEN hs[i] ELSE todo[i - 1]
    BY <1>1, SplitStack
  <1>3. Faulty' = Faulty /\ Levels' = Levels /\ Levels \in Nat
    BY <1>1, CreditIs, CreditStep
  <1>4. /\ h.lo \in Nat /\ h.hi \in Nat /\ 1 <= h.lo /\ h.lo <= h.hi /\ h.hi <= Len(batch)
        /\ Positions = 1 .. Len(batch) /\ Len(batch) \in Nat
    BY <1>2, BatchSeq DEF Slices
  <1>5. /\ Width(h) \in Nat /\ Width(h) >= 2 /\ Width(h) <= Len(batch)
    <2>1. Width(h) = h.hi + 1 - h.lo /\ Width(h) # 1
      BY <1>2 DEF Width
    <2> HIDE DEF h
    <2> QED
      BY <1>4, <2>1
  <1>6. \A i \in {1, 2} : /\ In(hs[i]) \subseteq In(h)
                           /\ CeilLog2(Width(hs[i])) + 1 <= CeilLog2(Width(h))
                           /\ CeilLog2(Width(hs[i])) \in Nat
    <2> DEFINE q == Width(h) \div 2
    <2>1. /\ q \in Nat /\ q >= 1 /\ 2 * q <= Width(h) /\ Width(h) <= 2 * q + 1
      BY <1>5
    <2>2. hs = <<Slice(h.lo, (h.lo + q) - 1), Slice(h.lo + q, h.hi)>>
      BY DEF Halves
    <2>3. /\ hs[1].lo = h.lo /\ hs[1].hi = (h.lo + q) - 1
          /\ hs[2].lo = h.lo + q /\ hs[2].hi = h.hi
      <3> HIDE DEF h, hs, q
      <3> QED
        BY <2>2 DEF Slice
    <2> DEFINE lo == h.lo
               hi == h.hi
    <2>4. /\ lo \in Nat /\ hi \in Nat /\ lo <= hi /\ Width(h) = hi + 1 - lo
          /\ Width(hs[1]) = ((lo + q) - 1) + 1 - lo /\ Width(hs[2]) = hi + 1 - (lo + q)
          /\ In(hs[1]) = lo .. ((lo + q) - 1) /\ In(hs[2]) = lo + q .. hi /\ In(h) = lo .. hi
      BY <1>4, <2>3 DEF Width, In
    <2> HIDE DEF h, hs, q, lo, hi
    <2>5. In(hs[1]) \subseteq In(h) /\ In(hs[2]) \subseteq In(h)
      BY <2>1, <2>4
    <2>6. /\ Width(hs[1]) \in Nat /\ 2 * Width(hs[1]) <= Width(h) + 1
          /\ Width(hs[2]) \in Nat /\ 2 * Width(hs[2]) <= Width(h) + 1
      BY <2>1, <2>4
    <2> QED
      BY <1>5, <2>5, <2>6, HalvesAreLower, LogIs
  <1>7. CeilLog2(Width(h)) \in 1 .. Levels
    <2>1. CeilLog2(Width(h)) \in Nat /\ CeilLog2(Width(h)) >= 1
      <3> DEFINE n == CeilLog2(Width(hs[1]))
                 m == CeilLog2(Width(h))
      <3>1. n \in Nat /\ n + 1 <= m /\ m \in Nat
        BY <1>5, <1>6, LogIs
      <3> HIDE DEF n, m
      <3>2. m >= 1
        BY <3>1
      <3> QED
        BY <3>1, <3>2 DEF m
    <2>2. CeilLog2(Width(h)) <= Levels
      BY <1>4, <1>5, LogGrows DEF Levels
    <2> QED
      BY <1>3, <2>1, <2>2
  <1>8. PICK p \in In(h) : ~Honest(p)
    BY <1>1 DEF AggregateMayFail
  <1>9. p \in Faulty
    BY <1>4, <1>8 DEF Faulty, In
  <1>10. <<p, CeilLog2(Width(h))>> \in Credit
    <2>1. 1 \in 1 .. Len(todo) /\ CeilLog2(Width(h)) <= CeilLog2(Width(todo[1]))
      BY <1>2, <1>7
    <2> QED
      BY <1>2, <1>7, <1>8, <1>9, <2>1 DEF Credit
  <1> HIDE DEF h, hs
  <1>11. ASSUME NEW c \in Faulty \X (1 .. Levels), NEW i \in 1 .. Len(todo'),
                c[1] \in In(todo'[i]) /\ c[2] <= CeilLog2(Width(todo'[i]))
         PROVE  c \in Credit /\ c # <<p, CeilLog2(Width(h))>>
    <2>1. CASE i \in {1, 2}
      <3>1. /\ c[1] \in In(h) /\ c[2] <= CeilLog2(Width(hs[i])) /\ c[2] \in Nat
        BY <1>2, <1>3, <1>6, <1>11, <2>1
      <3>2. c[2] < CeilLog2(Width(h)) /\ c[2] <= CeilLog2(Width(h))
        BY <1>3, <1>6, <1>7, <2>1, <3>1
      <3>3. 1 \in 1 .. Len(todo) /\ c[1] \in In(todo[1]) /\ c[2] <= CeilLog2(Width(todo[1]))
        BY <1>2, <3>1, <3>2
      <3> QED
        BY <3>1, <3>2, <3>3 DEF Credit
    <2>2. CASE i \notin {1, 2}
      <3>1. /\ todo'[i] = todo[i - 1] /\ i - 1 \in 1 .. Len(todo) /\ 2 <= i - 1 /\ i \in Nat
            /\ 2 \in 1 .. Len(todo)
        BY <1>2, <2>2
      <3>2. todo[2].lo + ((i - 1) - 2) <= todo[i - 1].lo /\ todo[2].lo = h.hi + 1
        BY <1>1, <1>2, <3>1 DEF Spread
      <3>3. todo[i - 1].lo \in Nat /\ todo[i - 1].hi \in Nat
        BY <1>2, <3>1 DEF Slices
      <3>4. h.hi < todo[i - 1].lo
        <4> DEFINE x == todo[2].lo
                   y == todo[i - 1].lo
        <4>1. x + ((i - 1) - 2) <= y /\ x = h.hi + 1 /\ y \in Nat
          BY <3>2, <3>3
        <4> HIDE DEF x, y, h
        <4>2. h.hi < y
          <5>1. i \in Nat /\ 2 <= i - 1 /\ h.hi \in Nat
            BY <1>4, <3>1
          <5> QED
            BY <4>1, <5>1
        <4> QED
          BY <4>2 DEF y
      <3>5. p \notin In(todo[i - 1])
        BY <1>4, <1>8, <3>3, <3>4 DEF In
      <3> QED
        BY <1>11, <3>1, <3>5 DEF Credit
    <2> QED
      BY <2>1, <2>2
  <1>12. Credit' \subseteq Credit \ {<<p, CeilLog2(Width(h))>>}
    BY <1>3, <1>11 DEF Credit, In, Width, CeilLog2
  <1>13. Cardinality(Credit') <= Cardinality(Credit) - 1
    <2>1. IsFiniteSet(Credit)
      BY CreditIs
    <2>2. /\ IsFiniteSet(Credit \ {<<p, CeilLog2(Width(h))>>})
          /\ Cardinality(Credit \ {<<p, CeilLog2(Width(h))>>}) = Cardinality(Credit) - 1
      BY <1>10, <2>1, FS_RemoveElement
    <2> QED
      BY <1>12, <2>2, FS_Subset
  <1>14. Len(todo') \in Nat /\ Len(todo) \in Nat
    BY <1>2
  <1> QED
    BY <1>1, <1>2, <1>13, <1>14, IsolationPays

\* Steps that check nothing.
LEMMA RestLog ==
    ASSUME IInv, CostInv, LogInv, IsolationEnds \/ EstablishSessions \/ UNCHANGED vars
    PROVE  LogInv'
  <1>1. batch' = batch /\ checks' = checks /\ todo' = todo
    BY DEF IsolationEnds, EstablishSessions, vars
  <1>2. /\ NumFaulty' = NumFaulty /\ Levels' = Levels /\ Credit' = Credit
    BY <1>1, CreditStep DEF Credit
  <1>3. ChecksLogarithmic'
    BY <1>1, <1>2, LogGivesBound DEF ChecksLogarithmic, Levels
  <1>4. pc' = "isolate" => pc = "isolate"
    BY DEF IsolationEnds, EstablishSessions, vars
  <1> QED
    BY <1>1, <1>2, <1>3, <1>4 DEF LogInv

\* The docstring's O(k log N): k faulty responses among n cost _divide_and_conquer
\* at most two aggregate checks per faulty response and level, however the random
\* weights fall, for batches of any size.
THEOREM CostIsLogarithmic == Spec => []ChecksLogarithmic
  <1>1. Init => CostInv /\ LogInv
    BY InitCost DEF Init, LogInv, Reported
  <1>2. IInv /\ IInv' /\ CostInv /\ [Next]_vars => CostInv'
    BY AggregateCost, SortingCost, SplitCost, RestCost DEF Next
  <1>3. IInv /\ CostInv /\ LogInv /\ [Next]_vars => LogInv'
    BY AggregateLog, SortingLog, SplitLog, RestLog DEF Next
  <1>4. IInv /\ CostInv /\ LogInv => ChecksLogarithmic
    BY LogGivesBound
  <1> QED
    BY <1>1, <1>2, <1>3, <1>4, Invariant, PTL DEF Spec
=============================================================================
