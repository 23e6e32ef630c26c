-------------------------- MODULE FFHandoffProofs --------------------------
(***************************************************************************)
(* Proofs about the handoff, for any number of readers, any frame and any  *)
(* word size: what a reader gets in every build, and what more in one that *)
(* keeps its stores in order; that no reader waits for the writer; and     *)
(* that the callbacks of the tap are the one writer it is right for.       *)
(***************************************************************************)
EXTENDS FFAudio, FiniteSetTheorems, TLAPS

\* Below the modulus the wrapped counter is the counter.
LEMMA U32Small == ASSUME NEW n \in Nat, n < W PROVE U32(n) = n
  BY HandoffAssumption DEF U32

\* The wrapped counter fits the word.
LEMMA U32Range == ASSUME NEW n \in Nat PROVE U32(n) \in Nat /\ U32(n) < W
  BY HandoffAssumption DEF U32

\* The modulus is a positive multiple of four, as every 2^w from w = 2 on is.
LEMMA QuarterW == \E k \in Nat : W = 4 * k /\ k > 0
  BY HandoffAssumption

\* A counter is some whole laps of the modulus and its wrapped value.
LEMMA Split == ASSUME NEW n \in Nat PROVE \E q \in Nat : n = q * W + U32(n)
  <1>1. n = (n \div W) * W + (n % W)
    BY HandoffAssumption
  <1>2. n \div W \in Nat
    BY HandoffAssumption
  <1> QED BY <1>1, <1>2, HandoffAssumption DEF U32

\* Wrapping keeps the parity that ff_handoff_read tests for "mid-flight".
LEMMA U32Parity == ASSUME NEW n \in Nat PROVE U32(n) % 2 = n % 2
  <1>1. PICK q \in Nat : n = q * W + U32(n) BY Split
  <1>2. PICK k \in Nat : W = 4 * k BY QuarterW
  <1>3. PICK m \in Nat : m = q * k OBVIOUS
  <1>4. n = 4 * m + U32(n) BY <1>1, <1>2, <1>3
  <1> QED BY <1>4, U32Range

\* Wrapping keeps the slot: (seq / 2) & 1 is that of the counter.
LEMMA U32Slot == ASSUME NEW n \in Nat PROVE (U32(2 * n) \div 2) % 2 = n % 2
  <1>1. PICK q \in Nat : 2 * n = q * W + U32(2 * n) BY Split
  <1>2. PICK k \in Nat : W = 4 * k BY QuarterW
  <1>3. PICK m \in Nat : m = q * k OBVIOUS
  <1>4. 2 * n = 4 * m + U32(2 * n) BY <1>1, <1>2, <1>3
  <1> QED BY <1>4, U32Range

----------------------------------------------------------------------------

\* The writer works in the slot of the publish it is at.
LEMMA FlightSlotIs == ASSUME seq \in Nat PROVE FlightSlot = Flight % 2
  <1>1. Flight \in Nat BY DEF Flight
  <1> QED BY <1>1, U32Slot DEF FlightSlot

\* A reader copies from a slot, ...
LEMMA ReadSlotRange == ASSUME NEW r \in Readers, s[r] \in Nat PROVE ReadSlot(r) \in 0..1
  <1>1. \A n \in Nat : (n \div 2) % 2 \in 0..1 OBVIOUS
  <1> QED BY <1>1, U32Range DEF ReadSlot

\* ... that of the publish it loaded.
LEMMA ReadSlotIs ==
  ASSUME NEW r \in Readers, s[r] \in Nat, s[r] % 2 = 0
  PROVE  ReadSlot(r) = (s[r] \div 2) % 2 /\ ReadSlot(r) \in 0..1
  <1>1. s[r] \div 2 \in Nat /\ s[r] = 2 * (s[r] \div 2) OBVIOUS
  <1>2. ReadSlot(r) = (s[r] \div 2) % 2 BY <1>1, U32Slot DEF ReadSlot
  <1> QED BY <1>2, ReadSlotRange

\* Less than one lap behind, the wrapped test is the plain difference.
LEMMA UnlappedIs ==
  ASSUME NEW r \in Readers, seq \in Nat, s[r] \in Nat, s[r] <= seq, seq - s[r] < W
  PROVE  Unlapped(r) <=> seq - s[r] < 3
  <1>1. seq - s[r] \in Nat OBVIOUS
  <1> QED BY <1>1, U32Small DEF Unlapped

\* The zeroed handoff satisfies the invariant.
LEMMA InitInv == Init => IInv
  <1> SUFFICES ASSUME Init PROVE IInv OBVIOUS
  <1> USE HandoffAssumption
  <1>1. TypeOK BY DEF Init, TypeOK, Whole
  <1>2. SlotsInv BY DEF Init, SlotsInv, Newest, Flight, Whole
  <1>3. CopyInv /\ NearCopyInv BY DEF Init, CopyInv, NearCopyInv
  <1>4. FrameInv BY DEF Init, FrameInv, NoTornFrame, Newest, Whole
  <1> QED BY <1>1, <1>2, <1>3, <1>4 DEF IInv

\* A reader copies only in an attempt it has left to make.
AttemptInv ==
  \A r \in Readers :
    /\ pc[r] = "copy" => tries[r] < MaxTries
    /\ pc[r] # "copy" => copied[r] = {}

\* No store, load or copy leaves the variables' types, whatever order the stores take.
LEMMA TypeStep == TypeOK /\ AttemptInv /\ [Next]_vars => TypeOK'
  <1> SUFFICES ASSUME TypeOK, AttemptInv, [Next]_vars PROVE TypeOK' OBVIOUS
  <1> USE HandoffAssumption DEF TypeOK
  <1>1. Flight \in Nat /\ FlightSlot \in 0..1
    <2>1. seq \in Nat /\ Flight \in Nat BY DEF Flight
    <2> QED BY <2>1, FlightSlotIs
  <1>2. CASE PublishOdd
    BY <1>2 DEF PublishOdd, BumpSeq, readerVars
  <1>3. ASSUME NEW w \in Words, PublishWord(w) PROVE TypeOK'
    BY <1>1, <1>3 DEF PublishWord, readerVars
  <1>4. CASE PublishEven
    BY <1>4 DEF PublishEven, BumpSeq, readerVars
  <1>5. ASSUME NEW r \in Readers, Call(r) PROVE TypeOK'
    BY <1>5 DEF Call, writerVars
  <1>6. ASSUME NEW r \in Readers, ReturnFalse(r) PROVE TypeOK'
    BY <1>6 DEF ReturnFalse, writerVars
  <1>7. ASSUME NEW r \in Readers, LoadOdd(r) PROVE TypeOK'
    BY <1>7 DEF LoadOdd, writerVars
  <1>8. ASSUME NEW r \in Readers, LoadEven(r) PROVE TypeOK'
    BY <1>8 DEF LoadEven, writerVars
  <1>9. ASSUME NEW r \in Readers, NEW w \in Words, CopyWord(r, w) PROVE TypeOK'
    <2>1. ReadSlot(r) \in 0..1 BY ReadSlotRange
    <2> QED BY <1>9, <2>1 DEF CopyWord, writerVars
  <1>10. ASSUME NEW r \in Readers, Accept(r) PROVE TypeOK'
    BY <1>10 DEF Accept, EndAttempt, Whole, writerVars
  <1>11. ASSUME NEW r \in Readers, Retry(r) PROVE TypeOK'
    BY <1>11 DEF Retry, EndAttempt, Whole, writerVars, AttemptInv
  <1>12. CASE UNCHANGED vars
    BY <1>12 DEF vars
  <1> QED BY <1>2, <1>3, <1>4, <1>5, <1>6, <1>7, <1>8, <1>9, <1>10, <1>11, <1>12
          DEF Next, Writer, InCall

\* ... and an attempt is left only by ending the call or counting it.
LEMMA AttemptStep == TypeOK /\ AttemptInv /\ [Next]_vars => AttemptInv'
  <1> SUFFICES ASSUME TypeOK, AttemptInv, [Next]_vars PROVE AttemptInv' OBVIOUS
  <1>1. CASE Writer
    BY <1>1 DEF Writer, PublishOdd, PublishEven, PublishWord, readerVars, AttemptInv
  <1>2. ASSUME NEW r \in Readers, Call(r) \/ InCall(r) PROVE AttemptInv'
    BY <1>2 DEF Call, InCall, ReturnFalse, LoadOdd, LoadEven, CopyWord, Accept, Retry, EndAttempt,
                AttemptInv, TypeOK
  <1>3. CASE UNCHANGED vars
    BY <1>3 DEF vars, AttemptInv
  <1> QED BY <1>1, <1>2, <1>3 DEF Next

\* The types, of a build that keeps no order between its stores too.
LEMMA AttemptInvariant == Spec => [](TypeOK /\ AttemptInv)
  <1>1. Init => AttemptInv BY DEF Init, AttemptInv
  <1>2. Init => TypeOK BY InitInv DEF IInv
  <1> QED BY <1>1, <1>2, TypeStep, AttemptStep, PTL DEF Spec

----------------------------------------------------------------------------

\* Whatever the writer does, the newest frame stays whole in its slot and the
\* frame before it is overwritten by the frame in flight only.
LEMMA SlotsStep == IInv /\ [Next]_vars => SlotsInv'
  <1> SUFFICES ASSUME IInv, [Next]_vars PROVE SlotsInv' OBVIOUS
  <1> USE HandoffAssumption
  <1>0. /\ seq \in Nat /\ stored \subseteq Words
        /\ slot \in [0..1 -> [Words -> Nat]]
        /\ FlightSlot = Flight % 2
    BY FlightSlotIs DEF IInv, TypeOK
  <1> USE <1>0
  <1>1. CASE PublishOdd
    BY <1>1 DEF PublishOdd, BumpSeq, Writing, IInv, SlotsInv, Newest, Flight
  <1>2. ASSUME NEW w \in Words, PublishWord(w) PROVE SlotsInv'
    <2>1. (StoresInOrder => Writing) /\ UNCHANGED seq BY <1>2 DEF PublishWord
    <2>2. Newest \in Nat /\ Flight = Newest + 1 /\ Newest % 2 # Flight % 2 /\ Flight % 2 \in 0..1
          /\ Newest % 2 \in 0..1
      BY DEF Newest, Flight
    <2>3. UNCHANGED <<Newest, Flight, Writing>> BY <2>1 DEF Newest, Flight, Writing
    <2> QED BY <1>2, <2>1, <2>2, <2>3 DEF PublishWord, IInv, SlotsInv
  <1>3. CASE PublishEven
    <2>1. Newest' = Flight /\ Flight' = Newest + 2 /\ Newest \in Nat /\ Flight = Newest + 1
          /\ Flight' % 2 = Newest % 2 /\ Newest' # 0
      BY <1>3 DEF PublishEven, BumpSeq, Writing, Newest, Flight
    <2> QED BY <1>3, <2>1 DEF PublishEven, IInv, SlotsInv
  <1>4. CASE UNCHANGED writerVars
    BY <1>4 DEF writerVars, IInv, SlotsInv, Newest, Flight, Writing
  <1> QED BY <1>1, <1>2, <1>3, <1>4
          DEF Next, Writer, InCall, Call, ReturnFalse, LoadOdd, LoadEven, CopyWord, Accept,
              Retry, vars, writerVars

\* A reader in a copy stays less than one lap behind an even counter.
LEMMA CopyInvStep == IInv /\ [Next]_vars => CopyInv'
  <1> SUFFICES ASSUME IInv, [Next]_vars PROVE CopyInv' OBVIOUS
  <1> USE HandoffAssumption DEF CopyInv
  <1>0. TypeOK /\ CopyInv BY DEF IInv
  <1> USE <1>0
  <1>1. CASE PublishOdd \/ PublishEven
    BY <1>1 DEF PublishOdd, PublishEven, BumpSeq, NoFullLap, readerVars, TypeOK
  <1>2. ASSUME NEW w \in Words, PublishWord(w) PROVE CopyInv'
    BY <1>2 DEF PublishWord, readerVars
  <1>3. ASSUME NEW r \in Readers,
               Call(r) \/ ReturnFalse(r) \/ LoadOdd(r) \/ Accept(r) \/ Retry(r)
        PROVE  CopyInv'
    BY <1>3 DEF Call, ReturnFalse, LoadOdd, Accept, Retry, EndAttempt, writerVars, TypeOK
  <1>4. ASSUME NEW r \in Readers, LoadEven(r) PROVE CopyInv'
    <2>1. seq % 2 = 0 /\ seq \in Nat
      <3>1. seq \in Nat BY DEF TypeOK
      <3> QED BY <1>4, <3>1, U32Parity DEF LoadEven
    <2>2. StoresInOrder => \A w \in Words : frame[r][w] <= seq \div 2
      BY DEF IInv, FrameInv, Newest
    <2>3. /\ pc' = [pc EXCEPT ![r] = "copy"] /\ s' = [s EXCEPT ![r] = seq]
          /\ pc[r] = "load" /\ tries[r] < MaxTries
          /\ UNCHANGED <<tries, copied, out, frame, seq>>
      BY <1>4 DEF LoadEven, writerVars
    <2>4. seq - seq < W BY <2>1
    <2>5. s'[r] = seq /\ pc'[r] = "copy" BY <2>3 DEF TypeOK
    <2>6. \A q \in Readers : q # r => s'[q] = s[q] /\ pc'[q] = pc[q] BY <2>3 DEF TypeOK
    <2> QED BY <2>1, <2>2, <2>3, <2>4, <2>5, <2>6
  <1>5. ASSUME NEW r \in Readers, NEW w \in Words, CopyWord(r, w) PROVE CopyInv'
    BY <1>5 DEF CopyWord, writerVars, TypeOK
  <1>6. CASE UNCHANGED vars
    BY <1>6 DEF vars
  <1> QED BY <1>1, <1>2, <1>3, <1>4, <1>5, <1>6 DEF Next, Writer, InCall

\* What a reader copies before the third store is the frame it loaded, and in a build
\* that keeps no order also words of the publish after the next.
LEMMA NearCopyStep == IInv /\ [Next]_vars => NearCopyInv'
  <1> SUFFICES ASSUME IInv, [Next]_vars PROVE NearCopyInv' OBVIOUS
  <1> USE DEF NearCopyInv
  <1>0. TypeOK /\ SlotsInv /\ CopyInv /\ NearCopyInv BY DEF IInv
  <1> USE <1>0
  <1>1. CASE PublishOdd \/ PublishEven
    <2>1. seq' = seq + 1 /\ seq \in Nat /\ UNCHANGED <<pc, s, copied, out>>
      BY <1>1 DEF PublishOdd, PublishEven, BumpSeq, readerVars, TypeOK
    <2>2. SUFFICES ASSUME NEW r \in Readers, pc'[r] = "copy", seq' - s'[r] < 3,
                          NEW w \in copied'[r]
                   PROVE  out'[r][w] = s'[r] \div 2
      OBVIOUS
    <2>3. s[r] \in Nat /\ seq - s[r] < 3 /\ seq - s[r] # 2 BY <2>1, <2>2 DEF TypeOK
    <2> QED BY <2>1, <2>2, <2>3
  <1>2. ASSUME NEW w \in Words, PublishWord(w) PROVE NearCopyInv'
    BY <1>2 DEF PublishWord, readerVars
  <1>3. ASSUME NEW r \in Readers,
               Call(r) \/ ReturnFalse(r) \/ LoadOdd(r) \/ Accept(r) \/ Retry(r)
        PROVE  NearCopyInv'
    BY <1>3 DEF Call, ReturnFalse, LoadOdd, Accept, Retry, EndAttempt, writerVars, TypeOK
  <1>4. ASSUME NEW r \in Readers, LoadEven(r) PROVE NearCopyInv'
    BY <1>4 DEF LoadEven, writerVars, TypeOK, CopyInv
  <1>5. ASSUME NEW r \in Readers, NEW w \in Words, CopyWord(r, w) PROVE NearCopyInv'
    <2>1. /\ pc[r] = "copy" /\ s[r] \in Nat /\ seq \in Nat /\ s[r] % 2 = 0 /\ s[r] <= seq
          /\ ReadSlot(r) = (s[r] \div 2) % 2
      <3>1. pc[r] = "copy" /\ s[r] \in Nat /\ s[r] % 2 = 0 BY <1>5 DEF CopyWord, CopyInv, TypeOK
      <3> QED BY <3>1, ReadSlotIs DEF CopyInv, TypeOK
    <2>2. ASSUME seq - s[r] < 3
          PROVE  \/ slot[ReadSlot(r)][w] = s[r] \div 2
                 \/ ~StoresInOrder /\ seq - s[r] = 2 /\ slot[ReadSlot(r)][w] = s[r] \div 2 + 2
      <3>1. CASE seq = s[r] \/ seq = s[r] + 1
        <4>1. Newest = s[r] \div 2 BY <3>1, <2>1 DEF Newest
        <4> QED BY <4>1, <2>1 DEF SlotsInv
      <3>2. CASE seq = s[r] + 2
        <4>1. /\ Newest = (s[r] \div 2) + 1 /\ Flight = (s[r] \div 2) + 2 /\ ~Writing
              /\ s[r] \div 2 \in Nat
          BY <3>2, <2>1 DEF Newest, Flight, Writing
        <4>2. Flight % 2 = ReadSlot(r) BY <4>1, <2>1
        <4>3. StoresInOrder => stored = {} BY <4>1 DEF SlotsInv
        <4>4. slot[ReadSlot(r)][w] = IF w \in stored THEN Flight ELSE Newest - 1
          BY <4>1, <4>2 DEF SlotsInv
        <4>5. CASE w \in stored
          <5>1. ~StoresInOrder BY <4>3, <4>5
          <5>2. seq - s[r] = 2 BY <3>2, <2>1
          <5> QED BY <4>1, <4>4, <4>5, <5>1, <5>2
        <4>6. CASE w \notin stored BY <4>1, <4>4, <4>6
        <4> QED BY <4>5, <4>6
      <3> QED BY <3>1, <3>2, <2>1, <2>2
    <2> QED BY <1>5, <2>1, <2>2 DEF CopyWord, writerVars, TypeOK
  <1>6. CASE UNCHANGED vars
    BY <1>6 DEF vars
  <1> QED BY <1>1, <1>2, <1>3, <1>4, <1>5, <1>6 DEF Next, Writer, InCall

\* What an accepting reader has copied where stores stay in order: one whole frame, no
\* older than any it kept before.
LEMMA AcceptIsWhole ==
  ASSUME StoresInOrder, IInv, NEW r \in Readers, Accept(r)
  PROVE  /\ \A w \in Words : out[r][w] = s[r] \div 2
         /\ \A w \in Words : frame[r][w] <= s[r] \div 2
         /\ s[r] \in Nat /\ seq \in Nat /\ s[r] <= seq
  <1>1. /\ pc[r] = "copy" /\ copied[r] = Words /\ Unlapped(r)
        /\ seq \in Nat /\ s[r] \in Nat
    BY DEF Accept, IInv, TypeOK
  <1>2. s[r] <= seq /\ seq - s[r] < W /\ \A w \in Words : frame[r][w] <= s[r] \div 2
    BY <1>1 DEF IInv, CopyInv
  <1>3. seq - s[r] < 3 BY <1>1, <1>2, UnlappedIs
  <1> QED BY <1>1, <1>2, <1>3 DEF IInv, NearCopyInv

\* Where stores stay in order, a kept frame is whole and never newer than the newest
\* published.
LEMMA FrameStep == IInv /\ [Next]_vars => FrameInv'
  <1> SUFFICES ASSUME IInv, [Next]_vars, StoresInOrder
               PROVE  (NoTornFrame /\ \A r \in Readers, w \in Words : frame[r][w] <= Newest)'
    BY DEF FrameInv
  <1> DEFINE Fine == NoTornFrame /\ \A r \in Readers, w \in Words : frame[r][w] <= Newest
  <1> USE DEF NoTornFrame
  <1>0. TypeOK /\ Fine BY DEF IInv, FrameInv
  <1> USE <1>0
  <1>1. ASSUME NEW r \in Readers, Accept(r) PROVE Fine'
    <2>1. UNCHANGED seq /\ frame' = [frame EXCEPT ![r] = out[r]]
      BY <1>1 DEF Accept, writerVars
    <2>2. UNCHANGED Newest BY <2>1 DEF Newest
    <2>3. s[r] \div 2 <= Newest BY <1>1, AcceptIsWhole DEF Newest
    <2>4. \A w \in Words : out[r][w] = s[r] \div 2 BY <1>1, AcceptIsWhole
    <2> QED BY <2>1, <2>2, <2>3, <2>4 DEF TypeOK
  <1>2. CASE UNCHANGED frame /\ UNCHANGED seq
    BY <1>2 DEF Newest
  <1>3. CASE PublishOdd \/ PublishEven
    <2>1. seq' = seq + 1 /\ UNCHANGED frame /\ seq \in Nat
      BY <1>3 DEF PublishOdd, PublishEven, BumpSeq, readerVars, TypeOK
    <2>2. Newest <= Newest' /\ Newest \in Nat /\ Newest' \in Nat BY <2>1 DEF Newest
    <2> QED BY <2>1, <2>2 DEF TypeOK
  <1> QED BY <1>1, <1>2, <1>3
          DEF Next, Writer, InCall, PublishWord, Call, ReturnFalse, LoadOdd, LoadEven,
              CopyWord, Retry, vars, writerVars, readerVars

----------------------------------------------------------------------------

\* The invariant is inductive in every build: for any number of readers, words, tries
\* and stores, and any word size W.
THEOREM HandoffInvariant == Spec => []IInv
  <1>1. IInv => AttemptInv BY DEF IInv, CopyInv, AttemptInv
  <1>2. IInv /\ [Next]_vars => IInv'
    BY <1>1, TypeStep, SlotsStep, CopyInvStep, NearCopyStep, FrameStep DEF IInv
  <1> QED BY <1>2, InitInv, PTL DEF Spec

\* A copy that would still be accepted, with the test as the difference it computes.
LEMMA CopyIsNear ==
  ASSUME IInv, NEW r \in Readers, pc[r] = "copy", Unlapped(r), NEW w \in copied[r]
  PROVE  \/ out[r][w] = s[r] \div 2
         \/ ~StoresInOrder /\ U32(seq - s[r]) = 2 /\ out[r][w] = s[r] \div 2 + 2
  <1>1. seq \in Nat /\ s[r] \in Nat /\ s[r] <= seq /\ seq - s[r] < W
    BY DEF IInv, TypeOK, CopyInv
  <1>2. seq - s[r] < 3 BY <1>1, UnlappedIs
  <1>3. U32(seq - s[r]) = seq - s[r] BY <1>1, U32Small
  <1> QED BY <1>2, <1>3 DEF IInv, NearCopyInv

\* In every build, one that lets the words of a frame overtake the odd store too, a
\* copy during which no publish ended is the newest frame, whole; and the only other
\* frame a word of an accepted copy can be of is the publish after the one that ended.
THEOREM HandoffWholeUnlessPassed == Spec => []WholeUnlessPassed
  <1>1. IInv => WholeUnlessPassed BY CopyIsNear DEF WholeUnlessPassed
  <1> QED BY <1>1, HandoffInvariant, PTL

\* Where the build keeps its plain stores behind the odd store, which the release store
\* of ff_handoff_publish does not by itself ask for: no caller of ff_handoff_read ever
\* keeps a torn frame.
THEOREM HandoffInOrderNeverTorn ==
  ASSUME StoresInOrder PROVE Spec => []NoTornFrame
  <1>1. IInv => NoTornFrame BY DEF IInv, FrameInv
  <1> QED BY <1>1, HandoffInvariant, PTL

\* In such a build a copy that would still be accepted is that of the newest complete
\* frame.
THEOREM HandoffInOrderCopyIsNewest ==
  ASSUME StoresInOrder PROVE Spec => []CopyIsNewest
  <1>1. IInv => CopyIsNewest BY CopyIsNear DEF CopyIsNewest
  <1> QED BY <1>1, HandoffInvariant, PTL

\* And in such a build no reader ever goes back to an older frame.
THEOREM HandoffInOrderNeverGoesBack ==
  ASSUME StoresInOrder PROVE Spec => FrameNeverGoesBack
  <1>1. IInv /\ [Next]_vars =>
          [\A r \in Readers, w \in Words : frame'[r][w] >= frame[r][w]]_frame
    <2> SUFFICES ASSUME IInv, [Next]_vars, NEW r \in Readers, NEW w \in Words, frame' # frame
                 PROVE  frame'[r][w] >= frame[r][w]
      OBVIOUS
    <2>1. PICK q \in Readers : Accept(q)
      BY DEF Next, Writer, InCall, PublishOdd, PublishEven, PublishWord, Call, ReturnFalse,
             LoadOdd, LoadEven, CopyWord, Retry, vars, writerVars, readerVars
    <2>2. frame' = [frame EXCEPT ![q] = out[q]] BY <2>1 DEF Accept
    <2>3. out[q][w] >= frame[q][w] BY <2>1, AcceptIsWhole DEF IInv, TypeOK
    <2> QED BY <2>2, <2>3 DEF IInv, TypeOK
  <1> QED BY <1>1, HandoffInvariant, PTL DEF Spec, FrameNeverGoesBack

----------------------------------------------------------------------------
(* No reader waits for the writer *)

\* One word copied is one step less.
LEMMA OneWordLess ==
  ASSUME IsFiniteSet(Words), NEW S \in SUBSET Words, NEW w \in Words \ S
  PROVE  Cardinality(Words \ (S \union {w})) = Cardinality(Words \ S) - 1
  <1> DEFINE D == Words \ S
  <1>1. IsFiniteSet(D) BY FS_Subset
  <1>2. Cardinality(D \ {w}) = Cardinality(D) - 1
    <2>1. w \in D OBVIOUS
    <2> HIDE DEF D
    <2> QED BY <1>1, <2>1, FS_RemoveElement
  <1>3. Words \ (S \union {w}) = D \ {w} OBVIOUS
  <1> QED BY <1>2, <1>3

\* Some attempts of c steps each and d more, and the same with one attempt less.
LEMMA AttemptsNat ==
  ASSUME NEW a \in Nat, NEW c \in Nat, NEW d \in Nat
  PROVE  a * c + d \in Nat
  <1>1. a * c \in Nat OBVIOUS
  <1> QED BY <1>1

LEMMA OneAttemptLess ==
  ASSUME NEW a \in Nat, NEW c \in Nat, NEW d \in Nat, NEW e \in Nat, e < c + d
  PROVE  (a - 1) * c + e < a * c + d
  <1>1. (a - 1) * c = a * c - c /\ a * c \in Int OBVIOUS
  <1> QED BY <1>1

\* In any build, and for a frame of finitely many words, ff_handoff_read ends within
\* FF_HANDOFF_MAX_TRIES attempts of its own, whatever the writer and the other readers
\* do meanwhile: it waits for nobody.
THEOREM HandoffReadBounded ==
  ASSUME IsFiniteSet(Words)
  PROVE  Spec => [](\A r \in Readers : StepsLeft(r) \in Nat) /\ ReadBounded
  <1> DEFINE C == Cardinality(Words)
             Rest(r) == IF pc[r] = "copy" THEN Cardinality(Words \ copied[r]) ELSE C + 1
  <1>0. C \in Nat BY FS_CardinalityType
  <1>1. ASSUME TypeOK, NEW r \in Readers
        PROVE  /\ MaxTries \in Nat /\ tries[r] \in Nat /\ MaxTries - tries[r] \in Nat
               /\ Cardinality(Words \ copied[r]) \in Nat /\ Rest(r) \in Nat
    <2>1. Cardinality(Words \ copied[r]) \in Nat
      <3>1. IsFiniteSet(Words \ copied[r]) BY FS_Subset
      <3> QED BY <3>1, FS_CardinalityType
    <2>2. MaxTries \in Nat BY HandoffAssumption
    <2>3. tries[r] \in 0..MaxTries BY <1>1 DEF TypeOK
    <2> QED BY <1>0, <2>1, <2>2, <2>3
  <1>2. ASSUME TypeOK, NEW r \in Readers PROVE StepsLeft(r) \in Nat
    <2>1. C + 2 \in Nat BY <1>0
    <2> QED BY <1>1, <1>2, <2>1, AttemptsNat DEF StepsLeft
  <1>3. ASSUME TypeOK, AttemptInv, NEW r \in Readers, pc[r] # "idle", InCall(r)
        PROVE  pc'[r] = "idle" \/ StepsLeft(r)' < StepsLeft(r)
    <2> DEFINE a == MaxTries - tries[r]
    <2>0. /\ MaxTries \in Nat /\ tries[r] \in Nat
          /\ a \in Nat /\ Rest(r) \in Nat /\ C + 2 \in Nat /\ StepsLeft(r) = a * (C + 2) + Rest(r)
      <3>1. /\ MaxTries \in Nat /\ tries[r] \in Nat /\ a \in Nat /\ Rest(r) \in Nat
        BY <1>1, <1>3
      <3>2. StepsLeft(r) = a * (C + 2) + Rest(r) BY DEF StepsLeft
      <3> QED BY <1>0, <3>1, <3>2
    <2>1. CASE ReturnFalse(r) \/ Accept(r)
      BY <1>3, <2>1 DEF ReturnFalse, Accept, TypeOK
    <2>2. CASE LoadOdd(r)
      <3>1. tries'[r] = tries[r] + 1 /\ pc'[r] = "load" /\ pc[r] = "load"
        BY <1>3, <2>2 DEF LoadOdd, TypeOK
      <3>2. StepsLeft(r)' = (a - 1) * (C + 2) + (C + 1)
        <4>1. MaxTries - tries'[r] = a - 1 BY <2>0, <3>1
        <4> QED BY <3>1, <4>1 DEF StepsLeft
      <3>3. C + 1 \in Nat /\ C + 1 < (C + 2) + Rest(r) BY <1>0, <2>0
      <3> HIDE DEF a, Rest, C
      <3> QED BY <2>0, <3>2, <3>3, OneAttemptLess
    <2>3. CASE LoadEven(r)
      <3>1. UNCHANGED <<tries, copied>> /\ pc'[r] = "copy" /\ pc[r] = "load" /\ copied[r] = {}
        BY <1>3, <2>3 DEF LoadEven, TypeOK, AttemptInv
      <3>2. StepsLeft(r)' = a * (C + 2) + C
        <4>1. Words \ copied'[r] = Words BY <3>1
        <4> QED BY <3>1, <4>1 DEF StepsLeft
      <3>3. Rest(r) = C + 1 BY <3>1
      <3>4. a * (C + 2) \in Int BY <2>0
      <3> HIDE DEF a, Rest
      <3> QED BY <1>0, <2>0, <3>2, <3>3, <3>4
    <2>4. ASSUME NEW w \in Words, CopyWord(r, w) PROVE StepsLeft(r)' < StepsLeft(r)
      <3>1. /\ UNCHANGED <<tries, pc>> /\ pc[r] = "copy"
            /\ w \notin copied[r] /\ copied[r] \subseteq Words /\ copied'[r] = copied[r] \union {w}
        BY <1>3, <2>4 DEF CopyWord, TypeOK
      <3>2. StepsLeft(r)' = a * (C + 2) + (Rest(r) - 1)
        <4>1. Cardinality(Words \ copied'[r]) = Rest(r) - 1 BY <3>1, OneWordLess
        <4> QED BY <3>1, <4>1 DEF StepsLeft
      <3>3. a * (C + 2) \in Int BY <2>0
      <3> HIDE DEF a, Rest, C
      <3> QED BY <2>0, <3>2, <3>3
    <2>5. CASE Retry(r)
      <3>1. tries'[r] = tries[r] + 1 /\ pc'[r] = "load"
        BY <1>3, <2>5 DEF Retry, TypeOK
      <3>2. StepsLeft(r)' = (a - 1) * (C + 2) + (C + 1)
        <4>1. MaxTries - tries'[r] = a - 1 BY <2>0, <3>1
        <4> QED BY <3>1, <4>1 DEF StepsLeft
      <3>3. C + 1 \in Nat /\ C + 1 < (C + 2) + Rest(r) BY <1>0, <2>0
      <3> HIDE DEF a, Rest, C
      <3> QED BY <2>0, <3>2, <3>3, OneAttemptLess
    <2> QED BY <1>3, <2>1, <2>2, <2>3, <2>4, <2>5 DEF InCall
  <1>4. ASSUME TypeOK, [Next]_vars, NEW r \in Readers, pc[r] # "idle", ~InCall(r)
        PROVE  StepsLeft(r)' = StepsLeft(r)
    <2>1. UNCHANGED <<pc[r], tries[r], copied[r]>>
      <3>1. CASE Writer \/ UNCHANGED vars
        BY <3>1 DEF Writer, PublishOdd, PublishEven, PublishWord, readerVars, vars
      <3>2. ASSUME NEW q \in Readers, q # r, Call(q) \/ InCall(q) PROVE UNCHANGED <<pc[r], tries[r], copied[r]>>
        BY <1>4, <3>2 DEF Call, InCall, ReturnFalse, LoadOdd, LoadEven, CopyWord, Accept, Retry,
                          EndAttempt, TypeOK
      <3> QED BY <1>4, <3>1, <3>2 DEF Next, Call
    <2> QED BY <2>1 DEF StepsLeft
  <1>5. TypeOK /\ AttemptInv /\ [Next]_vars =>
          [\A r \in Readers : pc[r] # "idle" =>
             \/ pc'[r] = "idle"
             \/ IF InCall(r) THEN StepsLeft(r)' < StepsLeft(r)
                             ELSE StepsLeft(r)' = StepsLeft(r)]_vars
    BY <1>3, <1>4
  <1>6. TypeOK => \A r \in Readers : StepsLeft(r) \in Nat BY <1>2
  <1> QED BY <1>5, <1>6, AttemptInvariant, PTL DEF Spec, ReadBounded

----------------------------------------------------------------------------
(* One writer, for all the callbacks: FFAudio implements FFHandoff *)

TP == INSTANCE FFAudioTapProofs WITH pc <- at

\* The theorems of FFAudioTapProofs are about the tap that FFAudio runs.
LEMMA SameTap ==
  /\ T!Init => TP!Init
  /\ [T!Next]_(T!vars) => [TP!Next]_(TP!vars)
  <1>1. T!Init => TP!Init
    BY DEF T!Init, TP!Init, T!Feeds, TP!Feeds
  <1>2. T!Scene => TP!Scene
    BY DEF T!Scene, T!Create, T!Rename, T!Expire, T!Named, T!Live, T!Raise,
           T!tapVars, T!callVars, T!sceneVars,
           TP!Scene, TP!Create, TP!Rename, TP!Expire, TP!Named, TP!Live, TP!Raise,
           TP!tapVars, TP!callVars, TP!sceneVars
  <1>3. \A f \in T!Feeds : T!Feed(f) => TP!Feed(f)
    BY DEF T!Feeds, T!Feed, T!FeedBegins, T!Analyse, T!Publish, T!tapVars, T!callVars, T!sceneVars,
           TP!Feed, TP!FeedBegins, TP!Analyse, TP!Publish, TP!tapVars, TP!callVars, TP!sceneVars
  <1>4. (T!OnSignal => TP!OnSignal) /\ (T!Describe => TP!Describe)
    BY DEF T!OnSignal, T!Describe, T!AfterLook, T!ConnFree, T!HaveLive, T!Live, T!ConnectSource,
           T!Audible, T!Named, T!Register, T!Feeds, T!callVars, T!sceneVars,
           TP!OnSignal, TP!Describe, TP!AfterLook, TP!ConnFree, TP!HaveLive, TP!Live,
           TP!ConnectSource, TP!Audible, TP!Named, TP!Register, TP!Feeds, TP!callVars, TP!sceneVars
  <1>5. \A m, n : T!Configure(m, n) => TP!Configure(m, n)
    BY DEF T!Configure, T!tapVars, T!sceneVars, TP!Configure, TP!tapVars, TP!sceneVars
  <1>6. T!ConfigureSteps => TP!ConfigureSteps
    BY DEF T!ConfigureSteps, T!KeepConnection, T!BeginReconnect, T!Disconnect, T!Connect,
           T!DisconnectAll, T!ConnectMaster, T!ConnectSource, T!Audible, T!Named, T!Register,
           T!HaveLive, T!Live, T!Same, T!Feeds, T!tapVars, T!sceneVars,
           TP!ConfigureSteps, TP!KeepConnection, TP!BeginReconnect, TP!Disconnect, TP!Connect,
           TP!DisconnectAll, TP!ConnectMaster, TP!ConnectSource, TP!Audible, TP!Named, TP!Register,
           TP!HaveLive, TP!Live, TP!Same, TP!Feeds, TP!tapVars, TP!sceneVars
  <1>7. T!Destroy => TP!Destroy
    BY DEF T!Destroy, T!DestroySignals, T!DestroyConnections, T!DestroyRest, T!DisconnectAll,
           T!HaveLive, T!Live, T!Feeds, T!tapVars, T!sceneVars,
           TP!Destroy, TP!DestroySignals, TP!DestroyConnections, TP!DestroyRest, TP!DisconnectAll,
           TP!HaveLive, TP!Live, TP!Feeds, TP!tapVars, TP!sceneVars
  <1>8. T!Next => TP!Next
    <2>1. T!Feeds = TP!Feeds BY DEF T!Feeds, TP!Feeds
    <2> QED BY <1>2, <1>3, <1>4, <1>5, <1>6, <1>7, <2>1 DEF T!Next, TP!Next
  <1> QED BY <1>1, <1>8 DEF T!vars, TP!vars

\* A step of the whole is a step of the tap or leaves it alone.
LEMMA TapStep == [AudioNext]_audioVars => [T!Next]_(T!vars)
  <1>1. ASSUME NEW f \in Feeds, Publish(f) PROVE T!Next \/ UNCHANGED tapVars
    <2>1. CASE NoFrame(f) \/ StoreEven(f)
      BY <2>1 DEF NoFrame, StoreEven, T!Next, T!Feed, Feeds
    <2> QED BY <1>1, <2>1 DEF Publish, LoadSeq, StoreOdd, StoreWord
  <1>2. Tap => T!Next
    BY DEF Tap, T!Next, T!Feed, T!Destroy, DestroySignals, Feeds
  <1>3. ASSUME NEW r \in Readers, BeginRead(r) \/ ReadStep(r) PROVE UNCHANGED tapVars
    BY <1>3 DEF BeginRead, ReadStep
  <1> QED BY <1>1, <1>2, <1>3 DEF AudioNext, audioVars, tapVars, T!vars

\* The tap keeps its promises with frames being published under it.
THEOREM AudioImplementsTap == AudioSpec => T!Spec
  <1>1. AudioInit => T!Init BY DEF AudioInit
  <1> QED BY <1>1, TapStep, PTL DEF AudioSpec, T!Spec

\* The tap's inductive invariant, while frames are being published.
LEMMA TapInvariant == AudioSpec => []TP!IInv
  <1>1. T!Spec => TP!Spec
    BY SameTap, PTL DEF T!Spec, TP!Spec
  <1>2. TP!AudioTapAssumption
    BY AudioAssumption DEF T!AudioTapAssumption, TP!AudioTapAssumption
  <1>3. TP!Spec => []TP!IInv BY <1>2, TP!AudioInvariant
  <1> QED BY <1>1, <1>3, AudioImplementsTap, PTL

\* At most one callback is in ff_handoff_publish.
LEMMA OnePublishes ==
  ASSUME TP!IInv, NEW f \in Feeds, NEW g \in Feeds,
         feeding[f] = "publish", feeding[g] = "publish"
  PROVE  f = g
  <1>1. Feeds = TP!Feeds BY DEF Feeds, T!Feeds, TP!Feeds
  <1>2. registered[f] > 0 /\ registered[g] > 0 BY <1>1 DEF TP!IInv, TP!FeedInv
  <1> QED BY <1>1, <1>2, AudioAssumption
          DEF TP!IInv, TP!TypeOK, TP!ConnInv, TP!HaveLive, TP!Live, T!AudioTapAssumption, TP!Feeds

\* Where a callback is in ff_handoff_publish, and the writer of FFHandoff with it.
LEMMA AtLoaded ==
  ASSUME PublishInv, NEW f \in Feeds, step[f] = "loaded"
  PROVE  /\ ~Writing /\ seq = base[f] /\ seq + 2 <= MaxSeq
         /\ Target(f) = FlightSlot /\ base[f] \div 2 + 1 = Flight
         /\ done[f] = stored
  <1>1. base[f] \in Nat /\ base[f] % 2 = 0 /\ base[f] = seq /\ done[f] = stored
        /\ base[f] + 2 <= MaxSeq
    BY DEF PublishInv
  <1>2. base[f] + 2 = 2 * Flight /\ base[f] \div 2 + 1 = Flight BY <1>1 DEF Flight
  <1> QED BY <1>1, <1>2 DEF Writing, Target, FlightSlot

LEMMA AtOdd ==
  ASSUME PublishInv, NEW f \in Feeds, step[f] = "odd"
  PROVE  /\ Writing /\ seq = base[f] + 1 /\ seq + 1 <= MaxSeq
         /\ Target(f) = FlightSlot /\ base[f] \div 2 + 1 = Flight
         /\ done[f] = stored
  <1>1. base[f] \in Nat /\ base[f] % 2 = 0 /\ seq = base[f] + 1 /\ done[f] = stored
        /\ base[f] + 2 <= MaxSeq
    BY DEF PublishInv
  <1>2. base[f] + 2 = 2 * Flight /\ base[f] \div 2 + 1 = Flight BY <1>1 DEF Flight
  <1> QED BY <1>1, <1>2 DEF Writing, Target, FlightSlot

\* Nobody publishes yet.
LEMMA PublishInit == AudioInit => PublishInv
  BY HandoffAssumption DEF AudioInit, Init, PublishInv

\* A step that is no store and leaves the callbacks in ff_handoff_publish there.
LEMMA PublishKept ==
  ASSUME PublishInv, UNCHANGED writerVars, UNCHANGED publishVars,
         \A f \in Feeds : feeding[f] = "publish" /\ step[f] # "out" => feeding'[f] = "publish"
  PROVE  PublishInv'
  BY DEF PublishInv, writerVars, publishVars, Feeds, T!Feeds

\* The rest of ff_handoff_publish, and everything the tap does meanwhile.
LEMMA PublishStep == TP!IInv /\ PublishInv /\ [AudioNext]_audioVars => PublishInv'
  <1> SUFFICES ASSUME TP!IInv, PublishInv, [AudioNext]_audioVars PROVE PublishInv' OBVIOUS
  <1>0. /\ feeding \in [Feeds -> {"no", "analyse", "publish"}]
        /\ UNCHANGED Feeds /\ StoresInOrder \in BOOLEAN
    BY HandoffAssumption DEF TP!IInv, TP!TypeOK, Feeds, T!Feeds, TP!Feeds
  <1> USE <1>0
  <1>1. CASE Tap
    <2>1. UNCHANGED writerVars /\ UNCHANGED publishVars BY <1>1 DEF Tap, vars, writerVars
    <2>2. \A f \in Feeds : feeding[f] = "publish" => feeding'[f] = "publish"
      BY <1>1
      DEF Tap, T!Scene, T!Create, T!Rename, T!Expire, T!FeedBegins, T!Analyse, T!OnSignal,
          T!Describe, T!Configure, T!ConfigureSteps, T!KeepConnection, T!BeginReconnect,
          T!Disconnect, T!Connect, DestroySignals, T!DestroySignals, T!DestroyConnections,
          T!DestroyRest, Feeds
    <2> QED BY <2>1, <2>2, PublishKept
  <1>2. ASSUME NEW f \in Feeds, NoFrame(f) PROVE PublishInv'
    <2>1. feeding' = [feeding EXCEPT ![f] = "no"] /\ step[f] = "out"
          /\ UNCHANGED writerVars /\ UNCHANGED publishVars
      BY <1>2 DEF NoFrame, T!Publish, vars, writerVars
    <2> QED BY <2>1, PublishKept
  <1>3. ASSUME NEW f \in Feeds, LoadSeq(f) PROVE PublishInv'
    <2>1. \A g \in Feeds : step[g] = "out"
      <3>1. feeding[f] = "publish" /\ step[f] = "out" BY <1>3 DEF LoadSeq
      <3> QED BY <3>1, OnePublishes DEF PublishInv
    <2>2. seq % 2 = 0 /\ stored = {} /\ seq \in Nat BY <2>1 DEF PublishInv
    <2> QED BY <1>3, <2>1, <2>2 DEF LoadSeq, PublishInv, vars, tapVars
  <1>4. ASSUME NEW f \in Feeds, StoreOdd(f) PROVE PublishInv'
    <2>1. step[f] = "loaded" /\ feeding[f] = "publish" /\ seq = base[f]
      BY <1>4 DEF StoreOdd, PublishInv
    <2>2. \A g \in Feeds : g # f => step[g] = "out" BY <2>1, OnePublishes DEF PublishInv
    <2> QED BY <1>4, <2>1, <2>2 DEF StoreOdd, PublishInv, tapVars
  <1>5. ASSUME NEW f \in Feeds, NEW w \in Words, StoreWord(f, w) PROVE PublishInv'
    <2>1. step[f] # "out" /\ feeding[f] = "publish" /\ done[f] = stored
          /\ (step[f] = "loaded" => ~StoresInOrder)
      BY <1>5 DEF StoreWord, PublishInv
    <2>2. \A g \in Feeds : g # f => step[g] = "out" BY <2>1, OnePublishes DEF PublishInv
    <2> QED BY <1>5, <2>1, <2>2 DEF StoreWord, PublishInv, tapVars
  <1>6. ASSUME NEW f \in Feeds, StoreEven(f) PROVE PublishInv'
    <2>1. step[f] = "odd" /\ feeding[f] = "publish" BY <1>6 DEF StoreEven, PublishInv
    <2>2. \A g \in Feeds : g # f => step[g] = "out" BY <2>1, OnePublishes DEF PublishInv
    <2>3. \A g \in Feeds : step'[g] = "out" /\ done'[g] = {}
      BY <1>6, <2>2 DEF StoreEven, PublishInv
    <2>4. seq' \in Nat /\ seq' % 2 = 0 /\ stored' = {} BY <1>6, <2>1 DEF StoreEven, PublishInv
    <2>5. /\ step' \in [Feeds -> {"out", "loaded", "odd"}]
          /\ base' \in [Feeds -> Nat]
          /\ done' \in [Feeds -> SUBSET Words]
      BY <1>6 DEF StoreEven, PublishInv
    <2> QED BY <2>3, <2>4, <2>5 DEF PublishInv
  <1>7. ASSUME NEW r \in Readers, BeginRead(r) \/ ReadStep(r) PROVE PublishInv'
    <2>1. UNCHANGED writerVars /\ UNCHANGED publishVars /\ UNCHANGED feeding
      BY <1>7 DEF BeginRead, ReadStep, Call, InCall, ReturnFalse, LoadOdd, LoadEven, CopyWord,
                  Accept, Retry, tapVars
    <2> QED BY <2>1, PublishKept
  <1>8. CASE UNCHANGED audioVars
    BY <1>8, PublishKept DEF audioVars, vars, writerVars, tapVars
  <1> QED BY <1>1, <1>2, <1>3, <1>4, <1>5, <1>6, <1>7, <1>8 DEF AudioNext, Publish

\* So every callback that publishes is where FFHandoff's writer is.
LEMMA PublishInvariant == AudioSpec => []PublishInv
  BY PublishInit, PublishStep, TapInvariant, PTL DEF AudioSpec

\* ff_handoff_publish, by whichever callback, is FFHandoff's writer.
LEMMA PublishIsWriter ==
  ASSUME PublishInv, NEW f \in Feeds, Publish(f)
  PROVE  Writer \/ UNCHANGED vars
  <1>1. CASE NoFrame(f) \/ LoadSeq(f)
    BY <1>1 DEF NoFrame, LoadSeq
  <1>2. CASE StoreOdd(f)
    <2>1. ~Writing /\ seq = base[f] /\ seq < MaxSeq
      BY <1>2, AtLoaded, HandoffAssumption DEF StoreOdd, PublishInv
    <2>2. PublishOdd BY <1>2, <2>1 DEF StoreOdd, PublishOdd, BumpSeq
    <2> QED BY <2>2 DEF Writer
  <1>3. ASSUME NEW w \in Words, StoreWord(f, w) PROVE Writer
    <2>1. /\ Target(f) = FlightSlot /\ base[f] \div 2 + 1 = Flight /\ done[f] = stored
          /\ Writing \/ (~StoresInOrder /\ seq + 2 <= MaxSeq)
      BY <1>3, AtLoaded, AtOdd DEF StoreWord
    <2>2. PublishWord(w) BY <1>3, <2>1 DEF StoreWord, PublishWord
    <2> QED BY <2>2 DEF Writer
  <1>4. CASE StoreEven(f)
    <2>1. Writing /\ seq + 1 = base[f] + 2 /\ seq < MaxSeq /\ stored = Words
      BY <1>4, AtOdd, HandoffAssumption DEF StoreEven, PublishInv
    <2>2. PublishEven BY <1>4, <2>1 DEF StoreEven, PublishEven, BumpSeq
    <2> QED BY <2>2 DEF Writer
  <1> QED BY <1>1, <1>2, <1>3, <1>4 DEF Publish

\* What the handoff takes for granted, one writer that publishes one frame at a
\* time, is what the tap provides: in every run of the whole, the counter, the slots
\* and the readers take steps of FFHandoff.
THEOREM AudioImplementsHandoff == AudioSpec => OneWriter
  <1>1. AudioInit => Init BY DEF AudioInit
  <1>2. PublishInv /\ [AudioNext]_audioVars => [Next]_vars
    <2> SUFFICES ASSUME PublishInv, [AudioNext]_audioVars PROVE [Next]_vars OBVIOUS
    <2>1. CASE Tap BY <2>1 DEF Tap
    <2>2. ASSUME NEW f \in Feeds, Publish(f) PROVE [Next]_vars
      BY <2>2, PublishIsWriter DEF Next
    <2>3. ASSUME NEW r \in Readers, BeginRead(r) \/ ReadStep(r) PROVE Next
      BY <2>3 DEF BeginRead, ReadStep, Next
    <2> QED BY <2>1, <2>2, <2>3 DEF AudioNext, audioVars
  <1> QED BY <1>1, <1>2, PublishInvariant, PTL DEF AudioSpec, OneWriter, Spec

\* So what a reader gets holds of the plugin's own writer, with sources that come, go
\* and change names and callbacks on as many threads: in every build, ...
THEOREM AudioWholeUnlessPassed == AudioSpec => []WholeUnlessPassed
  BY AudioImplementsHandoff, HandoffWholeUnlessPassed, PTL DEF OneWriter

\* ... and in one that keeps its stores in order.
THEOREM AudioInOrderFramesRight ==
  ASSUME StoresInOrder
  PROVE  AudioSpec => [](NoTornFrame /\ CopyIsNewest) /\ FrameNeverGoesBack
  BY AudioImplementsHandoff, HandoffInOrderNeverTorn, HandoffInOrderCopyIsNewest, HandoffInOrderNeverGoesBack, PTL
  DEF OneWriter

\* When ff_audio_destroy frees the handoff with the tap, no frame is in flight in it.
THEOREM AudioFreedQuiet == AudioSpec => [](life = "gone" => ~Writing /\ stored = {})
  <1>1. TP!IInv /\ PublishInv => (life = "gone" => ~Writing /\ stored = {})
    <2> SUFFICES ASSUME TP!IInv, PublishInv, life = "gone" PROVE ~Writing /\ stored = {}
      OBVIOUS
    <2>1. ~masterConnected /\ weak = None BY DEF TP!IInv, TP!DestroyInv
    <2>2. \A f \in Feeds : feeding[f] = "no"
      <3>1. Feeds = TP!Feeds BY DEF Feeds, T!Feeds, TP!Feeds
      <3>2. ~TP!HaveLive BY <2>1 DEF TP!HaveLive
      <3> QED BY <2>1, <3>1, <3>2 DEF TP!IInv, TP!ConnInv, TP!FeedInv
    <2>3. \A f \in Feeds : step[f] = "out" BY <2>2 DEF PublishInv
    <2> QED BY <2>3 DEF PublishInv, Writing
  <1> QED BY <1>1, TapInvariant, PublishInvariant, PTL
=============================================================================
