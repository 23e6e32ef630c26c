----------------------------- MODULE FFHandoff -----------------------------
(***************************************************************************)
(* The double-buffered seqlock of ff-handoff.c, through which the audio    *)
(* thread hands analysis frames to the render thread and to the dock.      *)
(*                                                                         *)
(* One writer, any number of readers.  A frame is a function from Words to *)
(* the number of the publish that wrote it, so that a frame is torn        *)
(* exactly when two of its words differ.  The copy in and the copy out are *)
(* one step per word, in any order, as a memcpy may be.                    *)
(*                                                                         *)
(* seq counts the stores to h->seq without wrapping; the code's 32-bit     *)
(* unsigned holds U32(seq), and every test the code makes on it is made    *)
(* here on U32 of the counter or of a difference of counters, which is     *)
(* what unsigned subtraction of the wrapped values computes.               *)
(***************************************************************************)
EXTENDS Integers, FiniteSets

CONSTANTS
  Words,          \* the words of a struct ff_frame
  Readers,        \* the threads that call ff_handoff_read
  MaxTries,       \* FF_HANDOFF_MAX_TRIES
  W,              \* 2^32, the modulus of unsigned
  StoresInOrder,  \* do this build's plain stores stay behind the odd store?
  MaxSeq          \* bound: stores to seq the writer makes in one run

ASSUME HandoffAssumption ==
  /\ MaxTries \in Nat \ {0}
  /\ W \in Nat \ {0}
  /\ W % 4 = 0
  /\ StoresInOrder \in BOOLEAN
  /\ MaxSeq \in Nat

VARIABLES
  seq,      \* stores made to h->seq
  slot,     \* h->slot
  stored,   \* words of the frame being published already in its slot
  pc,       \* reader: "idle", "load" (top of the loop) or "copy"
  tries,    \* reader: the loop counter
  s,        \* reader: the counter as it was when h->seq was loaded into s
  copied,   \* reader: words copied since that load
  out,      \* reader: the caller's buffer, zero where this attempt has yet to copy
  frame     \* reader: the last frame the caller accepted (in->frame)

writerVars == <<seq, slot, stored>>
readerVars == <<pc, tries, s, copied, out, frame>>
vars == <<seq, slot, stored, pc, tries, s, copied, out, frame>>

U32(n) == n % W

\* A frame every word of which was written by publish n.
Whole(n) == [w \in Words |-> n]

Init ==
  /\ seq = 0
  /\ slot = [i \in 0..1 |-> Whole(0)]
  /\ stored = {}
  /\ pc = [r \in Readers |-> "idle"]
  /\ tries = [r \in Readers |-> 0]
  /\ s = [r \in Readers |-> 0]
  /\ copied = [r \in Readers |-> {}]
  /\ out = [r \in Readers |-> Whole(0)]
  /\ frame = [r \in Readers |-> Whole(0)]

----------------------------------------------------------------------------
(* The writer: ff_handoff_publish *)

Writing == seq % 2 = 1

\* The frame the current or next publish writes, and the slot it goes to.
Flight == seq \div 2 + 1

FlightSlot == (U32(2 * Flight) \div 2) % 2

\* The environment's part: no reader stays inside one copy while the writer
\* makes W stores, so that a difference of wrapped counters is the true one.
NoFullLap == \A r \in Readers : pc[r] = "copy" => seq + 1 - s[r] < W

BumpSeq == seq < MaxSeq /\ NoFullLap /\ seq' = seq + 1

\* h->seq = s + 1
PublishOdd ==
  /\ ~Writing
  /\ BumpSeq
  /\ UNCHANGED <<slot, stored>>
  /\ UNCHANGED readerVars

\* One word of h->slot[((s + 2) / 2) & 1] = *f.  A release store keeps earlier
\* stores before it and lets later ones pass: where the build keeps no more
\* order than that, a word may land before the odd store that announces it.
PublishWord(w) ==
  /\ w \notin stored
  /\ Writing \/ (~StoresInOrder /\ seq + 2 <= MaxSeq)
  /\ slot' = [slot EXCEPT ![FlightSlot][w] = Flight]
  /\ stored' = stored \union {w}
  /\ UNCHANGED seq
  /\ UNCHANGED readerVars

\* h->seq = s + 2, behind every word
PublishEven ==
  /\ Writing
  /\ stored = Words
  /\ BumpSeq
  /\ stored' = {}
  /\ UNCHANGED slot
  /\ UNCHANGED readerVars

----------------------------------------------------------------------------
(* A reader: ff_handoff_read, and the caller that keeps its previous frame *)
(* when the read fails (ff_instance_render_ex).                            *)

Call(r) ==
  /\ pc[r] = "idle"
  /\ pc' = [pc EXCEPT ![r] = "load"]
  /\ UNCHANGED <<tries, s, copied, out, frame>>
  /\ UNCHANGED writerVars

\* The locals of an attempt die with it: the next one overwrites every word.
EndAttempt(r) ==
  /\ s' = [s EXCEPT ![r] = 0]
  /\ copied' = [copied EXCEPT ![r] = {}]
  /\ out' = [out EXCEPT ![r] = Whole(0)]

\* return false: nothing published, or the race lost MaxTries times
ReturnFalse(r) ==
  /\ pc[r] = "load"
  /\ tries[r] = MaxTries \/ U32(seq) = 0
  /\ pc' = [pc EXCEPT ![r] = "idle"]
  /\ tries' = [tries EXCEPT ![r] = 0]
  /\ UNCHANGED <<s, copied, out, frame>>
  /\ UNCHANGED writerVars

\* Mutant: the attempt is not counted.
LoadOddUncounted(r) ==
  /\ pc[r] = "load"
  /\ U32(seq) % 2 = 1
  /\ tries' = tries
  /\ UNCHANGED <<pc, s, copied, out, frame>>
  /\ UNCHANGED writerVars

\* An odd counter: the writer is mid-flight, try again.
LoadOdd(r) ==
  /\ pc[r] = "load"
  /\ tries[r] < MaxTries
  /\ U32(seq) % 2 = 1
  /\ tries' = [tries EXCEPT ![r] = @ + 1]
  /\ UNCHANGED <<pc, s, copied, out, frame>>
  /\ UNCHANGED writerVars

LoadEven(r) ==
  /\ pc[r] = "load"
  /\ tries[r] < MaxTries
  /\ U32(seq) # 0
  /\ U32(seq) % 2 = 0
  /\ s' = [s EXCEPT ![r] = seq]
  /\ pc' = [pc EXCEPT ![r] = "copy"]
  /\ UNCHANGED <<tries, copied, out, frame>>
  /\ UNCHANGED writerVars

\* Mutant: the slot of the frame before the newest.
ReadSlotStale(r) == (U32(s[r]) \div 2 + 1) % 2

\* One word of *out = h->slot[(s / 2) & 1].
ReadSlot(r) == (U32(s[r]) \div 2) % 2

CopyWord(r, w) ==
  /\ pc[r] = "copy"
  /\ w \notin copied[r]
  /\ out' = [out EXCEPT ![r][w] = slot[ReadSlot(r)][w]]
  /\ copied' = [copied EXCEPT ![r] = @ \union {w}]
  /\ UNCHANGED <<pc, tries, s, frame>>
  /\ UNCHANGED writerVars

\* Mutant: lets the third store through.
UnlappedByThree(r) == U32(seq - s[r]) < 4

\* s2 - s < 3u: the writer has not come back to this slot.
Unlapped(r) == U32(seq - s[r]) < 3

Accept(r) ==
  /\ pc[r] = "copy"
  /\ copied[r] = Words
  /\ Unlapped(r)
  /\ frame' = [frame EXCEPT ![r] = out[r]]
  /\ pc' = [pc EXCEPT ![r] = "idle"]
  /\ tries' = [tries EXCEPT ![r] = 0]
  /\ EndAttempt(r)
  /\ UNCHANGED writerVars

\* Mutant: the attempt is not counted.
RetryUncounted(r) ==
  /\ pc[r] = "copy"
  /\ copied[r] = Words
  /\ ~Unlapped(r)
  /\ pc' = [pc EXCEPT ![r] = "load"]
  /\ EndAttempt(r)
  /\ UNCHANGED <<tries, frame>>
  /\ UNCHANGED writerVars

Retry(r) ==
  /\ pc[r] = "copy"
  /\ copied[r] = Words
  /\ ~Unlapped(r)
  /\ tries' = [tries EXCEPT ![r] = @ + 1]
  /\ pc' = [pc EXCEPT ![r] = "load"]
  /\ EndAttempt(r)
  /\ UNCHANGED frame
  /\ UNCHANGED writerVars

----------------------------------------------------------------------------

Writer == PublishOdd \/ PublishEven \/ \E w \in Words : PublishWord(w)

\* Everything a reader does between entering ff_handoff_read and leaving it.
InCall(r) ==
  \/ ReturnFalse(r)
  \/ LoadOdd(r)
  \/ LoadEven(r)
  \/ \E w \in Words : CopyWord(r, w)
  \/ Accept(r)
  \/ Retry(r)

Next == Writer \/ \E r \in Readers : Call(r) \/ InCall(r)

Spec == Init /\ [][Next]_vars

----------------------------------------------------------------------------
(* Properties *)

TypeOK ==
  /\ seq \in 0..MaxSeq
  /\ slot \in [0..1 -> [Words -> Nat]]
  /\ stored \in SUBSET Words
  /\ pc \in [Readers -> {"idle", "load", "copy"}]
  /\ tries \in [Readers -> 0..MaxTries]
  /\ s \in [Readers -> 0..MaxSeq]
  /\ copied \in [Readers -> SUBSET Words]
  /\ out \in [Readers -> [Words -> Nat]]
  /\ frame \in [Readers -> [Words -> Nat]]

\* No caller ever keeps a frame that mixes two publishes, however its copy
\* interleaved with the writer's (ff_handoff_read's double check of seq).
NoTornFrame ==
  \A r \in Readers : \A v, w \in Words : frame[r][v] = frame[r][w]

\* While a reader would still pass the final test, every word it has copied
\* is that of the newest frame that was complete when it loaded seq: the
\* writer works in the other slot until its third store after that load.
CopyIsNewest ==
  \A r \in Readers :
    pc[r] = "copy" /\ Unlapped(r) =>
      \A w \in copied[r] : out[r][w] = s[r] \div 2

\* The same for every build, one that keeps no order behind the release store of
\* ff_handoff_publish too: until another publish has ended since the load, what a
\* reader has copied is the newest frame, whole; after that a word can also be that of
\* the publish after it, stored before the odd store that should have announced it.
WholeUnlessPassed ==
  \A r \in Readers :
    pc[r] = "copy" /\ Unlapped(r) =>
      \A w \in copied[r] :
        \/ out[r][w] = s[r] \div 2
        \/ U32(seq - s[r]) = 2 /\ out[r][w] = s[r] \div 2 + 2

\* A reader never goes back to an older frame after a newer one: the accepted
\* slot is the one seq named, and seq only grows.
FrameNeverGoesBack ==
  [][\A r \in Readers, w \in Words : frame'[r][w] >= frame[r][w]]_frame

\* A read ends whatever the writer does, even one that stops with seq odd
\* or laps every attempt: the reader never waits on the audio thread.
ReadReturns == \A r \in Readers : pc[r] # "idle" ~> pc[r] = "idle"

\* What a reader inside the call has still to do at most: the attempts not yet begun,
\* each a load, the words and the test, and the rest of this one.
StepsLeft(r) ==
  (MaxTries - tries[r]) * (Cardinality(Words) + 2)
    + IF pc[r] = "copy" THEN Cardinality(Words \ copied[r]) ELSE Cardinality(Words) + 1

\* ReadReturns with a number: a step of the reader inside the call ends it or leaves
\* less to do, and no step of anybody else gives it more.
ReadBounded ==
  [][\A r \in Readers : pc[r] # "idle" =>
       \/ pc'[r] = "idle"
       \/ IF InCall(r) THEN StepsLeft(r)' < StepsLeft(r) ELSE StepsLeft(r)' = StepsLeft(r)]_vars

----------------------------------------------------------------------------
(* The inductive invariant behind NoTornFrame, CopyIsNewest,               *)
(* FrameNeverGoesBack and WholeUnlessPassed.  It holds in every build;     *)
(* what is said under StoresInOrder is more.                               *)

Newest == seq \div 2

\* The slot seq names holds the newest frame whole; the other one holds the
\* frame before it, overwritten so far by the words of the one in flight.
SlotsInv ==
  /\ \A w \in Words : slot[Newest % 2][w] = Newest
  /\ \A w \in Words : slot[Flight % 2][w] =
       IF w \in stored THEN Flight ELSE IF Newest = 0 THEN 0 ELSE Newest - 1
  /\ StoresInOrder /\ stored # {} => Writing

\* A reader in a copy loaded an even counter less than one lap ago.
CopyInv ==
  \A r \in Readers :
    /\ pc[r] # "copy" => copied[r] = {}
    /\ pc[r] = "copy" =>
        /\ s[r] % 2 = 0
        /\ s[r] <= seq
        /\ seq - s[r] < W
        /\ tries[r] < MaxTries
        /\ StoresInOrder => \A w \in Words : frame[r][w] <= s[r] \div 2

\* WholeUnlessPassed and CopyIsNewest with the wrapped test replaced by the
\* difference it computes.
NearCopyInv ==
  \A r \in Readers :
    pc[r] = "copy" /\ seq - s[r] < 3 =>
      \A w \in copied[r] :
        \/ out[r][w] = s[r] \div 2
        \/ ~StoresInOrder /\ seq - s[r] = 2 /\ out[r][w] = s[r] \div 2 + 2

FrameInv ==
  StoresInOrder => NoTornFrame /\ \A r \in Readers, w \in Words : frame[r][w] <= Newest

IInv ==
  /\ TypeOK
  /\ SlotsInv
  /\ CopyInv
  /\ NearCopyInv
  /\ FrameInv
=============================================================================
