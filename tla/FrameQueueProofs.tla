-------------------------- MODULE FrameQueueProofs --------------------------
(***************************************************************************)
(* Proofs about FrameQueue.tla, for every ring size, with and without a    *)
(* kept frame, for both kinds of reader.                                   *)
(***************************************************************************)
EXTENDS FrameQueue, TLAPS

(* The slot k places after r, with no remainder to reason about. *)
At(r, k) == IF r + k < MaxSize THEN r + k ELSE r + k - MaxSize

(* How many slots the reader still counts on: size, less the slot it has   *)
(* given up when rindex has moved and size has not.                        *)
InRing == IF rpc = "advanced" THEN size - 1 ELSE size

------------------------------------------------------------------------------
(* The inductive invariant, in parts. *)

(* abort_request is set exactly while the closer is at work; the reader is *)
(* out of the way when the thread that reads is the one that closes, and   *)
(* once the stream is closed; the writer has ended once it is joined.      *)
CloserInv ==
    /\ abort_request = (apc # "open")
    /\ apc \in {"joined", "closing", "closed"} => wpc = "exited"
    /\ apc = "closed" => rpc = "idle"
    /\ apc # "open" /\ ~ReaderBlocks => rpc = "idle"
    /\ wpc = "exited" => abort_request

(* A writer past its wait has a slot: size cannot grow but by its own push.*)
WriterInv ==
    /\ wpc = "writable" => size < MaxSize \/ abort_request
    /\ wpc \in {"fill", "push", "pushed"} => size < MaxSize

(* A reader past its test has a frame, and the kept frame is counted. *)
ReaderInv ==
    /\ rindex_shown = 1 => KeepLast /\ size >= 1
    /\ KeepLast /\ taken # 0 => rindex_shown = 1
    /\ rpc = "readable" => size - rindex_shown >= 1 \/ abort_request
    /\ rpc = "peeked" => size - rindex_shown >= 1
    /\ rpc \in {"unreffed", "advanced"} =>
          /\ size - rindex_shown >= 1
          /\ KeepLast => rindex_shown = 1

(* The writer's index is InRing slots after the reader's, one more while   *)
(* its push is half done.                                                  *)
IndexInv == windex = At(rindex, IF wpc = "pushed" THEN InRing + 1 ELSE InRing)

(* Counting: the frames in the ring were all produced, the ones not taken  *)
(* are those still waiting, and a writer with a frame is below the bound.  *)
CountInv ==
    /\ produced - InRing >= 0
    /\ taken = produced - NbWaiting
    /\ wpc \in {"peek", "writable", "fill", "push", "pushed"} => produced < MaxFrames

(* The ring holds the last InRing frames in order, the slot just released  *)
(* by the reader excepted; the slot just filled holds the next frame.      *)
ContentInv ==
    /\ \A k \in 0 .. MaxSize - 1 :
          k < InRing /\ (rpc = "unreffed" => k > 0)
              => queue[At(rindex, k)] = produced - InRing + 1 + k
    /\ wpc \in {"push", "pushed"} => queue[At(rindex, InRing)] = produced + 1

(* The reader's pointers are to slots it counts on. *)
HeldInv ==
    \A i \in held : \E k \in 0 .. MaxSize - 1 :
        /\ k < InRing
        /\ rpc = "unreffed" => k > 0
        /\ i = At(rindex, k)

(* A thread asleep is inside its wait loop. *)
WaitInv == /\ Writer \in waitSet => wpc = "peek"
           /\ Reader \in waitSet => rpc = "peek"
           /\ NoLostWakeup

IInv == TypeOK /\ CloserInv /\ WriterInv /\ ReaderInv /\ IndexInv /\ CountInv /\ ContentInv
          /\ HeldInv /\ WaitInv

------------------------------------------------------------------------------
(* Arithmetic of the ring *)

(* A remainder below twice the size is one subtraction: the code's         *)
(* (rindex + k) % max_size is the slot k places on.                        *)
LEMMA RemainderOnce ==
    \A x \in Nat : x < 2 * MaxSize =>
        x % MaxSize = IF x < MaxSize THEN x ELSE x - MaxSize
  BY SizeAssumption, SMTT(30)

(* The slot the code computes is the one the proof names with At. *)
LEMMA SlotAtIsAt ==
    ASSUME rindex \in Slots, NEW k \in 0 .. MaxSize
    PROVE  SlotAt(k) = At(rindex, k)
<1> DEFINE x == rindex + k
<1>1. x \in Nat /\ x < 2 * MaxSize
  BY SizeAssumption DEF Slots
<1> HIDE DEF x
<1>2. x % MaxSize = IF x < MaxSize THEN x ELSE x - MaxSize
  BY <1>1, RemainderOnce, Zenon
<1>3. SlotAt(k) = x % MaxSize
  BY Zenon DEF SlotAt, x
<1>4. At(rindex, k) = IF x < MaxSize THEN x ELSE x - MaxSize
  BY SizeAssumption DEF At, x, Slots
<1> QED BY <1>2, <1>3, <1>4, Zenon

(* Slots of the ring: in the array, different for different places.        *)
LEMMA AtFacts ==
    ASSUME NEW r \in Slots, NEW k \in 0 .. MaxSize
    PROVE  /\ k < MaxSize => At(r, k) \in Slots
           /\ At(r, 0) = r
           /\ NextIndex(r) = At(r, 1) /\ NextIndex(r) \in Slots
           /\ k < MaxSize => NextIndex(At(r, k)) = At(r, k + 1)
           /\ k < MaxSize => At(NextIndex(r), k) = At(r, k + 1)
           /\ \A j \in 0 .. MaxSize - 1 : k < MaxSize /\ j # k => At(r, j) # At(r, k)
  BY SizeAssumption DEF Slots, At, NextIndex

------------------------------------------------------------------------------
(* Initially *)

(* The initial states satisfy the inductive invariant. *)
LEMMA InitIInv == Init => IInv
<1> SUFFICES ASSUME Init PROVE IInv
  OBVIOUS
<1> USE SizeAssumption, ModeAssumption, BoundAssumption
<1>1. /\ rindex = 0 /\ windex = 0 /\ size = 0 /\ rindex_shown = 0
      /\ abort_request = FALSE /\ waitSet = {} /\ held = {}
      /\ wpc = "decode" /\ rpc = "idle" /\ apc = "open"
      /\ produced = 0 /\ taken = 0
  BY Zenon DEF Init
<1>2. queue \in [Slots -> 0 .. MaxFrames]
  <2>1. queue = [i \in Slots |-> NoFrame]
    BY Zenon DEF Init
  <2>2. NoFrame \in 0 .. MaxFrames
    BY DEF NoFrame
  <2> QED BY <2>1, <2>2, Zenon
<1>3. TypeOK
  <2>1. rindex \in Slots /\ windex \in Slots /\ size \in 0 .. MaxSize /\ rindex_shown \in 0 .. 1
    BY <1>1 DEF Slots
  <2>2. produced \in 0 .. MaxFrames /\ taken \in 0 .. MaxFrames
    BY <1>1
  <2> QED BY <1>1, <1>2, <2>1, <2>2, Zenon DEF TypeOK
<1>4. CloserInv
  BY <1>1 DEF CloserInv
<1>5. WriterInv
  BY <1>1 DEF WriterInv
<1>6. ReaderInv
  BY <1>1 DEF ReaderInv
<1>7. WaitInv
  BY <1>1 DEF WaitInv, NoLostWakeup
<1>8. IndexInv
  BY <1>1 DEF IndexInv, At, InRing
<1>9. CountInv
  <2>1. InRing = 0 /\ NbWaiting = 0
    BY <1>1 DEF InRing, NbWaiting, NbRemaining
  <2> QED BY <1>1, <2>1 DEF CountInv
<1>11. ContentInv
  BY <1>1 DEF ContentInv, InRing
<1>10. HeldInv
  BY <1>1 DEF HeldInv
<1> QED BY <1>3, <1>4, <1>5, <1>6, <1>7, <1>8, <1>9, <1>10, <1>11 DEF IInv

(* The decoder has another frame to push. *)
LEMMA DecodedStep == IInv /\ Decoded => IInv'
<1> SUFFICES ASSUME IInv, Decoded PROVE IInv'
  OBVIOUS
<1> USE SizeAssumption, ModeAssumption, BoundAssumption DEF IInv, Decoded, ring, history
<1>1. TypeOK'
  BY DEF TypeOK, Slots, WriterInv, ReaderInv, CountInv, Writer, Reader, InRing, CondSignal
<1>2. CloserInv' /\ WriterInv' /\ ReaderInv'
  BY DEF TypeOK, CloserInv, WriterInv, ReaderInv, NbRemaining, ReaderRuns, CondSignal
<1>3. IndexInv'
  BY DEF TypeOK, IndexInv, ReaderInv, WriterInv, InRing, At, NextIndex, Slots
<1>4. CountInv'
  BY DEF TypeOK, ReaderInv, WriterInv, CountInv, InRing, NbWaiting, NbRemaining
<1>5. ContentInv'
  BY DEF TypeOK, IndexInv, ReaderInv, WriterInv, ContentInv, InRing, At
<1>6. HeldInv'
  BY DEF TypeOK, HeldInv, ReaderInv, InRing, At, ShownSlot
<1>7. WaitInv'
  BY DEF TypeOK, WaitInv, NoLostWakeup, CloserInv, ReaderInv, NbRemaining, CondSignal, Writer, Reader
<1> QED BY <1>1, <1>2, <1>3, <1>4, <1>5, <1>6, <1>7

(* The decoder found its packet queue aborted and leaves its loop. *)
LEMMA DecodeAbortedStep == IInv /\ DecodeAborted => IInv'
<1> SUFFICES ASSUME IInv, DecodeAborted PROVE IInv'
  OBVIOUS
<1> USE SizeAssumption, ModeAssumption, BoundAssumption DEF IInv, DecodeAborted, ring, history
<1>1. TypeOK'
  BY DEF TypeOK, Slots, WriterInv, ReaderInv, CountInv, Writer, Reader, InRing, CondSignal
<1>2. CloserInv' /\ WriterInv' /\ ReaderInv'
  BY DEF TypeOK, CloserInv, WriterInv, ReaderInv, NbRemaining, ReaderRuns, CondSignal
<1>3. IndexInv'
  BY DEF TypeOK, IndexInv, ReaderInv, WriterInv, InRing, At, NextIndex, Slots
<1>4. CountInv'
  BY DEF TypeOK, ReaderInv, WriterInv, CountInv, InRing, NbWaiting, NbRemaining
<1>5. ContentInv'
  BY DEF TypeOK, IndexInv, ReaderInv, WriterInv, ContentInv, InRing, At
<1>6. HeldInv'
  BY DEF TypeOK, HeldInv, ReaderInv, InRing, At, ShownSlot
<1>7. WaitInv'
  BY DEF TypeOK, WaitInv, NoLostWakeup, CloserInv, ReaderInv, NbRemaining, CondSignal, Writer, Reader
<1> QED BY <1>1, <1>2, <1>3, <1>4, <1>5, <1>6, <1>7

(* frame_queue_peek_writable leaves its loop, or waits for room. *)
LEMMA PeekWritableStep == IInv /\ PeekWritable => IInv'
<1> SUFFICES ASSUME IInv, PeekWritable PROVE IInv'
  OBVIOUS
<1> USE SizeAssumption, ModeAssumption, BoundAssumption DEF IInv, PeekWritable, ring, history
<1>1. TypeOK'
  BY DEF TypeOK, Slots, WriterInv, ReaderInv, CountInv, Writer, Reader, InRing, CondSignal
<1>2. CloserInv' /\ WriterInv' /\ ReaderInv'
  BY DEF TypeOK, CloserInv, WriterInv, ReaderInv, NbRemaining, ReaderRuns, CondSignal
<1>3. IndexInv'
  BY DEF TypeOK, IndexInv, ReaderInv, WriterInv, InRing, At, NextIndex, Slots
<1>4. CountInv'
  BY DEF TypeOK, ReaderInv, WriterInv, CountInv, InRing, NbWaiting, NbRemaining
<1>5. ContentInv'
  BY DEF TypeOK, IndexInv, ReaderInv, WriterInv, ContentInv, InRing, At
<1>6. HeldInv'
  BY DEF TypeOK, HeldInv, ReaderInv, InRing, At, ShownSlot
<1>7. WaitInv'
  BY DEF TypeOK, WaitInv, NoLostWakeup, CloserInv, ReaderInv, NbRemaining, CondSignal, Writer, Reader
<1> QED BY <1>1, <1>2, <1>3, <1>4, <1>5, <1>6, <1>7

(* The slot at windex, which no reader holds: HeldInv from CountInv. *)
LEMMA GetWritableStep == IInv /\ GetWritable => IInv'
<1> SUFFICES ASSUME IInv, GetWritable PROVE IInv'
  OBVIOUS
<1> USE SizeAssumption, ModeAssumption, BoundAssumption DEF IInv, GetWritable, ring, history
<1>1. TypeOK'
  BY DEF TypeOK, Slots, WriterInv, ReaderInv, CountInv, Writer, Reader, InRing, CondSignal
<1>2. CloserInv' /\ WriterInv' /\ ReaderInv'
  BY DEF TypeOK, CloserInv, WriterInv, ReaderInv, NbRemaining, ReaderRuns, CondSignal
<1>3. IndexInv'
  BY DEF TypeOK, IndexInv, ReaderInv, WriterInv, InRing, At, NextIndex, Slots
<1>4. CountInv'
  BY DEF TypeOK, ReaderInv, WriterInv, CountInv, InRing, NbWaiting, NbRemaining
<1>5. ContentInv'
  BY DEF TypeOK, IndexInv, ReaderInv, WriterInv, ContentInv, InRing, At
<1>6. HeldInv'
  BY DEF TypeOK, HeldInv, ReaderInv, InRing, At, ShownSlot
<1>7. WaitInv'
  BY DEF TypeOK, WaitInv, NoLostWakeup, CloserInv, ReaderInv, NbRemaining, CondSignal, Writer, Reader
<1> QED BY <1>1, <1>2, <1>3, <1>4, <1>5, <1>6, <1>7

(* The caller writes the slot: ContentInv holds of one frame more once it is pushed. *)
LEMMA FillStep == IInv /\ Fill => IInv'
<1> SUFFICES ASSUME IInv, Fill PROVE IInv'
  OBVIOUS
<1> USE SizeAssumption, ModeAssumption, BoundAssumption DEF IInv, Fill, ring, history
<1>1. TypeOK'
  BY DEF TypeOK, Slots, WriterInv, ReaderInv, CountInv, Writer, Reader, InRing, CondSignal
<1>2. CloserInv' /\ WriterInv' /\ ReaderInv'
  BY DEF TypeOK, CloserInv, WriterInv, ReaderInv, NbRemaining, ReaderRuns, CondSignal
<1>3. IndexInv'
  BY DEF TypeOK, IndexInv, ReaderInv, WriterInv, InRing, At, NextIndex, Slots
<1>4. CountInv'
  BY DEF TypeOK, ReaderInv, WriterInv, CountInv, InRing, NbWaiting, NbRemaining
<1>5. ContentInv'
  <2>1. /\ InRing \in 0 .. MaxSize - 1 /\ windex \in Slots /\ rindex \in Slots
        /\ windex = At(rindex, InRing) /\ InRing' = InRing
    BY DEF TypeOK, IndexInv, ReaderInv, WriterInv, InRing
  <2>2. /\ queue'[windex] = produced + 1
        /\ \A i \in Slots : i # windex => queue'[i] = queue[i]
    BY <2>1 DEF TypeOK
  <2>3. \A k \in 0 .. MaxSize - 1 :
           k < InRing => At(rindex, k) \in Slots /\ At(rindex, k) # windex
    BY <2>1 DEF At, Slots
  <2> QED BY <2>1, <2>2, <2>3 DEF ContentInv, At
<1>6. HeldInv'
  BY DEF TypeOK, HeldInv, ReaderInv, InRing, At, ShownSlot
<1>7. WaitInv'
  BY DEF TypeOK, WaitInv, NoLostWakeup, CloserInv, ReaderInv, NbRemaining, CondSignal, Writer, Reader
<1> QED BY <1>1, <1>2, <1>3, <1>4, <1>5, <1>6, <1>7

(* The first half of frame_queue_push, outside the mutex. *)
LEMMA PushIndexStep == IInv /\ PushIndex => IInv'
<1> SUFFICES ASSUME IInv, PushIndex PROVE IInv'
  OBVIOUS
<1> USE SizeAssumption, ModeAssumption, BoundAssumption DEF IInv, PushIndex, ring, history
<1>1. TypeOK'
  BY DEF TypeOK, Slots, WriterInv, ReaderInv, CountInv, Writer, Reader, InRing, CondSignal, NextIndex
<1>2. CloserInv' /\ WriterInv' /\ ReaderInv'
  BY DEF TypeOK, CloserInv, WriterInv, ReaderInv, NbRemaining, ReaderRuns, CondSignal
<1>3. IndexInv'
  BY DEF TypeOK, IndexInv, ReaderInv, WriterInv, InRing, At, NextIndex, Slots
<1>4. CountInv'
  BY DEF TypeOK, ReaderInv, WriterInv, CountInv, InRing, NbWaiting, NbRemaining
<1>5. ContentInv'
  BY DEF TypeOK, IndexInv, ReaderInv, WriterInv, ContentInv, InRing, At
<1>6. HeldInv'
  BY DEF TypeOK, HeldInv, ReaderInv, InRing, At, ShownSlot
<1>7. WaitInv'
  BY DEF TypeOK, WaitInv, NoLostWakeup, CloserInv, ReaderInv, NbRemaining, CondSignal, Writer, Reader
<1> QED BY <1>1, <1>2, <1>3, <1>4, <1>5, <1>6, <1>7

(* The second half under the mutex, which wakes a reader that waits. *)
LEMMA PushSizeStep == IInv /\ PushSize => IInv'
<1> SUFFICES ASSUME IInv, PushSize PROVE IInv'
  OBVIOUS
<1> USE SizeAssumption, ModeAssumption, BoundAssumption DEF IInv, PushSize, ring, history
<1>1. TypeOK'
  <2>1. size' \in 0 .. MaxSize /\ produced' \in 0 .. MaxFrames
    BY DEF TypeOK, WriterInv, CountInv
  <2>2. waitSet' \subseteq {Writer, Reader}
    BY DEF TypeOK, CondSignal
  <2> QED BY <2>1, <2>2 DEF TypeOK
<1>2. CloserInv' /\ WriterInv' /\ ReaderInv'
  BY DEF TypeOK, CloserInv, WriterInv, ReaderInv, NbRemaining, ReaderRuns, CondSignal
<1>3. IndexInv'
  BY DEF TypeOK, IndexInv, ReaderInv, WriterInv, InRing, At, NextIndex, Slots
<1>4. CountInv'
  BY DEF TypeOK, ReaderInv, WriterInv, CountInv, InRing, NbWaiting, NbRemaining
<1>5. ContentInv'
  BY DEF TypeOK, IndexInv, ReaderInv, WriterInv, ContentInv, InRing, At
<1>6. HeldInv'
  BY DEF TypeOK, HeldInv, ReaderInv, InRing, At, ShownSlot
<1>7. WaitInv'
  BY DEF TypeOK, WaitInv, NoLostWakeup, CloserInv, ReaderInv, NbRemaining, CondSignal, Writer, Reader
<1> QED BY <1>1, <1>2, <1>3, <1>4, <1>5, <1>6, <1>7

(* The slots the reader peeks at, as places after rindex. *)
LEMMA PeekedSlots ==
    ASSUME TypeOK
    PROVE  /\ SlotAt(rindex_shown) = At(rindex, rindex_shown)
           /\ SlotAt(rindex_shown + 1) = At(rindex, rindex_shown + 1)
           /\ At(rindex, rindex_shown) \in Slots
           /\ size - rindex_shown > 1 => At(rindex, rindex_shown + 1) \in Slots
<1> USE SizeAssumption DEF TypeOK
<1>1. rindex \in Slots /\ rindex_shown \in 0 .. MaxSize /\ rindex_shown + 1 \in 0 .. MaxSize
  OBVIOUS
<1>2. /\ SlotAt(rindex_shown) = At(rindex, rindex_shown)
      /\ SlotAt(rindex_shown + 1) = At(rindex, rindex_shown + 1)
  BY <1>1, SlotAtIsAt, Zenon
<1>3. /\ rindex_shown < MaxSize /\ (size - rindex_shown > 1 => rindex_shown + 1 < MaxSize)
  OBVIOUS
<1>4. /\ At(rindex, rindex_shown) \in Slots
      /\ rindex_shown + 1 < MaxSize => At(rindex, rindex_shown + 1) \in Slots
  BY <1>1, <1>3, AtFacts, Zenon
<1> QED BY <1>2, <1>3, <1>4

(* frame_queue_peek, _peek_next and _peek_last: the slots shown are filled. *)
LEMMA PeekFramesStep == IInv /\ PeekFrames => IInv'
<1> SUFFICES ASSUME IInv, PeekFrames PROVE IInv'
  OBVIOUS
<1> USE SizeAssumption, ModeAssumption, BoundAssumption DEF IInv, PeekFrames, ring, history
<1>0. /\ SlotAt(rindex_shown) = At(rindex, rindex_shown)
      /\ SlotAt(rindex_shown + 1) = At(rindex, rindex_shown + 1)
      /\ At(rindex, rindex_shown) \in Slots
      /\ size - rindex_shown > 1 => At(rindex, rindex_shown + 1) \in Slots
  BY PeekedSlots DEF IInv
<1>1. TypeOK'
  <2>1. held' \subseteq Slots
    BY <1>0 DEF TypeOK, NbRemaining
  <2> QED BY <2>1 DEF TypeOK
<1>2. CloserInv' /\ WriterInv' /\ ReaderInv'
  BY DEF TypeOK, CloserInv, WriterInv, ReaderInv, NbRemaining, ReaderRuns, CondSignal
<1>3. IndexInv'
  BY DEF TypeOK, IndexInv, ReaderInv, WriterInv, InRing, At, NextIndex, Slots
<1>4. CountInv'
  BY DEF TypeOK, ReaderInv, WriterInv, CountInv, InRing, NbWaiting, NbRemaining
<1>5. ContentInv'
  BY DEF TypeOK, IndexInv, ReaderInv, WriterInv, ContentInv, InRing, At
<1>6. HeldInv'
  <2>1. InRing' = size /\ rindex' = rindex /\ rpc' = "peeked" /\ rindex_shown \in 0 .. 1
    BY DEF InRing, TypeOK
  <2>2. SUFFICES ASSUME NEW i \in held'
                 PROVE  \E k \in 0 .. MaxSize - 1 : k < size /\ i = At(rindex, k)
    BY <2>1 DEF HeldInv, At
  <2>3. CASE i = rindex
    <3>1. 0 \in 0 .. MaxSize - 1 /\ 0 < size /\ i = At(rindex, 0)
      BY <2>3 DEF TypeOK, NbRemaining, At, Slots
    <3> QED BY <3>1
  <2>4. CASE i = SlotAt(rindex_shown)
    <3>1. /\ rindex_shown \in 0 .. MaxSize - 1 /\ rindex_shown < size
          /\ i = At(rindex, rindex_shown)
      BY <1>0, <2>4 DEF TypeOK, NbRemaining
    <3> QED BY <3>1
  <2>5. CASE i = SlotAt(rindex_shown + 1) /\ NbRemaining > 1
    <3>1. /\ rindex_shown + 1 \in 0 .. MaxSize - 1 /\ rindex_shown + 1 < size
          /\ i = At(rindex, rindex_shown + 1)
      BY <1>0, <2>5 DEF TypeOK, NbRemaining
    <3> QED BY <3>1
  <2> QED BY <2>2, <2>3, <2>4, <2>5
<1>7. WaitInv'
  BY DEF TypeOK, WaitInv, NoLostWakeup, CloserInv, ReaderInv, NbRemaining, CondSignal, Writer, Reader
<1> QED BY <1>1, <1>2, <1>3, <1>4, <1>5, <1>6, <1>7

(* video_refresh keeps the frame on screen and leaves the queue alone. *)
LEMMA ShowLongerStep == IInv /\ ShowLonger => IInv'
<1> SUFFICES ASSUME IInv, ShowLonger PROVE IInv'
  OBVIOUS
<1> USE SizeAssumption, ModeAssumption, BoundAssumption DEF IInv, ShowLonger, ring, history
<1>1. TypeOK'
  BY DEF TypeOK, Slots, WriterInv, ReaderInv, CountInv, Writer, Reader, InRing, CondSignal, ShownSlot
<1>2. CloserInv' /\ WriterInv' /\ ReaderInv'
  BY DEF TypeOK, CloserInv, WriterInv, ReaderInv, NbRemaining, ReaderRuns, CondSignal
<1>3. IndexInv'
  BY DEF TypeOK, IndexInv, ReaderInv, WriterInv, InRing, At, NextIndex, Slots
<1>4. CountInv'
  BY DEF TypeOK, ReaderInv, WriterInv, CountInv, InRing, NbWaiting, NbRemaining
<1>5. ContentInv'
  BY DEF TypeOK, IndexInv, ReaderInv, WriterInv, ContentInv, InRing, At
<1>6. HeldInv'
  <2>1. \A i \in held' : i = rindex /\ rindex_shown' = 1
    BY DEF TypeOK, ShownSlot
  <2>2. rindex' = rindex /\ rpc' # "unreffed" /\ At(rindex, 0) = rindex
    BY DEF TypeOK, At, Slots
  <2>3. rindex_shown' = 1 => 0 < InRing'
    BY DEF TypeOK, ReaderInv, InRing, NbRemaining
  <2> QED BY <2>1, <2>2, <2>3, 0 \in 0 .. MaxSize - 1 DEF HeldInv, At
<1>7. WaitInv'
  BY DEF TypeOK, WaitInv, NoLostWakeup, CloserInv, ReaderInv, NbRemaining, CondSignal, Writer, Reader
<1> QED BY <1>1, <1>2, <1>3, <1>4, <1>5, <1>6, <1>7

(* sdl_audio_callback has nothing to play and leaves the queue alone. *)
LEMMA SilenceStep == IInv /\ Silence => IInv'
<1> SUFFICES ASSUME IInv, Silence PROVE IInv'
  OBVIOUS
<1> USE SizeAssumption, ModeAssumption, BoundAssumption DEF IInv, Silence, ring, history
<1>1. TypeOK'
  BY DEF TypeOK, Slots, WriterInv, ReaderInv, CountInv, Writer, Reader, InRing, CondSignal
<1>2. CloserInv' /\ WriterInv' /\ ReaderInv'
  BY DEF TypeOK, CloserInv, WriterInv, ReaderInv, NbRemaining, ReaderRuns, CondSignal
<1>3. IndexInv'
  BY DEF TypeOK, IndexInv, ReaderInv, WriterInv, InRing, At, NextIndex, Slots
<1>4. CountInv'
  BY DEF TypeOK, ReaderInv, WriterInv, CountInv, InRing, NbWaiting, NbRemaining
<1>5. ContentInv'
  BY DEF TypeOK, IndexInv, ReaderInv, WriterInv, ContentInv, InRing, At
<1>6. HeldInv'
  BY DEF TypeOK, HeldInv, ReaderInv, InRing, At, ShownSlot
<1>7. WaitInv'
  BY DEF TypeOK, WaitInv, NoLostWakeup, CloserInv, ReaderInv, NbRemaining, CondSignal, Writer, Reader
<1> QED BY <1>1, <1>2, <1>3, <1>4, <1>5, <1>6, <1>7

(* frame_queue_peek_readable leaves its loop, or waits for a frame. *)
LEMMA PeekReadableStep == IInv /\ PeekReadable => IInv'
<1> SUFFICES ASSUME IInv, PeekReadable PROVE IInv'
  OBVIOUS
<1> USE SizeAssumption, ModeAssumption, BoundAssumption DEF IInv, PeekReadable, ring, history
<1>1. TypeOK'
  BY DEF TypeOK, Slots, WriterInv, ReaderInv, CountInv, Writer, Reader, InRing, CondSignal
<1>2. CloserInv' /\ WriterInv' /\ ReaderInv'
  BY DEF TypeOK, CloserInv, WriterInv, ReaderInv, NbRemaining, ReaderRuns, CondSignal
<1>3. IndexInv'
  BY DEF TypeOK, IndexInv, ReaderInv, WriterInv, InRing, At, NextIndex, Slots
<1>4. CountInv'
  BY DEF TypeOK, ReaderInv, WriterInv, CountInv, InRing, NbWaiting, NbRemaining
<1>5. ContentInv'
  BY DEF TypeOK, IndexInv, ReaderInv, WriterInv, ContentInv, InRing, At
<1>6. HeldInv'
  BY DEF TypeOK, HeldInv, ReaderInv, InRing, At, ShownSlot
<1>7. WaitInv'
  BY DEF TypeOK, WaitInv, NoLostWakeup, CloserInv, ReaderInv, NbRemaining, CondSignal, Writer, Reader
<1> QED BY <1>1, <1>2, <1>3, <1>4, <1>5, <1>6, <1>7

(* The slot handed to the reader is a filled one: HeldInv from ContentInv. *)
LEMMA GetReadableStep == IInv /\ GetReadable => IInv'
<1> SUFFICES ASSUME IInv, GetReadable PROVE IInv'
  OBVIOUS
<1> USE SizeAssumption, ModeAssumption, BoundAssumption DEF IInv, GetReadable, ring, history
<1>0. /\ SlotAt(rindex_shown) = At(rindex, rindex_shown)
      /\ SlotAt(rindex_shown + 1) = At(rindex, rindex_shown + 1)
      /\ At(rindex, rindex_shown) \in Slots
      /\ size - rindex_shown > 1 => At(rindex, rindex_shown + 1) \in Slots
  BY PeekedSlots DEF IInv
<1>1. TypeOK'
  BY <1>0 DEF TypeOK, Slots, ReaderInv, CountInv, Writer, Reader
<1>2. CloserInv' /\ WriterInv' /\ ReaderInv'
  BY DEF TypeOK, CloserInv, WriterInv, ReaderInv, NbRemaining, ReaderRuns, CondSignal
<1>3. IndexInv'
  BY DEF TypeOK, IndexInv, ReaderInv, WriterInv, InRing, At, NextIndex, Slots
<1>4. CountInv'
  BY DEF TypeOK, ReaderInv, WriterInv, CountInv, InRing, NbWaiting, NbRemaining
<1>5. ContentInv'
  BY DEF TypeOK, IndexInv, ReaderInv, WriterInv, ContentInv, InRing, At
<1>6. HeldInv'
  <2>1. InRing' = size /\ InRing = size /\ rindex' = rindex /\ rpc' # "unreffed"
    BY DEF InRing
  <2>2. SUFFICES ASSUME NEW i \in held'
                 PROVE  \E k \in 0 .. MaxSize - 1 : k < size /\ i = At(rindex, k)
    BY <2>1 DEF HeldInv, At
  <2>3. CASE i \in held
    BY <2>1, <2>3 DEF HeldInv
  <2>4. CASE i = SlotAt(rindex_shown) /\ ~abort_request
    <3>1. /\ rindex_shown \in 0 .. MaxSize - 1 /\ rindex_shown < size
          /\ i = At(rindex, rindex_shown)
      BY <1>0, <2>4 DEF TypeOK, ReaderInv
    <3> QED BY <3>1
  <2> QED BY <2>2, <2>3, <2>4
<1>7. WaitInv'
  BY DEF TypeOK, WaitInv, NoLostWakeup, CloserInv, ReaderInv, NbRemaining, CondSignal, Writer, Reader
<1> QED BY <1>1, <1>2, <1>3, <1>4, <1>5, <1>6, <1>7

(* frame_queue_next: with keep_last the first call only marks the frame shown. *)
LEMMA NextShownStep == IInv /\ NextShown => IInv'
<1> SUFFICES ASSUME IInv, NextShown PROVE IInv'
  OBVIOUS
<1> USE SizeAssumption, ModeAssumption, BoundAssumption DEF IInv, NextShown, ring, history
<1>0. /\ SlotAt(rindex_shown) = At(rindex, rindex_shown)
      /\ SlotAt(rindex_shown + 1) = At(rindex, rindex_shown + 1)
      /\ At(rindex, rindex_shown) \in Slots
      /\ size - rindex_shown > 1 => At(rindex, rindex_shown + 1) \in Slots
  BY PeekedSlots DEF IInv
<1>1. TypeOK'
  BY <1>0 DEF TypeOK, Slots, ReaderInv, CountInv, Writer, Reader
<1>2. CloserInv' /\ WriterInv' /\ ReaderInv'
  BY DEF TypeOK, CloserInv, WriterInv, ReaderInv, NbRemaining, ReaderRuns, CondSignal
<1>3. IndexInv'
  BY DEF TypeOK, IndexInv, ReaderInv, WriterInv, InRing, At, NextIndex, Slots
<1>4. CountInv'
  <2>1. rindex_shown \in 0 .. MaxSize - 1 /\ rindex_shown < InRing /\ InRing = size /\ InRing' = size
    BY DEF TypeOK, ReaderInv, InRing
  <2>2. queue[At(rindex, rindex_shown)] = produced - size + 1 + rindex_shown
    BY <2>1 DEF ContentInv
  <2>3. NbWaiting' = size - rindex_shown - 1
    BY DEF NbWaiting, NbRemaining, TypeOK
  <2> QED BY <1>0, <2>1, <2>2, <2>3 DEF CountInv, TypeOK
<1>5. ContentInv'
  BY DEF TypeOK, IndexInv, ReaderInv, WriterInv, ContentInv, InRing, At
<1>6. HeldInv'
  <2>1. \A i \in held' : i = rindex /\ rindex_shown' = 1
    BY DEF TypeOK, ShownSlot
  <2>2. rindex' = rindex /\ rpc' # "unreffed" /\ At(rindex, 0) = rindex
    BY DEF TypeOK, At, Slots
  <2>3. rindex_shown' = 1 => 0 < InRing'
    BY DEF TypeOK, ReaderInv, InRing, NbRemaining
  <2> QED BY <2>1, <2>2, <2>3, 0 \in 0 .. MaxSize - 1 DEF HeldInv, At
<1>7. WaitInv'
  BY DEF TypeOK, WaitInv, NoLostWakeup, CloserInv, ReaderInv, NbRemaining, CondSignal, Writer, Reader
<1> QED BY <1>1, <1>2, <1>3, <1>4, <1>5, <1>6, <1>7

(* frame_queue_next frees the slot at rindex, which the reader no longer holds. *)
LEMMA NextUnrefStep == IInv /\ NextUnref => IInv'
<1> SUFFICES ASSUME IInv, NextUnref PROVE IInv'
  OBVIOUS
<1> USE SizeAssumption, ModeAssumption, BoundAssumption DEF IInv, NextUnref, ring, history
<1>0. /\ SlotAt(rindex_shown) = At(rindex, rindex_shown)
      /\ SlotAt(rindex_shown + 1) = At(rindex, rindex_shown + 1)
      /\ At(rindex, rindex_shown) \in Slots
      /\ size - rindex_shown > 1 => At(rindex, rindex_shown + 1) \in Slots
  BY PeekedSlots DEF IInv
<1>1. TypeOK'
  BY <1>0 DEF TypeOK, Slots, ReaderInv, CountInv, Writer, Reader, NoFrame
<1>2. CloserInv' /\ WriterInv' /\ ReaderInv'
  BY DEF TypeOK, CloserInv, WriterInv, ReaderInv, NbRemaining, ReaderRuns, CondSignal
<1>3. IndexInv'
  BY DEF TypeOK, IndexInv, ReaderInv, WriterInv, InRing, At, NextIndex, Slots
<1>4. CountInv'
  <2>1. rindex_shown \in 0 .. MaxSize - 1 /\ rindex_shown < InRing /\ InRing = size /\ InRing' = size
    BY DEF TypeOK, ReaderInv, InRing
  <2>2. queue[At(rindex, rindex_shown)] = produced - size + 1 + rindex_shown
    BY <2>1 DEF ContentInv
  <2>3. NbWaiting' = size - rindex_shown - 1
    BY DEF NbWaiting, NbRemaining, TypeOK
  <2> QED BY <1>0, <2>1, <2>2, <2>3 DEF CountInv, TypeOK
<1>5. ContentInv'
  <2>1. /\ InRing = size /\ InRing' = size /\ rindex' = rindex /\ rindex \in Slots
        /\ size \in 1 .. MaxSize /\ rpc' = "unreffed"
    BY DEF TypeOK, ReaderInv, InRing
  <2>2. \A k \in 0 .. MaxSize - 1 : k > 0 => At(rindex, k) \in Slots /\ At(rindex, k) # rindex
    BY <2>1 DEF At, Slots
  <2>3. \A i \in Slots : i # rindex => queue'[i] = queue[i]
    BY <2>1 DEF TypeOK
  <2>4. wpc \in {"push", "pushed"} => size \in 0 .. MaxSize - 1
    BY <2>1 DEF WriterInv
  <2> QED BY <2>1, <2>2, <2>3, <2>4 DEF ContentInv, At
<1>6. HeldInv'
  <2>1. InRing' = InRing /\ rindex' = rindex /\ rindex \in Slots /\ At(rindex, 0) = rindex
    BY DEF TypeOK, InRing, At, Slots
  <2>2. SUFFICES ASSUME NEW i \in held, i # rindex
                 PROVE  \E k \in 0 .. MaxSize - 1 : k < InRing /\ k > 0 /\ i = At(rindex, k)
    BY <2>1 DEF HeldInv, At
  <2>3. PICK k \in 0 .. MaxSize - 1 : k < InRing /\ i = At(rindex, k)
    BY DEF HeldInv
  <2>4. k > 0
    BY <2>1, <2>2, <2>3
  <2> QED BY <2>3, <2>4
<1>7. WaitInv'
  BY DEF TypeOK, WaitInv, NoLostWakeup, CloserInv, ReaderInv, NbRemaining, CondSignal, Writer, Reader
<1> QED BY <1>1, <1>2, <1>3, <1>4, <1>5, <1>6, <1>7

(* frame_queue_next moves rindex, outside the mutex. *)
LEMMA NextRindexStep == IInv /\ NextRindex => IInv'
<1> SUFFICES ASSUME IInv, NextRindex PROVE IInv'
  OBVIOUS
<1> USE SizeAssumption, ModeAssumption, BoundAssumption DEF IInv, NextRindex, ring, history
<1>1. TypeOK'
  BY DEF TypeOK, Slots, WriterInv, ReaderInv, CountInv, Writer, Reader, InRing, CondSignal, NextIndex
<1>2. CloserInv' /\ WriterInv' /\ ReaderInv'
  BY DEF TypeOK, CloserInv, WriterInv, ReaderInv, NbRemaining, ReaderRuns, CondSignal
<1>3. IndexInv'
  BY DEF TypeOK, IndexInv, ReaderInv, WriterInv, InRing, At, NextIndex, Slots
<1>4. CountInv'
  BY DEF TypeOK, ReaderInv, WriterInv, CountInv, InRing, NbWaiting, NbRemaining
<1>5. ContentInv'
  <2>1. /\ InRing = size /\ InRing' = size - 1 /\ rindex' = NextIndex(rindex)
        /\ rindex \in Slots /\ size \in 1 .. MaxSize /\ rpc' = "advanced"
    BY DEF TypeOK, ReaderInv, InRing
  <2>2. \A k \in 0 .. MaxSize - 1 : At(rindex', k) = At(rindex, k + 1)
    BY <2>1 DEF At, NextIndex, Slots
  <2>3. \A k \in 0 .. MaxSize - 1 : k < size - 1 =>
            queue[At(rindex, k + 1)] = produced - (size - 1) + 1 + k
    <3> SUFFICES ASSUME NEW k \in 0 .. MaxSize - 1, k < size - 1
                 PROVE  queue[At(rindex, k + 1)] = produced - (size - 1) + 1 + k
      OBVIOUS
    <3>1. k + 1 \in 0 .. MaxSize - 1 /\ k + 1 < InRing /\ k + 1 > 0
      BY <2>1
    <3>2. queue[At(rindex, k + 1)] = produced - InRing + 1 + (k + 1)
      BY <3>1 DEF ContentInv
    <3> QED BY <2>1, <3>2 DEF TypeOK
  <2>4. wpc \in {"push", "pushed"} => queue[At(rindex, (size - 1) + 1)] = produced + 1
    BY <2>1 DEF ContentInv
  <2>5. size - 1 \in 0 .. MaxSize - 1
    BY <2>1
  <2>6. /\ \A k \in 0 .. MaxSize - 1 : k < InRing' =>
              queue'[At(rindex', k)] = produced' - InRing' + 1 + k
        /\ wpc' \in {"push", "pushed"} => queue'[At(rindex', InRing')] = produced' + 1
    BY <2>1, <2>2, <2>3, <2>4, <2>5
  <2> QED BY <2>1, <2>6 DEF ContentInv, At
<1>6. HeldInv'
  <2>1. /\ InRing = size /\ InRing' = size - 1 /\ rindex' = NextIndex(rindex)
        /\ rindex \in Slots /\ size \in 1 .. MaxSize /\ rpc' = "advanced"
    BY DEF TypeOK, ReaderInv, InRing
  <2>2. SUFFICES ASSUME NEW i \in held
                 PROVE  \E k \in 0 .. MaxSize - 1 : k < size - 1 /\ i = At(rindex', k)
    BY <2>1 DEF HeldInv, At
  <2>3. PICK k \in 0 .. MaxSize - 1 : k < size /\ k > 0 /\ i = At(rindex, k)
    BY <2>1 DEF HeldInv
  <2>4. k - 1 \in 0 .. MaxSize - 1 /\ k - 1 < size - 1 /\ i = At(rindex', k - 1)
    BY <2>1, <2>3 DEF At, NextIndex, Slots, TypeOK
  <2> QED BY <2>4
<1>7. WaitInv'
  BY DEF TypeOK, WaitInv, NoLostWakeup, CloserInv, ReaderInv, NbRemaining, CondSignal, Writer, Reader
<1> QED BY <1>1, <1>2, <1>3, <1>4, <1>5, <1>6, <1>7

(* frame_queue_next under the mutex, which wakes the writer if it waits. *)
LEMMA NextSizeStep == IInv /\ NextSize => IInv'
<1> SUFFICES ASSUME IInv, NextSize PROVE IInv'
  OBVIOUS
<1> USE SizeAssumption, ModeAssumption, BoundAssumption DEF IInv, NextSize, ring, history
<1>1. TypeOK'
  <2>1. size' \in 0 .. MaxSize /\ held' \subseteq Slots
    BY DEF TypeOK, ReaderInv, ShownSlot
  <2>2. waitSet' \subseteq {Writer, Reader}
    BY DEF TypeOK, CondSignal
  <2> QED BY <2>1, <2>2 DEF TypeOK
<1>2. CloserInv' /\ WriterInv' /\ ReaderInv'
  BY DEF TypeOK, CloserInv, WriterInv, ReaderInv, NbRemaining, ReaderRuns, CondSignal
<1>3. IndexInv'
  BY DEF TypeOK, IndexInv, ReaderInv, WriterInv, InRing, At, NextIndex, Slots
<1>4. CountInv'
  BY DEF TypeOK, ReaderInv, WriterInv, CountInv, InRing, NbWaiting, NbRemaining
<1>5. ContentInv'
  BY DEF TypeOK, IndexInv, ReaderInv, WriterInv, ContentInv, InRing, At
<1>6. HeldInv'
  <2>1. \A i \in held' : i = rindex /\ rindex_shown' = 1
    BY DEF TypeOK, ShownSlot
  <2>2. rindex' = rindex /\ rpc' # "unreffed" /\ At(rindex, 0) = rindex
    BY DEF TypeOK, At, Slots
  <2>3. rindex_shown' = 1 => 0 < InRing'
    BY DEF TypeOK, ReaderInv, InRing, NbRemaining
  <2> QED BY <2>1, <2>2, <2>3, 0 \in 0 .. MaxSize - 1 DEF HeldInv, At
<1>7. WaitInv'
  BY DEF TypeOK, WaitInv, NoLostWakeup, CloserInv, ReaderInv, NbRemaining, CondSignal, Writer, Reader
<1> QED BY <1>1, <1>2, <1>3, <1>4, <1>5, <1>6, <1>7

(* packet_queue_abort sets abort_request. *)
LEMMA AbortQueueStep == IInv /\ AbortQueue => IInv'
<1> SUFFICES ASSUME IInv, AbortQueue PROVE IInv'
  OBVIOUS
<1> USE SizeAssumption, ModeAssumption, BoundAssumption DEF IInv, AbortQueue, ring, history
<1>1. TypeOK'
  BY DEF TypeOK, Slots, WriterInv, ReaderInv, CountInv, Writer, Reader, InRing, CondSignal
<1>2. CloserInv' /\ WriterInv' /\ ReaderInv'
  BY DEF TypeOK, CloserInv, WriterInv, ReaderInv, NbRemaining, ReaderRuns, CondSignal
<1>3. IndexInv'
  BY DEF TypeOK, IndexInv, ReaderInv, WriterInv, InRing, At, NextIndex, Slots
<1>4. CountInv'
  BY DEF TypeOK, ReaderInv, WriterInv, CountInv, InRing, NbWaiting, NbRemaining
<1>5. ContentInv'
  BY DEF TypeOK, IndexInv, ReaderInv, WriterInv, ContentInv, InRing, At
<1>6. HeldInv'
  BY DEF TypeOK, HeldInv, ReaderInv, InRing, At, ShownSlot
<1>7. WaitInv'
  BY DEF TypeOK, WaitInv, NoLostWakeup, CloserInv, ReaderInv, NbRemaining, CondSignal, Writer, Reader
<1> QED BY <1>1, <1>2, <1>3, <1>4, <1>5, <1>6, <1>7

(* frame_queue_signal wakes one that waits. *)
LEMMA SignalFramesStep == IInv /\ SignalFrames => IInv'
<1> SUFFICES ASSUME IInv, SignalFrames PROVE IInv'
  OBVIOUS
<1> USE SizeAssumption, ModeAssumption, BoundAssumption DEF IInv, SignalFrames, ring, history
<1>1. TypeOK'
  BY DEF TypeOK, Slots, WriterInv, ReaderInv, CountInv, Writer, Reader, InRing, CondSignal
<1>2. CloserInv' /\ WriterInv' /\ ReaderInv'
  BY DEF TypeOK, CloserInv, WriterInv, ReaderInv, NbRemaining, ReaderRuns, CondSignal
<1>3. IndexInv'
  BY DEF TypeOK, IndexInv, ReaderInv, WriterInv, InRing, At, NextIndex, Slots
<1>4. CountInv'
  BY DEF TypeOK, ReaderInv, WriterInv, CountInv, InRing, NbWaiting, NbRemaining
<1>5. ContentInv'
  BY DEF TypeOK, IndexInv, ReaderInv, WriterInv, ContentInv, InRing, At
<1>6. HeldInv'
  BY DEF TypeOK, HeldInv, ReaderInv, InRing, At, ShownSlot
<1>7. WaitInv'
  <2>1. ~(Writer \in waitSet /\ Reader \in waitSet)
    BY DEF TypeOK, WaitInv, NoLostWakeup, NbRemaining
  <2>2. waitSet' = {}
    BY <2>1 DEF TypeOK, CondSignal
  <2> QED BY <2>2 DEF WaitInv, NoLostWakeup
<1> QED BY <1>1, <1>2, <1>3, <1>4, <1>5, <1>6, <1>7

(* decoder_abort waits for the decoder thread to end. *)
LEMMA JoinWriterStep == IInv /\ JoinWriter => IInv'
<1> SUFFICES ASSUME IInv, JoinWriter PROVE IInv'
  OBVIOUS
<1> USE SizeAssumption, ModeAssumption, BoundAssumption DEF IInv, JoinWriter, ring, history
<1>1. TypeOK'
  BY DEF TypeOK, Slots, WriterInv, ReaderInv, CountInv, Writer, Reader, InRing, CondSignal
<1>2. CloserInv' /\ WriterInv' /\ ReaderInv'
  BY DEF TypeOK, CloserInv, WriterInv, ReaderInv, NbRemaining, ReaderRuns, CondSignal
<1>3. IndexInv'
  BY DEF TypeOK, IndexInv, ReaderInv, WriterInv, InRing, At, NextIndex, Slots
<1>4. CountInv'
  BY DEF TypeOK, ReaderInv, WriterInv, CountInv, InRing, NbWaiting, NbRemaining
<1>5. ContentInv'
  BY DEF TypeOK, IndexInv, ReaderInv, WriterInv, ContentInv, InRing, At
<1>6. HeldInv'
  BY DEF TypeOK, HeldInv, ReaderInv, InRing, At, ShownSlot
<1>7. WaitInv'
  BY DEF TypeOK, WaitInv, NoLostWakeup, CloserInv, ReaderInv, NbRemaining, CondSignal, Writer, Reader
<1> QED BY <1>1, <1>2, <1>3, <1>4, <1>5, <1>6, <1>7

(* SDL_CloseAudioDevice: no callback reads any more. *)
LEMMA StopCallbacksStep == IInv /\ StopCallbacks => IInv'
<1> SUFFICES ASSUME IInv, StopCallbacks PROVE IInv'
  OBVIOUS
<1> USE SizeAssumption, ModeAssumption, BoundAssumption DEF IInv, StopCallbacks, ring, history
<1>1. TypeOK'
  BY DEF TypeOK, Slots, WriterInv, ReaderInv, CountInv, Writer, Reader, InRing, CondSignal
<1>2. CloserInv' /\ WriterInv' /\ ReaderInv'
  BY DEF TypeOK, CloserInv, WriterInv, ReaderInv, NbRemaining, ReaderRuns, CondSignal
<1>3. IndexInv'
  BY DEF TypeOK, IndexInv, ReaderInv, WriterInv, InRing, At, NextIndex, Slots
<1>4. CountInv'
  BY DEF TypeOK, ReaderInv, WriterInv, CountInv, InRing, NbWaiting, NbRemaining
<1>5. ContentInv'
  BY DEF TypeOK, IndexInv, ReaderInv, WriterInv, ContentInv, InRing, At
<1>6. HeldInv'
  BY DEF TypeOK, HeldInv, ReaderInv, InRing, At, ShownSlot
<1>7. WaitInv'
  BY DEF TypeOK, WaitInv, NoLostWakeup, CloserInv, ReaderInv, NbRemaining, CondSignal, Writer, Reader
<1> QED BY <1>1, <1>2, <1>3, <1>4, <1>5, <1>6, <1>7

(* The stream is closed: the reader takes nothing of it any more. *)
LEMMA CloseReaderStep == IInv /\ CloseReader => IInv'
<1> SUFFICES ASSUME IInv, CloseReader PROVE IInv'
  OBVIOUS
<1> USE SizeAssumption, ModeAssumption, BoundAssumption DEF IInv, CloseReader, ring, history
<1>1. TypeOK'
  BY DEF TypeOK, Slots, WriterInv, ReaderInv, CountInv, Writer, Reader, InRing, CondSignal
<1>2. CloserInv' /\ WriterInv' /\ ReaderInv'
  BY DEF TypeOK, CloserInv, WriterInv, ReaderInv, NbRemaining, ReaderRuns, CondSignal
<1>3. IndexInv'
  BY DEF TypeOK, IndexInv, ReaderInv, WriterInv, InRing, At, NextIndex, Slots
<1>4. CountInv'
  BY DEF TypeOK, ReaderInv, WriterInv, CountInv, InRing, NbWaiting, NbRemaining
<1>5. ContentInv'
  BY DEF TypeOK, IndexInv, ReaderInv, WriterInv, ContentInv, InRing, At
<1>6. HeldInv'
  BY DEF TypeOK, HeldInv, ReaderInv, InRing, At, ShownSlot
<1>7. WaitInv'
  BY DEF TypeOK, WaitInv, NoLostWakeup, CloserInv, ReaderInv, NbRemaining, CondSignal, Writer, Reader
<1> QED BY <1>1, <1>2, <1>3, <1>4, <1>5, <1>6, <1>7

(* The stream is opened again on the same frame queue. *)
LEMMA ReopenStep == IInv /\ Reopen => IInv'
<1> SUFFICES ASSUME IInv, Reopen PROVE IInv'
  OBVIOUS
<1> USE SizeAssumption, ModeAssumption, BoundAssumption DEF IInv, Reopen, ring, history
<1>1. TypeOK'
  BY DEF TypeOK, Slots, WriterInv, ReaderInv, CountInv, Writer, Reader, InRing, CondSignal, ShownSlot
<1>2. CloserInv' /\ WriterInv' /\ ReaderInv'
  BY DEF TypeOK, CloserInv, WriterInv, ReaderInv, NbRemaining, ReaderRuns, CondSignal
<1>3. IndexInv'
  BY DEF TypeOK, IndexInv, CloserInv, InRing, At
<1>4. CountInv'
  BY DEF TypeOK, ReaderInv, WriterInv, CountInv, InRing, NbWaiting, NbRemaining
<1>5. ContentInv'
  BY DEF TypeOK, IndexInv, ReaderInv, WriterInv, ContentInv, InRing, At
<1>6. HeldInv'
  <2>1. \A i \in held' : i = rindex /\ rindex_shown' = 1
    BY DEF TypeOK, ShownSlot
  <2>2. rindex' = rindex /\ rpc' # "unreffed" /\ At(rindex, 0) = rindex
    BY DEF TypeOK, At, Slots, CloserInv
  <2>3. rindex_shown' = 1 => 0 < InRing'
    BY DEF TypeOK, ReaderInv, InRing, NbRemaining, CloserInv
  <2> QED BY <2>1, <2>2, <2>3, 0 \in 0 .. MaxSize - 1 DEF HeldInv, At
<1>7. WaitInv'
  BY DEF TypeOK, WaitInv, NoLostWakeup, CloserInv, ReaderInv, NbRemaining, CondSignal, Writer, Reader
<1> QED BY <1>1, <1>2, <1>3, <1>4, <1>5, <1>6, <1>7

------------------------------------------------------------------------------
(* Every step *)

(* Every step keeps the inductive invariant: one lemma per action. *)
LEMMA NextIInv == IInv /\ [Next]_vars => IInv'
<1> SUFFICES ASSUME IInv, [Next]_vars PROVE IInv'
  OBVIOUS
<1>1. CASE WriterStep
  BY <1>1, DecodedStep, DecodeAbortedStep, PeekWritableStep, GetWritableStep, FillStep,
     PushIndexStep, PushSizeStep, Zenon DEF WriterStep
<1>2. CASE ReaderStep
  BY <1>2, PeekFramesStep, ShowLongerStep, SilenceStep, PeekReadableStep, GetReadableStep,
     NextShownStep, NextUnrefStep, NextRindexStep, NextSizeStep, Zenon DEF ReaderStep
<1>3. CASE CloserStep
  BY <1>3, AbortQueueStep, SignalFramesStep, JoinWriterStep, StopCallbacksStep,
     CloseReaderStep, ReopenStep, Zenon DEF CloserStep
<1>4. CASE UNCHANGED vars
  BY <1>4 DEF vars, IInv, TypeOK, CloserInv, WriterInv, ReaderInv, IndexInv, CountInv,
     ContentInv, HeldInv, WaitInv, NoLostWakeup, InRing, NbWaiting, NbRemaining, At
<1> QED BY <1>1, <1>2, <1>3, <1>4, Zenon DEF Next

(* The inductive invariant holds of every reachable state. *)
LEMMA SpecIInv == Spec => []IInv
<1>1. IInv /\ [Next]_vars => IInv'
  BY NextIInv
<1> QED BY InitIInv, <1>1, PTL DEF Spec

------------------------------------------------------------------------------
(* What follows for the code *)

(* The indices of a FrameQueue stay in its array and its size between 0    *)
(* and max_size, though indices and size change in separate steps.         *)
THEOREM TypeCorrect == Spec => []TypeOK
<1>1. IInv => TypeOK
  BY DEF IInv
<1> QED BY <1>1, SpecIInv, PTL

(* A decoder thread never fills a slot the consumer reads: frame_queue_    *)
(* peek_writable followed by unlocked writes is safe, whatever the size of *)
(* the ring and whether or not the last frame is kept.                     *)
THEOREM WriterAlone == Spec => []NoOverwrite
<1>1. IInv => NoOverwrite
  <2> SUFFICES ASSUME IInv, wpc \in {"fill", "push"}, windex \in held PROVE FALSE
    BY DEF NoOverwrite
  <2>1. /\ windex = At(rindex, InRing) /\ InRing \in 0 .. MaxSize - 1
        /\ rindex \in Slots
    BY SizeAssumption DEF IInv, TypeOK, IndexInv, WriterInv, ReaderInv, InRing
  <2>2. PICK k \in 0 .. MaxSize - 1 : k < InRing /\ windex = At(rindex, k)
    BY DEF IInv, HeldInv
  <2> QED BY <2>1, <2>2, SizeAssumption DEF At, Slots
<1> QED BY <1>1, SpecIInv, PTL

(* The consumer never holds a slot whose frame was released: neither the   *)
(* frame on the screen nor the one audio_buf points into is unreferenced.  *)
THEOREM HeldNotReleased == Spec => []HeldSlotsFilled
<1>1. IInv => HeldSlotsFilled
  <2> SUFFICES ASSUME IInv, NEW i \in held PROVE queue[i] # NoFrame
    BY DEF HeldSlotsFilled
  <2>1. PICK k \in 0 .. MaxSize - 1 : /\ k < InRing /\ i = At(rindex, k)
                                      /\ rpc = "unreffed" => k > 0
    BY DEF IInv, HeldInv
  <2>2. queue[i] = produced - InRing + 1 + k
    BY <2>1 DEF IInv, ContentInv
  <2>3. produced \in Nat /\ InRing \in Int /\ produced - InRing >= 0
    BY SizeAssumption DEF IInv, TypeOK, CountInv, InRing
  <2> QED BY <2>1, <2>2, <2>3 DEF NoFrame
<1> QED BY <1>1, SpecIInv, PTL

(* The shared condition variable is used safely: whoever sleeps on f->cond *)
(* has nothing to do, and an abort leaves no one asleep once it has been   *)
(* signalled.                                                              *)
THEOREM SleepersHaveReason == Spec => []NoLostWakeup
<1>1. IInv => NoLostWakeup
  BY DEF IInv, WaitInv
<1> QED BY <1>1, SpecIInv, PTL

(* A take is of the frame after the last one taken. *)
LEMMA TakesNext ==
    ASSUME IInv, NextShown \/ NextUnref
    PROVE  taken' = taken + 1 /\ produced' = produced /\ taken < produced
<1> USE SizeAssumption
<1>0. SlotAt(rindex_shown) = At(rindex, rindex_shown)
  BY PeekedSlots DEF IInv
<1>1. /\ rindex_shown \in 0 .. MaxSize - 1 /\ rindex_shown < InRing /\ InRing = size
      /\ rpc = "peeked" /\ size \in Nat /\ produced \in Nat
  BY DEF IInv, TypeOK, ReaderInv, InRing, NextShown, NextUnref
<1>2. queue[At(rindex, rindex_shown)] = produced - size + 1 + rindex_shown
  BY <1>1 DEF IInv, ContentInv
<1>3. taken = produced - (size - rindex_shown)
  BY <1>1 DEF IInv, CountInv, NbWaiting, NbRemaining
<1>4. taken' = queue[At(rindex, rindex_shown)] /\ produced' = produced
  BY <1>0 DEF NextShown, NextUnref
<1> QED BY <1>1, <1>2, <1>3, <1>4

(* No other step takes a frame, and only a push produces one. *)
LEMMA OthersKeepCounts ==
    ASSUME IInv, [Next]_vars, ~NextShown, ~NextUnref, ~PushSize
    PROVE  taken' = taken /\ produced' = produced
  BY DEF Next, WriterStep, ReaderStep, CloserStep, Decoded, DecodeAborted, PeekWritable,
     GetWritable, Fill, PushIndex, PeekFrames, ShowLonger, Silence, PeekReadable, GetReadable,
     NextRindex, NextSize, AbortQueue, SignalFrames, JoinWriter, StopCallbacks, CloseReader,
     Reopen, vars, history

(* The frame taken last stays in its slot until the next one is taken,     *)
(* however far the decoder has got, in a ring of any size.                 *)
THEOREM LastStays == Spec => []LastShown
<1>1. IInv => LastShown
  <2> SUFFICES ASSUME IInv, rindex_shown = 1, rpc # "unreffed" PROVE queue[rindex] = taken
    BY DEF LastShown
  <2> USE SizeAssumption
  <2>1. /\ produced \in Nat /\ taken \in Nat /\ size \in Nat
        /\ InRing \in 0 .. MaxSize /\ InRing >= 1 /\ rindex \in Slots
        /\ taken = produced - (InRing - 1)
    BY DEF IInv, TypeOK, CountInv, ReaderInv, NbWaiting, NbRemaining, InRing
  <2>2. At(rindex, 0) = rindex
    BY <2>1 DEF At, Slots
  <2>3. queue[At(rindex, 0)] = produced - InRing + 1 + 0
    BY <2>1 DEF IInv, ContentInv
  <2> QED BY <2>1, <2>2, <2>3
<1> QED BY <1>1, SpecIInv, PTL

------------------------------------------------------------------------------
(* Refinement of FrameFifo *)

(* The frames a + 1, ..., b in order. *)
From(a, b) == [k \in 1 .. b - a |-> a + k]

(* From(i, n), the frames i + 1 .. n, as the sequence that the queue of FrameFifo is. *)
LEMMA FromFacts ==
    ASSUME NEW a \in Nat, NEW b \in Nat, a <= b
    PROVE  /\ From(a, b) \in Seq(Nat) /\ Len(From(a, b)) = b - a
           /\ Append(From(a, b), b + 1) = From(a, b + 1)
           /\ a < b => /\ From(a, b) # <<>>
                       /\ Head(From(a, b)) = a + 1
                       /\ Tail(From(a, b)) = From(a + 1, b)
<1>1. From(a, b) \in Seq(Nat) /\ Len(From(a, b)) = b - a
  BY DEF From
<1>2. Append(From(a, b), b + 1) = From(a, b + 1)
  BY DEF From
<1>3. ASSUME a < b PROVE From(a, b) # <<>> /\ Head(From(a, b)) = a + 1
  BY <1>1, <1>3 DEF From
<1>4. ASSUME a < b PROVE Tail(From(a, b)) = From(a + 1, b)
  BY <1>4 DEF From
<1> QED BY <1>1, <1>2, <1>3, <1>4

(* What waits in the ring is exactly the frames produced and not taken. *)
LEMMA WaitingFrames == IInv => Waiting = From(taken, produced) /\ taken <= produced
<1> SUFFICES ASSUME IInv PROVE Waiting = From(taken, produced) /\ taken <= produced
  OBVIOUS
<1> USE SizeAssumption
<1>1. /\ taken \in Nat /\ produced \in Nat /\ NbWaiting \in Nat /\ FirstWaiting \in Nat
      /\ produced - taken = NbWaiting
      /\ FirstWaiting + NbWaiting = InRing /\ InRing \in 0 .. MaxSize
      /\ rpc = "unreffed" => FirstWaiting > 0
      /\ InRing = produced - taken + FirstWaiting
  BY DEF IInv, TypeOK, CountInv, ReaderInv, NbWaiting, NbRemaining, FirstWaiting, InRing
<1>2. ASSUME NEW k \in 1 .. NbWaiting PROVE queue[SlotAt(FirstWaiting + k - 1)] = taken + k
  <2>1. /\ FirstWaiting + k - 1 \in 0 .. MaxSize - 1 /\ FirstWaiting + k - 1 < InRing
        /\ rpc = "unreffed" => FirstWaiting + k - 1 > 0
    BY <1>1
  <2>2. SlotAt(FirstWaiting + k - 1) = At(rindex, FirstWaiting + k - 1)
    <3>1. rindex \in Slots /\ FirstWaiting + k - 1 \in 0 .. MaxSize
      BY <2>1 DEF IInv, TypeOK
    <3> QED BY <3>1, SlotAtIsAt, Zenon
  <2>3. queue[At(rindex, FirstWaiting + k - 1)] = produced - InRing + 1 + (FirstWaiting + k - 1)
    BY <2>1 DEF IInv, ContentInv
  <2> QED BY <1>1, <2>2, <2>3
<1>3. Waiting = From(taken, produced)
  BY <1>1, <1>2, Zenon DEF Waiting, From
<1> QED BY <1>1, <1>3

(* A FrameQueue is a FIFO of its frames: with the frames not yet taken as  *)
(* the waiting ones, every step of the ring is a put, a take or nothing.   *)
THEOREM RingImplementsFifo == Spec => ImplementsFifo
<1>1. Init => Fifo!Init
  <2> SUFFICES ASSUME Init PROVE Fifo!Init
    OBVIOUS
  <2>1. taken = 0 /\ produced = 0
    BY Zenon DEF Init
  <2>2. Waiting = From(0, 0)
    BY <2>1, InitIInv, WaitingFrames
  <2>3. From(0, 0) = <<>>
    BY FromFacts DEF From
  <2> QED BY <2>1, <2>2, <2>3 DEF Fifo!Init
<1>2. IInv /\ IInv' /\ [Next]_vars => [Fifo!Next]_(Fifo!fifoVars)
  <2> SUFFICES ASSUME IInv, IInv', [Next]_vars PROVE [Fifo!Next]_(Fifo!fifoVars)
    OBVIOUS
  <2>1. /\ Waiting = From(taken, produced) /\ Waiting' = From(taken', produced')
        /\ taken \in Nat /\ produced \in Nat /\ taken <= produced
        /\ taken' \in Nat /\ produced' \in Nat
    <3>1. (Waiting = From(taken, produced) /\ taken <= produced)'
      BY WaitingFrames, PTL
    <3> QED BY <3>1, WaitingFrames DEF IInv, TypeOK
  <2>2. CASE NextShown \/ NextUnref
    <3>1. taken' = taken + 1 /\ produced' = produced /\ taken < produced
      BY <2>2, TakesNext
    <3>2. /\ Waiting # <<>> /\ Head(Waiting) = taken' /\ Tail(Waiting) = Waiting'
      BY <2>1, <3>1, FromFacts
    <3>3. Fifo!Take
      BY <3>1, <3>2 DEF Fifo!Take
    <3> QED BY <3>3 DEF Fifo!Next
  <2>3. CASE PushSize
    <3>1. /\ taken' = taken /\ produced' = produced + 1 /\ produced < MaxFrames
      BY <2>3 DEF PushSize, IInv, CountInv
    <3>2. Waiting' = Append(Waiting, produced + 1)
      BY <2>1, <3>1, FromFacts
    <3>3. Len(Waiting) = NbWaiting
      <4>1. Len(Waiting) = produced - taken
        BY <2>1, FromFacts
      <4>2. NbWaiting \in Int
        BY SizeAssumption DEF IInv, TypeOK, NbWaiting, NbRemaining
      <4> QED BY <2>1, <4>1, <4>2 DEF IInv, CountInv
    <3>4. Len(Waiting) + (IF KeepLast /\ (IF KeepLast THEN taken ELSE 0) # 0 THEN 1 ELSE 0) < MaxSize
      BY <2>3, <3>3, SizeAssumption, ModeAssumption
         DEF PushSize, IInv, TypeOK, WriterInv, ReaderInv, NbWaiting, NbRemaining
    <3>5. Fifo!Put
      BY <3>1, <3>2, <3>4 DEF Fifo!Put, Fifo!Held
    <3> QED BY <3>5 DEF Fifo!Next
  <2>4. CASE ~NextShown /\ ~NextUnref /\ ~PushSize
    <3>1. taken' = taken /\ produced' = produced
      BY <2>4, OthersKeepCounts
    <3> QED BY <2>1, <3>1 DEF Fifo!fifoVars
  <2> QED BY <2>2, <2>3, <2>4
<1> QED BY <1>1, <1>2, SpecIInv, PTL DEF Spec, ImplementsFifo, Fifo!Spec
=============================================================================
