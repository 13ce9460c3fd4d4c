--------------------------- MODULE AudioOutProofs ---------------------------
(***************************************************************************)
(* Proofs about AudioOut.tla, for all sizes of frames and buffers and any   *)
(* number of seeks: its types, what a thread can read of a clock that is    *)
(* being set, the end of the sound after a pause, the restart of the        *)
(* correction after a seek, and that the clock tells what is heard.         *)
(***************************************************************************)
EXTENDS AudioOut, TLAPS, SequenceTheorems

-----------------------------------------------------------------------------
(* The invariant                                                           *)

\* A clock's value is at least of the serial stored with it, and of none later than the
\* frame the callback is at.
ClockOrder ==
    /\ audclk.serial <= audclk.pts.of /\ audclk.serial <= audclk.drift.of
    /\ audclk.pts.of <= audio_clock.value.of /\ audclk.drift.of <= audio_clock.value.of
    /\ audio_clock.value.of <= serial

\* Serial is stored last.
ClockStored ==
    /\ callback \in {"set drift", "set serial"} => audclk.pts.of = audio_clock.value.of
    /\ callback = "set serial" => audclk.drift.of = audio_clock.value.of

\* A thread in get_clock has no value yet, and has compared with a serial that was stored.
GetInv ==
    /\ get.at = "read" => audclk.serial >= get.compared
    /\ get.at # "start" => get.value.of = 0

ClockInv == ClockOrder /\ ClockStored /\ GetInv

\* While paused, the callback takes at most the frame it was waiting for.
PauseInv == paused => begun <= 1 /\ (callback = "wait" => begun = 0)

\* Of a serial that audclk has, frames were taken, and one more than were measured.
AvgInv ==
    /\ AudioMaster => avg = 0
    /\ \A s \in Serials : s > serial => taken[s] = 0
    /\ audio_clock.value.of # 0 => taken[audio_clock.value.of] > 0
    /\ taken[serial] > 0 => taken[serial] > avg
    /\ sounds /\ size # Nb => audio_clock.value.of # 0 /\ taken[audio_clock.value.of] > AvgNb + 1

IInv == TypeOK /\ ClockInv /\ PauseInv /\ AvgInv /\ ReadNotOlder

-----------------------------------------------------------------------------
(* Amounts                                                                 *)

LEMMA ConstantTypes ==
    /\ Nb \in Nat /\ Nb > 0 /\ HwBuf \in Nat /\ HwBuf > 0 /\ Silence \in Nat /\ Silence > 0
    /\ QueueCap \in Nat /\ QueueCap > 0
    /\ AvgNb \in Nat /\ MaxFrames \in Nat /\ MaxSerial \in Nat /\ MaxSerial > 0
    /\ MaxToggles \in Nat /\ AudioMaster \in BOOLEAN
BY AudioAssumption DEF AudioAssumption

LEMMA StretchType == MinNb \in Nat /\ MaxNb \in Nat
BY ConstantTypes DEF MinNb, MaxNb

LEMMA Division == ASSUME NEW a \in Int, NEW b \in Nat, b > 0 PROVE a \div b \in Int
OBVIOUS

LEMMA Product == ASSUME NEW a \in Nat, NEW b \in Nat PROVE a * b \in Nat
OBVIOUS

LEMMA HeadFrame ==
    ASSUME TypeOK, sampq # <<>>
    PROVE  /\ Head(sampq) \in Frames
           /\ Tail(sampq) \in Seq(Frames)
           /\ Len(Tail(sampq)) <= QueueCap
<1>1. sampq \in Seq(Frames) /\ Len(sampq) <= QueueCap
  BY DEF TypeOK
<1>2. Len(Tail(sampq)) = Len(sampq) - 1 /\ Len(sampq) \in Nat
  BY <1>1, HeadTailProperties, LenProperties
<1>3. Len(Tail(sampq)) <= QueueCap
  BY <1>1, <1>2, ConstantTypes
<1> QED
  BY <1>1, <1>2, <1>3, HeadTailProperties

LEMMA EndType == ASSUME NEW frame \in Frames PROVE EndOf(frame) \in Int
<1>1. frame.number + 1 \in Nat
  BY ConstantTypes DEF Frames
<1> QED
  BY <1>1, Product, ConstantTypes DEF EndOf

-----------------------------------------------------------------------------
(* Types                                                                   *)

LEMMA InitType == Init => TypeOK
<1> SUFFICES ASSUME Init PROVE TypeOK
  OBVIOUS
<1>1. sampq \in Seq(Frames) /\ Len(sampq) = 0
  BY EmptySeq DEF Init
<1>2. serial \in Serials /\ decoder \in [serial : Serials, number : 0..MaxFrames]
  BY ConstantTypes DEF Init, Serials
<1>3. NoValue \in Values
  BY ConstantTypes DEF NoValue, Values
<1>4. /\ audio_clock \in [known : BOOLEAN, value : Values]
      /\ audclk \in [pts : Values, drift : Values, serial : 0..MaxSerial]
      /\ get \in [at : {"start", "compare", "read"}, compared : 0..MaxSerial, value : Values]
      /\ heard \in Values
  BY <1>3, ConstantTypes DEF Init
<1>5. /\ len \in 0..HwBuf /\ (callback \in {"copy", "wait"} <=> len > 0)
      /\ callback \in {"idle", "copy", "wait", "set pts", "set drift", "set serial"}
      /\ size \in Nat /\ index \in 0..size
      /\ avg \in 0..AvgNb /\ toggles \in 0..MaxToggles /\ begun \in Nat
      /\ taken \in [Serials -> Nat]
  BY ConstantTypes DEF Init
<1>6. paused \in BOOLEAN /\ expired \in BOOLEAN /\ sounds \in BOOLEAN
  BY DEF Init
<1>7. Len(sampq) <= QueueCap
  BY <1>1, ConstantTypes
<1> QED
  BY <1>1, <1>2, <1>4, <1>5, <1>6, <1>7 DEF TypeOK

\* The parts of TypeOK that an action changes together.
QueueType ==
    /\ serial \in Serials
    /\ sampq \in Seq(Frames) /\ Len(sampq) <= QueueCap
    /\ decoder \in [serial : Serials, number : 0..MaxFrames]

BufferType ==
    /\ callback \in {"idle", "copy", "wait", "set pts", "set drift", "set serial"}
    /\ len \in 0..HwBuf /\ (callback \in {"copy", "wait"} <=> len > 0)
    /\ size \in Nat /\ index \in 0..size

ClockType ==
    /\ audio_clock \in [known : BOOLEAN, value : Values]
    /\ audclk \in [pts : Values, drift : Values, serial : 0..MaxSerial]
    /\ get \in [at : {"start", "compare", "read"}, compared : 0..MaxSerial, value : Values]
    /\ heard \in Values

CountType ==
    /\ avg \in 0..AvgNb
    /\ taken \in [Serials -> Nat] /\ begun \in Nat
    /\ toggles \in 0..MaxToggles

FlagType == paused \in BOOLEAN /\ expired \in BOOLEAN /\ sounds \in BOOLEAN

LEMMA TypeParts ==
    TypeOK <=> QueueType /\ BufferType /\ ClockType /\ CountType /\ FlagType
BY DEF TypeOK, QueueType, BufferType, ClockType, CountType, FlagType

LEMMA QueueTypeInv == TypeOK /\ [Next]_vars => QueueType'
<1> SUFFICES ASSUME TypeOK, [Next]_vars PROVE QueueType'
  OBVIOUS
<1>0. QueueType
  BY TypeParts
<1>1. CASE SkipStale \/ TakeFrame
  <2>1. sampq' \in Seq(Frames) /\ Len(sampq') <= QueueCap
    BY <1>1, HeadFrame DEF SkipStale, TakeFrame
  <2> QED
    BY <1>0, <1>1, <2>1 DEF QueueType, SkipStale, TakeFrame
<1>2. CASE QueueFrame
  <2>1. decoder \in Frames /\ sampq \in Seq(Frames)
    BY <1>0 DEF QueueType, Frames
  <2>2. sampq' \in Seq(Frames) /\ Len(sampq') = Len(sampq) + 1 /\ Len(sampq) \in Nat
    BY <1>2, <2>1, AppendProperties, LenProperties DEF QueueFrame
  <2>3. Len(sampq') <= QueueCap
    BY <1>2, <2>2, ConstantTypes DEF QueueFrame
  <2>4. decoder' \in [serial : Serials, number : 0..MaxFrames]
    BY <1>0, <1>2, ConstantTypes DEF QueueType, QueueFrame
  <2> QED
    BY <1>0, <1>2, <2>2, <2>3, <2>4 DEF QueueType, QueueFrame
<1>3. CASE DecoderFlush
  <2>1. decoder' \in [serial : Serials, number : 0..MaxFrames]
    BY <1>0, <1>3, ConstantTypes DEF QueueType, DecoderFlush
  <2> QED
    BY <1>0, <1>3, <2>1 DEF QueueType, DecoderFlush
<1>4. CASE Seek
  <2>1. serial' \in Serials
    BY <1>0, <1>4, ConstantTypes DEF QueueType, Seek, Serials
  <2> QED
    BY <1>0, <1>4, <2>1 DEF QueueType, Seek
<1>5. CASE UNCHANGED file
  BY <1>0, <1>5 DEF QueueType, file
<1>6. SkipStale \/ TakeFrame \/ QueueFrame \/ DecoderFlush \/ Seek \/ UNCHANGED file
  BY DEF Next, Callback, vars, CallbackBegin, FillBuffer, WaitFrame, CopyBuffer, SetPts,
         SetDrift, SetSerial, TimePasses, GetQueueSerial, GetSerial, GetValue, TogglePause
<1> QED
  BY <1>1, <1>2, <1>3, <1>4, <1>5, <1>6

LEMMA BufferTypeInv == TypeOK /\ [Next]_vars => BufferType'
<1> SUFFICES ASSUME TypeOK, [Next]_vars PROVE BufferType'
  OBVIOUS
<1>0. BufferType
  BY TypeParts
<1>1. CASE CallbackBegin
  BY <1>0, <1>1, ConstantTypes DEF BufferType, CallbackBegin, buffer
<1>2. CASE FillBuffer
  <2>1. CASE paused
    BY <1>0, <1>2, <2>1, ConstantTypes DEF BufferType, FillBuffer, GiveSilence
  <2>2. CASE ~paused
    BY <1>0, <1>2, <2>2 DEF BufferType, FillBuffer, buffer
  <2> QED
    BY <2>1, <2>2
<1>3. CASE WaitFrame
  BY <1>0, <1>3, ConstantTypes DEF BufferType, WaitFrame, GiveSilence
<1>4. CASE TakeFrame
  <2>1. size' \in Nat
    BY <1>4, ConstantTypes, StretchType DEF TakeFrame, synchronize_audio
  <2> QED
    BY <1>0, <1>4, <2>1 DEF BufferType, TakeFrame
<1>5. CASE CopyBuffer
  <2> DEFINE len1 == Least(size - index, len)
  <2>0. callback = "copy" /\ index < size
    BY <1>5, Zenon DEF CopyBuffer
  <2>1. size \in Nat /\ index \in Nat /\ len \in Nat /\ index < size /\ len > 0 /\ len <= HwBuf
    BY <1>0, <2>0, ConstantTypes DEF BufferType
  <2>2. len1 \in Nat /\ len1 <= len /\ index + len1 <= size
    BY <2>1 DEF Least
  <2>3. len' = len - len1 /\ index' = index + len1 /\ size' = size
    BY <1>5 DEF CopyBuffer
  <2>8. callback' = IF len1 < len THEN "copy"
                    ELSE IF audio_clock.known THEN "set pts" ELSE "idle"
    BY <1>5 DEF CopyBuffer
  <2> HIDE DEF len1
  <2>4. len' \in 0..HwBuf /\ (len' > 0 <=> len1 < len)
    BY <2>1, <2>2, <2>3, ConstantTypes
  <2>5. size' \in Nat /\ index' \in 0..size'
    BY <2>1, <2>2, <2>3
  <2>6. CASE len1 < len
    <3>1. callback' = "copy" /\ len' > 0
      BY <2>4, <2>6, <2>8
    <3> QED
      BY <2>4, <2>5, <3>1 DEF BufferType
  <2>7. CASE ~(len1 < len)
    <3>1. callback' \in {"set pts", "idle"} /\ ~(len' > 0)
      BY <2>4, <2>7, <2>8
    <3> QED
      BY <2>4, <2>5, <3>1 DEF BufferType
  <2> QED
    BY <2>6, <2>7
<1>6. CASE SetPts \/ SetDrift \/ SetSerial
  BY <1>0, <1>6 DEF BufferType, SetPts, SetDrift, SetSerial, buffer
<1>7. CASE UNCHANGED <<callback, len, size, index>>
  BY <1>0, <1>7 DEF BufferType
<1>8. \/ CallbackBegin \/ FillBuffer \/ WaitFrame \/ TakeFrame \/ CopyBuffer
      \/ SetPts \/ SetDrift \/ SetSerial
      \/ UNCHANGED <<callback, len, size, index>>
  BY DEF Next, Callback, vars, buffer, SkipStale, TimePasses, GetQueueSerial, GetSerial,
         GetValue, QueueFrame, DecoderFlush, Seek, TogglePause
<1> QED
  BY <1>1, <1>2, <1>3, <1>4, <1>5, <1>6, <1>7, <1>8

LEMMA ClockTypeInv == TypeOK /\ [Next]_vars => ClockType'
<1> SUFFICES ASSUME TypeOK, [Next]_vars PROVE ClockType'
  OBVIOUS
<1>0. ClockType /\ BufferType /\ QueueType
  BY TypeParts
<1>1. CASE TakeFrame
  <2>1. Head(sampq) \in Frames
    BY <1>1, HeadFrame DEF TakeFrame
  <2>2. Head(sampq).serial \in 0..MaxSerial
    BY <2>1, ConstantTypes DEF Frames, Serials
  <2>3. EndOf(Head(sampq)) \in Int
    BY <2>1, EndType
  <2>4. [of |-> Head(sampq).serial, at |-> EndOf(Head(sampq))] \in Values
    BY <2>2, <2>3 DEF Values
  <2>5. audio_clock' \in [known : BOOLEAN, value : Values]
    BY <1>1, <2>4 DEF TakeFrame
  <2> QED
    BY <1>0, <1>1, <2>5 DEF ClockType, TakeFrame
<1>2. CASE CopyBuffer
  <2> DEFINE len1 == Least(size - index, len)
             upto == audio_clock.value.at - Nb + ((index + len1) * Nb) \div size
  <2>1. index < size
    BY <1>2, Zenon DEF CopyBuffer
  <2>2. size \in Nat /\ size > 0 /\ index \in Nat /\ len1 \in Nat
    <3>1. size \in Nat /\ index \in 0..size /\ len \in 0..HwBuf
      BY <1>0 DEF BufferType
    <3>2. size > 0 /\ index \in Nat /\ len \in Nat /\ size - index \in Nat
      BY <2>1, <3>1, ConstantTypes
    <3> QED
      BY <3>1, <3>2 DEF Least
  <2>3. ((index + len1) * Nb) \div size \in Int
    BY <2>2, Product, Division, ConstantTypes
  <2>4. audio_clock.value \in Values /\ heard \in Values
    BY <1>0 DEF ClockType
  <2>5. upto \in Int
    BY <2>3, <2>4, ConstantTypes DEF Values
  <2> HIDE DEF len1, upto
  <2>6. [of |-> audio_clock.value.of, at |-> upto] \in Values
    BY <2>4, <2>5 DEF Values
  <2>7. heard' = IF sounds THEN [of |-> audio_clock.value.of, at |-> upto] ELSE heard
    BY <1>2, Zenon DEF CopyBuffer, len1, upto
  <2>8. heard' \in Values
    BY <2>4, <2>6, <2>7, Zenon
  <2>9. UNCHANGED <<audio_clock, audclk, get>>
    BY <1>2 DEF CopyBuffer
  <2> QED
    BY <1>0, <2>8, <2>9 DEF ClockType
<1>3. CASE SetPts \/ SetDrift \/ SetSerial
  <2>1. PlayedUpTo \in Values
    <3>1. size \in Nat /\ index \in 0..size
      BY <1>0 DEF BufferType
    <3>2. 2 * HwBuf + (size - index) \in Int
      BY <3>1, ConstantTypes
    <3> QED
      BY <1>0, <3>2 DEF ClockType, PlayedUpTo, Values
  <2>2. audio_clock.value.of \in 0..MaxSerial
    BY <1>0 DEF ClockType, Values
  <2>3. audclk' \in [pts : Values, drift : Values, serial : 0..MaxSerial]
    BY <1>0, <1>3, <2>1, <2>2 DEF ClockType, SetPts, SetDrift, SetSerial
  <2> QED
    BY <1>0, <1>3, <2>3 DEF ClockType, SetPts, SetDrift, SetSerial, played
<1>4. CASE GetQueueSerial \/ GetSerial \/ GetValue
  <2>1. NoValue \in Values /\ serial \in 0..MaxSerial
    BY <1>0, ConstantTypes DEF QueueType, NoValue, Values, Serials
  <2>2. get' \in [at : {"start", "compare", "read"}, compared : 0..MaxSerial, value : Values]
    BY <1>0, <1>4, <2>1 DEF ClockType, GetQueueSerial, GetSerial, GetValue
  <2> QED
    BY <1>0, <1>4, <2>2 DEF ClockType, GetQueueSerial, GetSerial, GetValue, played
<1>5. CASE UNCHANGED <<audio_clock, audclk, get, heard>>
  BY <1>0, <1>5 DEF ClockType
<1>6. \/ TakeFrame \/ CopyBuffer \/ SetPts \/ SetDrift \/ SetSerial
      \/ GetQueueSerial \/ GetSerial \/ GetValue
      \/ UNCHANGED <<audio_clock, audclk, get, heard>>
  BY DEF Next, Callback, vars, played, CallbackBegin, FillBuffer, WaitFrame, SkipStale,
         TimePasses, QueueFrame, DecoderFlush, Seek, TogglePause
<1> QED
  BY <1>1, <1>2, <1>3, <1>4, <1>5, <1>6

LEMMA CountTypeInv == TypeOK /\ [Next]_vars => CountType'
<1> SUFFICES ASSUME TypeOK, [Next]_vars PROVE CountType'
  OBVIOUS
<1>0. CountType
  BY TypeParts
<1>1. CASE TakeFrame
  <2>1. avg' \in 0..AvgNb
    BY <1>0, <1>1, ConstantTypes DEF CountType, TakeFrame, synchronize_audio
  <2>2. taken' = [taken EXCEPT ![serial] = @ + 1] /\ begun' = begun + 1 /\ toggles' = toggles
    BY <1>1 DEF TakeFrame
  <2>3. taken \in [Serials -> Nat] /\ begun \in Nat /\ toggles \in 0..MaxToggles
    BY <1>0 DEF CountType
  <2>6. serial \in Serials
    BY DEF TypeOK
  <2>4. taken' \in [Serials -> Nat]
    BY <2>2, <2>3, <2>6
  <2>5. begun' \in Nat /\ toggles' \in 0..MaxToggles
    BY <2>2, <2>3
  <2> QED
    BY <2>1, <2>4, <2>5 DEF CountType
<1>2. CASE TogglePause
  BY <1>0, <1>2, ConstantTypes DEF CountType, TogglePause
<1>3. CASE UNCHANGED <<avg, taken, begun, toggles>>
  BY <1>0, <1>3 DEF CountType
<1>4. TakeFrame \/ TogglePause \/ UNCHANGED <<avg, taken, begun, toggles>>
  BY DEF Next, Callback, vars, played, CallbackBegin, FillBuffer, WaitFrame, SkipStale,
         CopyBuffer, SetPts, SetDrift, SetSerial, GetQueueSerial, GetSerial, GetValue,
         TimePasses, QueueFrame, DecoderFlush, Seek
<1> QED
  BY <1>1, <1>2, <1>3, <1>4

LEMMA FlagTypeInv == TypeOK /\ [Next]_vars => FlagType'
<1> SUFFICES ASSUME TypeOK, [Next]_vars PROVE FlagType'
  OBVIOUS
<1>0. FlagType
  BY TypeParts
<1>1. paused' = paused \/ paused' \in BOOLEAN
  BY DEF Next, Callback, vars, CallbackBegin, FillBuffer, WaitFrame, SkipStale, TakeFrame,
         CopyBuffer, SetPts, SetDrift, SetSerial, GetQueueSerial, GetSerial, GetValue,
         TimePasses, QueueFrame, DecoderFlush, Seek, TogglePause
<1>2. expired' = expired \/ expired' \in BOOLEAN
  BY DEF Next, Callback, vars, CallbackBegin, FillBuffer, WaitFrame, SkipStale, TakeFrame,
         CopyBuffer, SetPts, SetDrift, SetSerial, GetQueueSerial, GetSerial, GetValue,
         TimePasses, QueueFrame, DecoderFlush, Seek, TogglePause
<1>3. sounds' = sounds \/ sounds' \in BOOLEAN
  BY DEF Next, Callback, vars, buffer, CallbackBegin, FillBuffer, GiveSilence, WaitFrame,
         SkipStale, TakeFrame, CopyBuffer, SetPts, SetDrift, SetSerial, GetQueueSerial,
         GetSerial, GetValue, TimePasses, QueueFrame, DecoderFlush, Seek, TogglePause
<1> QED
  BY <1>0, <1>1, <1>2, <1>3 DEF FlagType

LEMMA NextType == TypeOK /\ [Next]_vars => TypeOK'
<1> SUFFICES ASSUME TypeOK, [Next]_vars PROVE TypeOK'
  OBVIOUS
<1>1. QueueType' /\ BufferType' /\ ClockType' /\ CountType' /\ FlagType'
  BY QueueTypeInv, BufferTypeInv, ClockTypeInv, CountTypeInv, FlagTypeInv
<1> QED
  BY <1>1 DEF TypeOK, QueueType, BufferType, ClockType, CountType, FlagType

-----------------------------------------------------------------------------
(* The invariant holds                                                     *)

\* What TypeOK says of the serials in the clocks.
LEMMA SerialTypes ==
    ASSUME TypeOK
    PROVE  /\ serial \in Nat /\ serial > 0
           /\ audio_clock.value.of \in Nat
           /\ audclk.pts.of \in Nat /\ audclk.drift.of \in Nat /\ audclk.serial \in Nat
           /\ get.compared \in Nat
<1>1. serial \in Serials /\ ClockType
  BY DEF TypeOK, ClockType
<1>2. /\ audio_clock.value \in Values /\ audclk.pts \in Values /\ audclk.drift \in Values
      /\ audclk.serial \in 0..MaxSerial /\ get.compared \in 0..MaxSerial
  BY <1>1 DEF ClockType
<1>3. /\ audio_clock.value.of \in 0..MaxSerial
      /\ audclk.pts.of \in 0..MaxSerial /\ audclk.drift.of \in 0..MaxSerial
  BY <1>2 DEF Values
<1>4. 0..MaxSerial \subseteq Nat
  BY ConstantTypes
<1> QED
  BY <1>1, <1>2, <1>3, <1>4, ConstantTypes DEF Serials

LEMMA InitInv == Init => IInv
<1> SUFFICES ASSUME Init PROVE IInv
  OBVIOUS
<1>1. TypeOK
  BY InitType
<1>2. ClockInv /\ ReadNotOlder
  BY DEF Init, ClockInv, ClockOrder, ClockStored, GetInv, ReadNotOlder, NoValue
<1>3. PauseInv
  BY DEF Init, PauseInv
<1>4. AvgInv
  BY ConstantTypes DEF Init, AvgInv, Serials, NoValue
<1> QED
  BY <1>1, <1>2, <1>3, <1>4 DEF IInv

LEMMA ClockStep == IInv /\ [Next]_vars => ClockInv' /\ ReadNotOlder'
<1> SUFFICES ASSUME IInv, [Next]_vars PROVE ClockInv' /\ ReadNotOlder'
  OBVIOUS
<1>0. /\ ClockOrder /\ ClockStored /\ GetInv /\ ReadNotOlder /\ TypeOK
      /\ serial \in Nat /\ audio_clock.value.of \in Nat
      /\ audclk.pts.of \in Nat /\ audclk.drift.of \in Nat /\ audclk.serial \in Nat
      /\ get.compared \in Nat
  BY SerialTypes DEF IInv, ClockInv
<1>1. CASE TakeFrame
  <2>1. /\ audio_clock'.value.of = serial /\ callback' = "copy"
        /\ UNCHANGED <<serial, audclk, get>>
    BY <1>1 DEF TakeFrame
  <2>5. ClockOrder'
    BY <1>0, <2>1 DEF ClockOrder
  <2>6. ClockStored'
    BY <1>0, <2>1 DEF ClockStored
  <2>7. GetInv' /\ ReadNotOlder'
    BY <1>0, <2>1 DEF GetInv, ReadNotOlder
  <2> QED
    BY <2>5, <2>6, <2>7 DEF ClockInv
<1>2. CASE SetPts
  <2>1. PlayedUpTo.of = audio_clock.value.of
    BY <1>0 DEF PlayedUpTo, TypeOK, Values
  <2>2. /\ audclk'.pts.of = audio_clock.value.of
        /\ audclk'.drift = audclk.drift /\ audclk'.serial = audclk.serial
        /\ callback' = "set drift" /\ UNCHANGED <<serial, audio_clock, get>>
    BY <1>0, <1>2, <2>1 DEF SetPts, TypeOK, file
  <2>3. /\ audclk.serial <= audclk.pts.of /\ audclk.serial <= audclk.drift.of
        /\ audclk.pts.of <= audio_clock.value.of /\ audclk.drift.of <= audio_clock.value.of
        /\ audio_clock.value.of <= serial
    BY <1>0 DEF ClockOrder
  <2>4. audclk.serial <= audio_clock.value.of /\ audio_clock.value.of <= audio_clock.value.of
    BY <1>0, <2>3
  <2>5. ClockOrder'
    BY <2>2, <2>3, <2>4 DEF ClockOrder
  <2>6. ClockStored'
    BY <1>0, <2>2 DEF ClockStored
  <2>7. GetInv' /\ ReadNotOlder'
    BY <1>0, <2>2 DEF GetInv, ReadNotOlder
  <2> QED
    BY <2>5, <2>6, <2>7 DEF ClockInv
<1>3. CASE SetDrift
  <2>1. PlayedUpTo.of = audio_clock.value.of
    BY <1>0 DEF PlayedUpTo, TypeOK, Values
  <2>2. /\ audclk'.drift.of = audio_clock.value.of
        /\ audclk'.pts = audclk.pts /\ audclk'.serial = audclk.serial
        /\ callback = "set drift"
        /\ callback' = "set serial" /\ UNCHANGED <<serial, audio_clock, get>>
    BY <1>0, <1>3, <2>1 DEF SetDrift, TypeOK, file
  <2>3. /\ audclk.serial <= audclk.pts.of /\ audclk.serial <= audclk.drift.of
        /\ audclk.pts.of <= audio_clock.value.of /\ audclk.drift.of <= audio_clock.value.of
        /\ audio_clock.value.of <= serial
    BY <1>0 DEF ClockOrder
  <2>4. audclk.serial <= audio_clock.value.of /\ audio_clock.value.of <= audio_clock.value.of
    BY <1>0, <2>3
  <2>5. ClockOrder'
    BY <2>2, <2>3, <2>4 DEF ClockOrder
  <2>6. ClockStored'
    BY <1>0, <2>2 DEF ClockStored
  <2>7. GetInv' /\ ReadNotOlder'
    BY <1>0, <2>2 DEF GetInv, ReadNotOlder
  <2> QED
    BY <2>5, <2>6, <2>7 DEF ClockInv
<1>4. CASE SetSerial
  <2>1. /\ audclk'.serial = audio_clock.value.of
        /\ audclk'.pts = audclk.pts /\ audclk'.drift = audclk.drift
        /\ callback = "set serial"
        /\ callback' = "idle" /\ UNCHANGED <<serial, audio_clock, get>>
    BY <1>0, <1>4 DEF SetSerial, TypeOK, file
  <2>2. audclk.pts.of = audio_clock.value.of /\ audclk.drift.of = audio_clock.value.of
    BY <1>0, <2>1 DEF ClockStored
  <2>8. audclk.serial <= audclk.pts.of /\ audio_clock.value.of <= serial
    BY <1>0 DEF ClockOrder
  <2>3. audclk.serial <= audclk'.serial
    BY <2>1, <2>2, <2>8
  <2>4. get.at = "read" => audclk'.serial >= get.compared
    <3> SUFFICES ASSUME get.at = "read" PROVE audclk'.serial >= get.compared
      OBVIOUS
    <3>1. audclk.serial >= get.compared
      BY <1>0 DEF GetInv
    <3>2. audclk'.serial \in Nat /\ audclk.serial \in Nat /\ get.compared \in Nat
      BY <1>0, <2>1
    <3> QED
      BY <2>3, <3>1, <3>2
  <2>9. audio_clock.value.of <= audio_clock.value.of
    BY <1>0
  <2>5. ClockOrder'
    BY <2>1, <2>2, <2>8, <2>9 DEF ClockOrder
  <2>6. ClockStored'
    BY <1>0, <2>1, <2>2 DEF ClockStored
  <2>7. GetInv' /\ ReadNotOlder'
    BY <1>0, <2>1, <2>4 DEF GetInv, ReadNotOlder
  <2> QED
    BY <2>5, <2>6, <2>7 DEF ClockInv
<1>5. CASE GetQueueSerial
  <2>1. /\ get'.at = "compare" /\ get'.value.of = 0
        /\ UNCHANGED <<serial, audclk, audio_clock, callback>>
    BY <1>5 DEF GetQueueSerial, NoValue, file
  <2>5. ClockOrder'
    BY <1>0, <2>1 DEF ClockOrder
  <2>6. ClockStored'
    BY <1>0, <2>1 DEF ClockStored
  <2>7. GetInv' /\ ReadNotOlder'
    BY <1>0, <2>1 DEF GetInv, ReadNotOlder
  <2> QED
    BY <2>5, <2>6, <2>7 DEF ClockInv
<1>6. CASE GetSerial
  <2>1. /\ get'.at = "read" => audclk.serial = get.compared
        /\ get'.compared = get.compared /\ get'.value = get.value
        /\ get.at = "compare" /\ UNCHANGED <<serial, audclk, audio_clock, callback>>
    BY <1>0, <1>6 DEF GetSerial, TypeOK, file
  <2>2. get'.value.of = 0
    BY <1>0, <2>1 DEF GetInv
  <2>5. ClockOrder'
    BY <1>0, <2>1 DEF ClockOrder
  <2>6. ClockStored'
    BY <1>0, <2>1 DEF ClockStored
  <2>3. get'.at = "read" => audclk'.serial >= get'.compared
    <3> SUFFICES ASSUME get'.at = "read" PROVE audclk'.serial >= get'.compared
      OBVIOUS
    <3>1. audclk'.serial = get.compared /\ get'.compared = get.compared
      BY <2>1
    <3> QED
      BY <1>0, <3>1
  <2>7. GetInv' /\ ReadNotOlder'
    BY <2>2, <2>3 DEF GetInv, ReadNotOlder
  <2> QED
    BY <2>5, <2>6, <2>7 DEF ClockInv
<1>7. CASE GetValue
  <2>1. /\ get.at = "read" /\ get'.at = "start" /\ get'.compared = get.compared
        /\ get'.value = audclk.pts \/ get'.value = audclk.drift
        /\ UNCHANGED <<serial, audclk, audio_clock, callback>>
    BY <1>7 DEF GetValue, file
  <2>2. audclk.pts.of >= get.compared /\ audclk.drift.of >= get.compared
    BY <1>0, <2>1 DEF ClockOrder, GetInv
  <2>5. ClockOrder'
    BY <1>0, <2>1 DEF ClockOrder
  <2>6. ClockStored'
    BY <1>0, <2>1 DEF ClockStored
  <2>7. GetInv' /\ ReadNotOlder'
    BY <1>0, <2>1, <2>2 DEF GetInv, ReadNotOlder
  <2> QED
    BY <2>5, <2>6, <2>7 DEF ClockInv
<1>8. CASE Seek
  <2>1. serial' = serial + 1 /\ UNCHANGED <<audclk, audio_clock, callback, get>>
    BY <1>8 DEF Seek
  <2>5. ClockOrder'
    BY <1>0, <2>1 DEF ClockOrder
  <2>6. ClockStored'
    BY <1>0, <2>1 DEF ClockStored
  <2>7. GetInv' /\ ReadNotOlder'
    BY <1>0, <2>1 DEF GetInv, ReadNotOlder
  <2> QED
    BY <2>5, <2>6, <2>7 DEF ClockInv
<1>9. CASE /\ UNCHANGED <<serial, audclk, audio_clock, get>>
           /\ callback' = callback \/ callback' \notin {"set drift", "set serial"}
  <2>1. ClockOrder' /\ GetInv' /\ ReadNotOlder'
    BY <1>0, <1>9 DEF ClockOrder, GetInv, ReadNotOlder
  <2>2. ClockStored'
    BY <1>0, <1>9 DEF ClockStored
  <2> QED
    BY <2>1, <2>2 DEF ClockInv
<1>10. \/ TakeFrame \/ SetPts \/ SetDrift \/ SetSerial
       \/ GetQueueSerial \/ GetSerial \/ GetValue \/ Seek
       \/ /\ UNCHANGED <<serial, audclk, audio_clock, get>>
          /\ callback' = callback \/ callback' \notin {"set drift", "set serial"}
  <2>1. CASE CopyBuffer
    <3>1. callback' \in {"copy", "set pts", "idle"}
      BY <2>1, Zenon DEF CopyBuffer
    <3> QED
      BY <2>1, <3>1 DEF CopyBuffer, file
  <2>2. CASE CallbackBegin \/ FillBuffer \/ WaitFrame \/ SkipStale
    BY <2>2 DEF CallbackBegin, FillBuffer, WaitFrame, GiveSilence, SkipStale, file
  <2>3. CASE TimePasses \/ QueueFrame \/ DecoderFlush \/ TogglePause \/ UNCHANGED vars
    BY <2>3 DEF TimePasses, QueueFrame, DecoderFlush, TogglePause, vars, file
  <2> QED
    BY <2>1, <2>2, <2>3 DEF Next, Callback
<1> QED
  BY <1>1, <1>2, <1>3, <1>4, <1>5, <1>6, <1>7, <1>8, <1>9, <1>10

LEMMA PauseStep == IInv /\ [Next]_vars => PauseInv'
<1> SUFFICES ASSUME IInv, [Next]_vars PROVE PauseInv'
  OBVIOUS
<1>0. PauseInv /\ begun \in Nat
  BY DEF IInv, TypeOK
<1>1. CASE TakeFrame
  <2>1. callback = "wait" /\ begun' = begun + 1 /\ callback' = "copy" /\ paused' = paused
    BY <1>1 DEF TakeFrame
  <2>2. paused => begun = 0
    BY <1>0, <2>1, Zenon DEF PauseInv
  <2>3. begun = 0 => begun' <= 1
    BY <2>1
  <2>4. callback' # "wait"
    BY <2>1
  <2> QED
    BY <2>1, <2>2, <2>3, <2>4, Zenon DEF PauseInv
<1>2. CASE FillBuffer
  <2>1. UNCHANGED <<paused, begun>>
    BY <1>2 DEF FillBuffer, played
  <2>2. paused => callback' = "copy"
    BY <1>2, Zenon DEF FillBuffer, GiveSilence
  <2>3. "copy" # "wait"
    OBVIOUS
  <2> QED
    BY <1>0, <2>1, <2>2, <2>3, Zenon DEF PauseInv
<1>3. CASE TogglePause
  <2>1. begun' = 0
    BY <1>3 DEF TogglePause
  <2> QED
    BY <2>1 DEF PauseInv
<1>4. CASE /\ UNCHANGED <<paused, begun>>
           /\ callback' = callback \/ callback' # "wait"
  BY <1>0, <1>4 DEF PauseInv
<1>5. \/ TakeFrame \/ FillBuffer \/ TogglePause
      \/ /\ UNCHANGED <<paused, begun>>
         /\ callback' = callback \/ callback' # "wait"
  <2>1. CASE CopyBuffer
    <3>1. callback' \in {"copy", "set pts", "idle"}
      BY <2>1, Zenon DEF CopyBuffer
    <3> QED
      BY <2>1, <3>1 DEF CopyBuffer
  <2>2. CASE CallbackBegin \/ WaitFrame \/ SkipStale \/ SetPts \/ SetDrift \/ SetSerial
    BY <2>2 DEF CallbackBegin, WaitFrame, GiveSilence, SkipStale, SetPts, SetDrift, SetSerial,
                played
  <2>3. CASE GetQueueSerial \/ GetSerial \/ GetValue \/ TimePasses \/ QueueFrame
             \/ DecoderFlush \/ Seek \/ UNCHANGED vars
    BY <2>3 DEF GetQueueSerial, GetSerial, GetValue, TimePasses, QueueFrame, DecoderFlush,
                Seek, vars, played
  <2> QED
    BY <2>1, <2>2, <2>3 DEF Next, Callback
<1> QED
  BY <1>1, <1>2, <1>3, <1>4, <1>5

\* synchronize_audio measures only when a frame of the serial has been delivered already.
LEMMA MeasuredTaken ==
    ASSUME IInv, Measurable
    PROVE  taken[serial] > 0
<1>1. audclk.serial = serial
  BY DEF Measurable
<1>2. /\ serial \in Nat /\ serial > 0 /\ audio_clock.value.of \in Nat
      /\ audclk.pts.of \in Nat /\ audclk.serial \in Nat
  BY SerialTypes DEF IInv
<1>3. /\ audclk.serial <= audclk.pts.of /\ audclk.pts.of <= audio_clock.value.of
      /\ audio_clock.value.of <= serial
  BY DEF IInv, ClockInv, ClockOrder
<1>4. audio_clock.value.of = serial /\ audio_clock.value.of # 0
  BY <1>1, <1>2, <1>3
<1> QED
  BY <1>4 DEF IInv, AvgInv

LEMMA AvgStep == IInv /\ [Next]_vars => AvgInv'
<1> SUFFICES ASSUME IInv, [Next]_vars PROVE AvgInv'
  OBVIOUS
<1>a. TypeOK /\ AvgInv
  BY DEF IInv
<1>b. avg \in 0..AvgNb /\ serial \in Serials /\ taken \in [Serials -> Nat]
  BY <1>a DEF TypeOK
<1>c. serial \in Nat /\ serial > 0
  BY <1>a, SerialTypes
<1>0. /\ AvgInv /\ serial \in Serials /\ taken \in [Serials -> Nat]
      /\ avg \in Nat /\ serial \in Nat /\ serial > 0
  BY <1>a, <1>b, <1>c, ConstantTypes
<1>9. /\ AudioMaster => avg = 0
      /\ \A s \in Serials : s > serial => taken[s] = 0
      /\ audio_clock.value.of # 0 => taken[audio_clock.value.of] > 0
      /\ taken[serial] > 0 => taken[serial] > avg
      /\ sounds /\ size # Nb => audio_clock.value.of # 0 /\ taken[audio_clock.value.of] > AvgNb + 1
  BY <1>a, Zenon DEF AvgInv
<1>1. CASE TakeFrame
  <2>1. /\ audio_clock'.value.of = serial /\ serial' = serial
        /\ taken' = [taken EXCEPT ![serial] = @ + 1]
    BY <1>1 DEF TakeFrame
  <2>2. /\ taken'[serial] = taken[serial] + 1 /\ taken[serial] \in Nat
        /\ \A s \in Serials : s # serial => taken'[s] = taken[s]
    BY <1>0, <2>1
  <2>3. AudioMaster => avg' = 0
    BY <1>1, <1>9 DEF TakeFrame, synchronize_audio
  <2>4. \A s \in Serials : s > serial => taken'[s] = 0
    BY <1>0, <1>9, <2>2 DEF Serials
  <2>5. taken'[serial] > 0
    BY <2>2
  <2>6. taken'[serial] > avg'
    <3>1. CASE AudioMaster
      BY <2>2, <2>3, <3>1
    <3>2. CASE avg' = 0
      BY <2>2, <3>2
    <3>3. CASE Measurable /\ avg' \in {avg, avg + 1}
      BY <1>0, <1>9, <2>2, <3>3, MeasuredTaken
    <3> QED
      BY <1>1, <3>1, <3>2, <3>3 DEF TakeFrame, synchronize_audio
  <2>7. size' # Nb => taken'[serial] > AvgNb + 1
    <3>1. size' # Nb => Measurable /\ avg = AvgNb
      BY <1>1 DEF TakeFrame, synchronize_audio
    <3>2. Measurable => taken[serial] > avg
      BY <1>9, MeasuredTaken
    <3> QED
      BY <1>0, <2>2, <3>1, <3>2, ConstantTypes
  <2>8. serial # 0
    BY <1>0
  <2> QED
    BY <2>1, <2>3, <2>4, <2>5, <2>6, <2>7, <2>8 DEF AvgInv
<1>2. CASE Seek
  <2>1. /\ serial' = serial + 1 /\ serial < MaxSerial
        /\ UNCHANGED <<taken, avg, audio_clock, sounds, size>>
    BY <1>2 DEF Seek, played, buffer
  <2>2. serial' \in Serials /\ serial' > serial
    BY <1>0, <2>1, ConstantTypes DEF Serials
  <2>3. taken[serial'] = 0
    BY <1>9, <2>2
  <2>4. \A s \in Serials : s > serial' => taken[s] = 0
    BY <1>0, <1>9, <2>1 DEF Serials
  <2>5. /\ taken' = taken /\ avg' = avg /\ audio_clock' = audio_clock
        /\ sounds' = sounds /\ size' = size
    BY <2>1
  <2>6. ~(taken'[serial'] > 0)
    BY <2>3, <2>5
  <2>7. \A s \in Serials : s > serial' => taken'[s] = 0
    BY <2>4, <2>5
  <2> QED
    BY <1>9, <2>5, <2>6, <2>7, Zenon DEF AvgInv
<1>3. CASE /\ UNCHANGED <<serial, taken, avg, audio_clock>>
           /\ UNCHANGED <<sounds, size>> \/ sounds' = FALSE
  BY <1>9, <1>3 DEF AvgInv
<1>4. \/ TakeFrame \/ Seek
      \/ /\ UNCHANGED <<serial, taken, avg, audio_clock>>
         /\ UNCHANGED <<sounds, size>> \/ sounds' = FALSE
  <2>1. CASE FillBuffer
    BY <2>1 DEF FillBuffer, GiveSilence, file, played, buffer
  <2>2. CASE CallbackBegin \/ WaitFrame \/ SkipStale \/ SetPts \/ SetDrift \/ SetSerial
    BY <2>2 DEF CallbackBegin, WaitFrame, GiveSilence, SkipStale, SetPts, SetDrift, SetSerial,
                played, file, buffer
  <2>3. CASE GetQueueSerial \/ GetSerial \/ GetValue \/ TimePasses \/ QueueFrame
             \/ DecoderFlush \/ TogglePause \/ UNCHANGED vars
    BY <2>3 DEF GetQueueSerial, GetSerial, GetValue, TimePasses, QueueFrame, DecoderFlush,
                TogglePause, vars, played, file, buffer
  <2>4. CASE CopyBuffer
    BY <2>4 DEF CopyBuffer, file
  <2> QED
    BY <2>1, <2>2, <2>3, <2>4 DEF Next, Callback
<1> QED
  BY <1>1, <1>2, <1>3, <1>4

LEMMA Invariant == Spec => []IInv
<1>1. IInv /\ [Next]_vars => IInv'
  <2> SUFFICES ASSUME IInv, [Next]_vars PROVE IInv'
    OBVIOUS
  <2>1. TypeOK'
    BY NextType DEF IInv
  <2>2. ClockInv' /\ ReadNotOlder' /\ PauseInv' /\ AvgInv'
    BY ClockStep, PauseStep, AvgStep
  <2> QED
    BY <2>1, <2>2 DEF IInv
<1> QED
  BY InitInv, <1>1, PTL DEF Spec

-----------------------------------------------------------------------------
(* The sound and its clock                                                 *)

\* Where audio_buf_index is in the frame, which the stretching has made size samples long.
Position == (index * Nb) \div size

\* The sizes of a frame and of a silence, and when something of it was delivered.
SizeInv ==
    /\ sounds => size \in MinNb..MaxNb
    /\ sounds /\ index = 0 => callback = "copy"
    /\ ~sounds => size \in {0, Silence}
    /\ callback = "wait" => index = size

\* The last sound delivered is the last of audio_buf, or what came before the silence.
HeardInv ==
    /\ sounds /\ index > 0 => heard = [of |-> audio_clock.value.of,
                                       at |-> audio_clock.value.at - Nb + Position]
    /\ ~sounds => heard = audio_clock.value

\* What set_clock_at stores stays true until the next callback.
SetInv ==
    /\ callback \in {"set drift", "set serial"} => audclk.pts = PlayedUpTo
    /\ callback = "idle" /\ audio_clock.known =>
        audclk.pts = PlayedUpTo /\ audclk.serial = audio_clock.value.of

SoundInv == SizeInv /\ HeardInv /\ SetInv

-----------------------------------------------------------------------------
(* Where a stretched frame is                                              *)

LEMMA DivBounds ==
    ASSUME NEW a \in Nat, NEW b \in Nat, b > 0
    PROVE  /\ a \div b \in Nat
           /\ (a \div b) * b <= a /\ a < (a \div b + 1) * b
OBVIOUS

LEMMA Cancel ==
    ASSUME NEW a \in Int, NEW b \in Int, NEW c \in Nat, c > 0, a * c < b * c
    PROVE  a < b
OBVIOUS

LEMMA Monotone ==
    ASSUME NEW a \in Nat, NEW b \in Nat, NEW c \in Nat, b <= c
    PROVE  a * b <= a * c
<1>1. c - b \in Nat
  OBVIOUS
<1>2. a * (c - b) \in Nat
  BY <1>1, Product
<1>3. a * c - a * b = a * (c - b)
  BY <1>1
<1>4. a * b \in Int /\ a * c \in Int
  OBVIOUS
<1> QED
  BY <1>2, <1>3, <1>4

\* A sample in a frame of n that became s samples, for bounds m and k of s and n: its
\* position differs from its number by no more than the stretching.
LEMMA PositionLow ==
    ASSUME NEW n \in Nat, NEW m \in Nat, NEW s \in Nat, NEW i \in Nat,
           s > 0, i <= s, m <= s, m <= n
    PROVE  (i * n) \div s >= i - (s - m)
<1> DEFINE q == (i * n) \div s
<1>1. i * n \in Nat /\ i * m \in Nat
  BY Product
<1>2. q \in Nat /\ i * n < (q + 1) * s
  BY <1>1, DivBounds
<1>3. i * m <= i * n
  BY Monotone
<1>4. (s - m) * (s - i) \in Nat
  <2>1. s - m \in Nat /\ s - i \in Nat
    OBVIOUS
  <2> QED
    BY <2>1, Product
<1>5. i * m - (i - (s - m)) * s = (s - m) * (s - i)
  OBVIOUS
<1>6. (i - (s - m)) * s \in Int /\ (q + 1) * s \in Int
  BY <1>2
<1> HIDE DEF q
<1>7. (i - (s - m)) * s < (q + 1) * s
  BY <1>1, <1>2, <1>3, <1>4, <1>5, <1>6
<1>8. i - (s - m) < q + 1
  BY <1>2, <1>7, Cancel
<1>9. q >= i - (s - m)
  BY <1>2, <1>8
<1> QED
  BY <1>9 DEF q

LEMMA PositionHigh ==
    ASSUME NEW n \in Nat, NEW k \in Nat, NEW s \in Nat, NEW i \in Nat,
           s > 0, i <= s, s <= k, n <= k
    PROVE  (i * n) \div s <= i + (k - s)
<1> DEFINE q == (i * n) \div s
<1>1. i * n \in Nat /\ i * k \in Nat /\ i * s \in Nat
  BY Product
<1>2. q \in Nat /\ q * s <= i * n
  BY <1>1, DivBounds
<1>3. i * n <= i * k
  BY Monotone
<1>4. (k - s) * i <= (k - s) * s /\ k - s \in Nat
  <2>1. k - s \in Nat
    OBVIOUS
  <2> QED
    BY <2>1, Monotone
<1>5. i * k = i * s + (k - s) * i
  OBVIOUS
<1>6. (i + (k - s) + 1) * s = i * s + (k - s) * s + s
  OBVIOUS
<1>7. /\ q * s \in Int /\ (k - s) * i \in Int /\ (k - s) * s \in Int
      /\ (i + (k - s) + 1) * s \in Int
  BY <1>2
<1> HIDE DEF q
<1>8. q * s < (i + (k - s) + 1) * s
  BY <1>1, <1>2, <1>3, <1>4, <1>5, <1>6, <1>7
<1>9. q < i + (k - s) + 1
  BY <1>2, <1>8, Cancel
<1>10. q <= i + (k - s)
  BY <1>2, <1>9
<1> QED
  BY <1>10 DEF q

LEMMA StretchBounds == MinNb <= Nb /\ Nb <= MaxNb /\ (Nb > 1 => MinNb > 0)
BY ConstantTypes DEF MinNb, MaxNb

LEMMA InitSound == Init => SoundInv
BY DEF Init, SoundInv, SizeInv, HeardInv, SetInv

\* What is counted has its type.
LEMMA AmountTypes ==
    ASSUME TypeOK
    PROVE  /\ size \in Nat /\ index \in Nat /\ index <= size /\ len \in Nat
           /\ callback = "copy" => len > 0
           /\ audio_clock.value \in Values /\ audio_clock.value.at \in Int
           /\ audio_clock.value = [of |-> audio_clock.value.of, at |-> audio_clock.value.at]
<1>1. BufferType /\ ClockType
  BY TypeParts
<1>2. size \in Nat /\ index \in 0..size /\ len \in 0..HwBuf
  BY <1>1 DEF BufferType
<1>3. index \in Nat /\ index <= size /\ len \in Nat
  BY <1>2, ConstantTypes
<1>4. callback = "copy" => len > 0
  BY <1>1 DEF BufferType
<1>5. audio_clock.value \in Values
  BY <1>1 DEF ClockType
<1>6. /\ audio_clock.value.at \in Int
      /\ audio_clock.value = [of |-> audio_clock.value.of, at |-> audio_clock.value.at]
  BY <1>5 DEF Values
<1> QED
  BY <1>2, <1>3, <1>4, <1>5, <1>6

\* When audio_buf is used up, all of its frame has been delivered.
LEMMA UsedUp ==
    ASSUME Nb > 1, TypeOK, SizeInv, HeardInv, index >= size
    PROVE  heard = audio_clock.value
<1>1. CASE ~sounds
  BY <1>1 DEF HeardInv
<1>2. CASE sounds
  <2>1. size \in Nat /\ MinNb \in Nat /\ size \in MinNb..MaxNb
    BY <1>2, AmountTypes, StretchType DEF SizeInv
  <2>2. size > 0
    BY <2>1, StretchBounds, StretchType
  <2>3. index = size /\ index > 0
    BY <2>2, AmountTypes
  <2>4. (size * Nb) \div size = Nb
    BY <2>1, <2>2, ConstantTypes
  <2>5. Position = Nb
    BY <2>3, <2>4 DEF Position
  <2>6. heard = [of |-> audio_clock.value.of, at |-> audio_clock.value.at - Nb + Position]
    BY <1>2, <2>3 DEF HeardInv
  <2>7. audio_clock.value.at - Nb + Nb = audio_clock.value.at
    BY AmountTypes, ConstantTypes
  <2> QED
    BY <2>5, <2>6, <2>7, AmountTypes
<1> QED
  BY <1>1, <1>2

LEMMA SoundStep == Nb > 1 /\ IInv /\ SoundInv /\ [Next]_vars => SoundInv'
<1> SUFFICES ASSUME Nb > 1, IInv, SoundInv, [Next]_vars PROVE SoundInv'
  OBVIOUS
<1>0. TypeOK /\ SizeInv /\ HeardInv /\ SetInv
  BY DEF IInv, SoundInv
<1>a. /\ size \in Nat /\ index \in Nat /\ index <= size /\ len \in Nat
      /\ callback = "copy" => len > 0
  BY <1>0, AmountTypes
<1>1. ASSUME GiveSilence, index >= size, UNCHANGED <<heard, audio_clock, audclk>>
      PROVE  SoundInv'
  <2>1. /\ sounds' = FALSE /\ size' = Silence /\ index' = 0 /\ callback' = "copy"
        /\ heard' = heard /\ audio_clock' = audio_clock
    BY <1>1 DEF GiveSilence
  <2>2. heard = audio_clock.value
    BY <1>0, <1>1, UsedUp
  <2>3. SizeInv'
    BY <2>1 DEF SizeInv
  <2>4. HeardInv'
    BY <2>1, <2>2 DEF HeardInv
  <2>5. SetInv'
    BY <2>1 DEF SetInv
  <2> QED
    BY <2>3, <2>4, <2>5 DEF SoundInv
<1>2. CASE FillBuffer
  <2>1. CASE paused
    BY <1>1, <1>2, <2>1 DEF FillBuffer, played
  <2>2. CASE ~paused
    <3>1. /\ callback = "copy" /\ callback' = "wait" /\ index >= size
          /\ sounds' = sounds /\ size' = size /\ index' = index
          /\ heard' = heard /\ audio_clock' = audio_clock
      BY <1>2, <2>2 DEF FillBuffer, played, buffer
    <3>2. index = size
      BY <1>a, <3>1
    <3>3. sounds => index # 0
      <4>1. sounds => size \in MinNb..MaxNb
        BY <1>0 DEF SizeInv
      <4> QED
        BY <1>a, <3>2, <4>1, StretchBounds, StretchType
    <3>4. SizeInv'
      BY <1>0, <3>1, <3>2, <3>3 DEF SizeInv
    <3>5. HeardInv'
      BY <1>0, <3>1 DEF HeardInv, Position
    <3>6. SetInv'
      BY <3>1 DEF SetInv
    <3> QED
      BY <3>4, <3>5, <3>6 DEF SoundInv
  <2> QED
    BY <2>1, <2>2
<1>3. CASE WaitFrame
  <2>1. callback = "wait" /\ GiveSilence /\ UNCHANGED <<heard, audio_clock, audclk>>
    BY <1>3 DEF WaitFrame, played
  <2>2. index >= size
    BY <1>0, <1>a, <2>1 DEF SizeInv
  <2> QED
    BY <1>1, <2>1, <2>2
<1>4. CASE TakeFrame
  <2>1. sounds' = TRUE /\ index' = 0 /\ callback' = "copy" /\ synchronize_audio
    BY <1>4 DEF TakeFrame
  <2>2. size' \in MinNb..MaxNb
    <3>1. Nb \in MinNb..MaxNb
      BY StretchBounds, StretchType, ConstantTypes
    <3> QED
      BY <2>1, <3>1 DEF synchronize_audio
  <2>3. SizeInv'
    BY <2>1, <2>2 DEF SizeInv, MinNb, MaxNb
  <2>4. HeardInv' /\ SetInv'
    BY <2>1 DEF HeardInv, SetInv
  <2> QED
    BY <2>3, <2>4 DEF SoundInv
<1>5. CASE CopyBuffer
  <2> DEFINE len1 == Least(size - index, len)
  <2>0. callback = "copy" /\ index < size
    BY <1>5, Zenon DEF CopyBuffer
  <2>1. len1 \in Nat /\ len1 > 0
    BY <1>a, <2>0 DEF Least
  <2>2. /\ index' = index + len1
        /\ callback' = IF len1 < len THEN "copy"
                       ELSE IF audio_clock.known THEN "set pts" ELSE "idle"
        /\ heard' = IF sounds
                    THEN [of |-> audio_clock.value.of,
                          at |-> audio_clock.value.at - Nb + ((index + len1) * Nb) \div size]
                    ELSE heard
    BY <1>5 DEF CopyBuffer
  <2>3. sounds' = sounds /\ size' = size /\ audio_clock' = audio_clock
    BY <1>5 DEF CopyBuffer
  <2> HIDE DEF len1
  <2>4. callback' \in {"copy", "set pts"} \/ (callback' = "idle" /\ ~audio_clock.known)
    BY <2>2
  <2>5. index' \in Nat /\ index' > 0
    <3>1. index' = index + len1
      BY <2>2
    <3> QED
      BY <1>a, <2>1, <3>1
  <2>6. SizeInv'
    <3>1. callback' # "wait"
      BY <2>4
    <3>2. index' # 0
      BY <2>5
    <3> QED
      BY <1>0, <2>3, <3>1, <3>2 DEF SizeInv, MinNb, MaxNb
  <2>7. HeardInv'
    <3>1. sounds => heard' = [of |-> audio_clock.value.of,
                              at |-> audio_clock.value.at - Nb + (index' * Nb) \div size]
      BY <2>2
    <3>2. ~sounds => heard' = audio_clock.value
      BY <1>0, <2>2 DEF HeardInv
    <3> QED
      BY <2>3, <3>1, <3>2, Zenon DEF HeardInv, Position
  <2>8. SetInv'
    BY <2>3, <2>4 DEF SetInv
  <2> QED
    BY <2>6, <2>7, <2>8 DEF SoundInv
<1>6. CASE SetPts \/ SetDrift \/ SetSerial
  <2>1. UNCHANGED <<sounds, size, index, heard, audio_clock>>
    BY <1>6 DEF SetPts, SetDrift, SetSerial, buffer, played
  <2>2. callback # "copy" /\ callback' \notin {"copy", "wait"}
    BY <1>6 DEF SetPts, SetDrift, SetSerial
  <2>3. SizeInv'
    BY <1>0, <2>1, <2>2 DEF SizeInv, MinNb, MaxNb
  <2>4. HeardInv'
    BY <1>0, <2>1 DEF HeardInv, Position
  <2>5. PlayedUpTo' = PlayedUpTo
    BY <2>1 DEF PlayedUpTo
  <2>6. audclk \in [pts : Values, drift : Values, serial : 0..MaxSerial]
    BY <1>0 DEF TypeOK
  <2>7. SetInv'
    <3>1. CASE SetPts
      <4>1. audclk'.pts = PlayedUpTo /\ callback' = "set drift"
        BY <2>6, <3>1 DEF SetPts
      <4> QED
        BY <2>5, <4>1 DEF SetInv
    <3>2. CASE SetDrift
      <4>1. /\ audclk'.pts = audclk.pts /\ callback = "set drift"
            /\ callback' = "set serial"
        BY <2>6, <3>2 DEF SetDrift
      <4> QED
        BY <1>0, <2>5, <4>1 DEF SetInv
    <3>3. CASE SetSerial
      <4>1. /\ audclk'.pts = audclk.pts /\ audclk'.serial = audio_clock.value.of
            /\ callback = "set serial" /\ callback' = "idle"
        BY <2>6, <3>3 DEF SetSerial
      <4> QED
        BY <1>0, <2>1, <2>5, <4>1 DEF SetInv
    <3> QED
      BY <1>6, <3>1, <3>2, <3>3
  <2> QED
    BY <2>3, <2>4, <2>7 DEF SoundInv
<1>7. CASE /\ UNCHANGED <<sounds, size, index, heard, audio_clock, audclk>>
           /\ callback' = callback \/ (callback = "idle" /\ callback' = "copy")
  <2>1. SizeInv'
    BY <1>0, <1>7 DEF SizeInv, MinNb, MaxNb
  <2>2. HeardInv'
    BY <1>0, <1>7 DEF HeardInv, Position
  <2>3. SetInv'
    BY <1>0, <1>7 DEF SetInv, PlayedUpTo
  <2> QED
    BY <2>1, <2>2, <2>3 DEF SoundInv
<1>8. \/ FillBuffer \/ WaitFrame \/ TakeFrame \/ CopyBuffer
      \/ SetPts \/ SetDrift \/ SetSerial
      \/ /\ UNCHANGED <<sounds, size, index, heard, audio_clock, audclk>>
         /\ callback' = callback \/ (callback = "idle" /\ callback' = "copy")
  <2>1. CASE CallbackBegin \/ SkipStale \/ TimePasses \/ QueueFrame \/ DecoderFlush
    BY <2>1 DEF CallbackBegin, SkipStale, TimePasses, QueueFrame, DecoderFlush, buffer, played
  <2>2. CASE GetQueueSerial \/ GetSerial \/ GetValue \/ Seek \/ TogglePause \/ UNCHANGED vars
    BY <2>2 DEF GetQueueSerial, GetSerial, GetValue, Seek, TogglePause, vars, buffer, played
  <2> QED
    BY <2>1, <2>2 DEF Next, Callback
<1> QED
  BY <1>2, <1>3, <1>4, <1>5, <1>6, <1>7, <1>8

LEMMA SoundInvariant == ASSUME Nb > 1 PROVE Spec => []SoundInv
<1>1. Nb > 1
  OBVIOUS
<1>2. IInv /\ SoundInv /\ [Next]_vars => SoundInv'
  BY <1>1, SoundStep
<1> QED
  BY InitSound, <1>2, Invariant, PTL DEF Spec

\* The clock is within the stretching of one frame of the sound, less the device's buffers.
LEMMA ClockNear ==
    ASSUME Nb > 1, TypeOK, SoundInv, callback = "idle", audio_clock.known
    PROVE  /\ audclk.serial = heard.of
           /\ audclk.pts.of = heard.of
           /\ audclk.pts.at <= heard.at - 2 * HwBuf + (Nb - MinNb)
           /\ audclk.pts.at >= heard.at - 2 * HwBuf - Silence - (MaxNb - Nb)
<1>0. SizeInv /\ HeardInv /\ SetInv
  BY DEF SoundInv
<1>1. /\ size \in Nat /\ index \in Nat /\ index <= size
      /\ audio_clock.value \in Values /\ audio_clock.value.at \in Int
  BY AmountTypes
<1>2. /\ audclk.serial = audio_clock.value.of /\ audclk.pts = PlayedUpTo
  BY <1>0 DEF SetInv
<1>3. /\ PlayedUpTo.of = audio_clock.value.of
      /\ PlayedUpTo.at = audio_clock.value.at - (2 * HwBuf + (size - index))
  BY <1>1 DEF PlayedUpTo, Values
<1>4. MinNb \in Nat /\ MaxNb \in Nat /\ MinNb <= Nb /\ Nb <= MaxNb /\ MinNb > 0
  BY StretchType, StretchBounds
<1>5. CASE ~sounds
  <2>1. heard = audio_clock.value /\ size \in {0, Silence}
    BY <1>0, <1>5 DEF HeardInv, SizeInv
  <2>2. size - index >= 0 /\ size - index <= Silence
    BY <1>1, <2>1, ConstantTypes
  <2> QED
    BY <1>1, <1>2, <1>3, <1>4, <2>1, <2>2, ConstantTypes
<1>6. CASE sounds
  <2>1. index > 0
    BY <1>0, <1>1, <1>6 DEF SizeInv
  <2>2. size \in MinNb..MaxNb
    BY <1>0, <1>6 DEF SizeInv
  <2>3. MinNb <= size /\ size <= MaxNb /\ size > 0
    BY <1>1, <1>4, <2>2
  <2>4. heard = [of |-> audio_clock.value.of, at |-> audio_clock.value.at - Nb + Position]
    BY <1>0, <1>6, <2>1 DEF HeardInv
  <2>5. heard.of = audio_clock.value.of /\ heard.at = audio_clock.value.at - Nb + Position
    BY <2>4
  <2>6. Position >= index - (size - MinNb)
    BY <1>1, <1>4, <2>3, PositionLow, ConstantTypes DEF Position
  <2>7. Position <= index + (MaxNb - size)
    BY <1>1, <1>4, <2>3, PositionHigh, ConstantTypes DEF Position
  <2>8. Position \in Int
    BY <1>1, <2>3, Product, Division, ConstantTypes DEF Position
  <2> QED
    BY <1>1, <1>2, <1>3, <1>4, <2>5, <2>6, <2>7, <2>8, ConstantTypes
<1> QED
  BY <1>5, <1>6

-----------------------------------------------------------------------------
(* Theorems                                                                *)

\* All variables keep their types: audio_buf_index stays within audio_buf and len within
\* the device's buffer, whatever the sizes (sdl_audio_callback, audio_decode_frame).
THEOREM TypeCorrect == Spec => []TypeOK
<1>1. IInv => TypeOK
  BY DEF IInv
<1> QED
  BY Invariant, <1>1, PTL

\* Without a lock, a thread in get_clock gets no position from before the seek that its
\* comparison of serials was to exclude (set_clock_at, get_clock).
THEOREM ReadsNotOlder == Spec => []ReadNotOlder
<1>1. IInv => ReadNotOlder
  BY DEF IInv
<1> QED
  BY Invariant, <1>1, PTL

\* After a pause the callback begins at most the frame it was waiting for, for any number
\* of pauses (audio_decode_frame).
THEOREM PauseSilences == Spec => []PauseStopsSound
<1>1. IInv => PauseStopsSound
  BY DEF IInv, PauseInv, PauseStopsSound
<1> QED
  BY Invariant, <1>1, PTL

\* No frame is stretched before AUDIO_DIFF_AVG_NB frames of its serial were measured, for
\* any number of seeks (synchronize_audio).
THEOREM CorrectionAnew == Spec => []CorrectionRestarts
<1>1. IInv => CorrectionRestarts
  BY DEF IInv, AvgInv, CorrectionRestarts
<1> QED
  BY Invariant, <1>1, PTL

\* What the callback tells the other threads of the sound is true, for any sizes of frames,
\* buffers and silences and any stretching, pauses and seeks: the clock is behind the last
\* sound delivered by the device's two buffers, within a silence and 10 percent of a frame
\* (sdl_audio_callback, audio_decode_frame).  A frame of one sample could be stretched to
\* none, and would not be heard.
THEOREM ClockTrue == ASSUME Nb > 1 PROVE Spec => []ClockTellsSound
<1>1. Nb > 1
  OBVIOUS
<1>2. TypeOK /\ SoundInv => ClockTellsSound
  BY <1>1, ClockNear DEF ClockTellsSound
<1> QED
  BY TypeCorrect, SoundInvariant, <1>1, <1>2, PTL
=============================================================================
