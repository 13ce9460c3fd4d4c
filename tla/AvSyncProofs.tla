---------------------------- MODULE AvSyncProofs ----------------------------
(***************************************************************************)
(* Proofs about AvSync.tla, for all thresholds, durations and queue        *)
(* sizes: its types, that frame_timer is not ahead of the time while the   *)
(* picture on the screen has a time stamp, that the correction of a        *)
(* difference never overshoots, and that no picture is dropped unless      *)
(* something fell behind.                                                  *)
(***************************************************************************)
EXTENDS AvSync, TLAPS, SequenceTheorems

-----------------------------------------------------------------------------
(* The operators                                                           *)

Pictures == [gap : Gaps \cup {Duration}, timed : BOOLEAN, current : BOOLEAN]

LEMMA ConstantTypes ==
    /\ SyncMin \in Nat /\ SyncMax \in Nat /\ DupThreshold \in Nat
    /\ MaxFrameDuration \in Nat /\ Duration \in Nat
    /\ SyncMin <= SyncMax /\ DupThreshold <= SyncMax
    /\ Gaps \cup {Duration} \subseteq Int /\ Leads \subseteq Int
    /\ FrameCap \in Nat /\ FrameCap >= 1
    /\ MaxJolts \in Nat /\ MaxKeys \in Nat /\ MaxSeeks \in Nat /\ MaxUntimed \in Nat
<1>1. /\ SyncMin \in Nat /\ SyncMax \in Nat /\ DupThreshold \in Nat
      /\ MaxFrameDuration \in Nat /\ Duration \in Nat
  BY SyncAssumption DEF SyncAssumption
<1>2. /\ SyncMin <= SyncMax /\ DupThreshold <= SyncMax
      /\ Gaps \subseteq Int /\ Leads \subseteq Int
      /\ FrameCap \in Nat \ {0}
  BY SyncAssumption DEF SyncAssumption
<1>3. MaxJolts \in Nat /\ MaxKeys \in Nat /\ MaxSeeks \in Nat /\ MaxUntimed \in Nat
  BY SyncAssumption DEF SyncAssumption
<1>4. Gaps \cup {Duration} \subseteq Int
  BY <1>1, <1>2
<1> QED
  BY <1>1, <1>2, <1>3, <1>4

\* The time a picture stays is a number.
LEMMA CorrectedType ==
    ASSUME NEW delay \in Nat, NEW diff \in Int
    PROVE  Corrected(delay, diff) \in Int
BY ConstantTypes DEF Corrected, Threshold, Larger, Smaller

\* compute_target_delay changes the delay by no more than the difference, and in its
\* direction: this is where AV_SYNC_FRAMEDUP_THRESHOLD must not exceed
\* AV_SYNC_THRESHOLD_MAX.
LEMMA CorrectedTowards ==
    ASSUME NEW delay \in Nat, NEW diff \in Int
    PROVE  \/ delay <= Corrected(delay, diff) /\ Corrected(delay, diff) <= delay + diff
           \/ delay + diff <= Corrected(delay, diff) /\ Corrected(delay, diff) <= delay
BY ConstantTypes DEF Corrected, Threshold, Larger, Smaller

\* A picture that waits is a picture.
LEMMA HeadPicture ==
    ASSUME TypeOK, pictq # <<>>
    PROVE  /\ Head(pictq) \in Pictures
           /\ Tail(pictq) \in Seq(Pictures)
           /\ Len(Tail(pictq)) = Len(pictq) - 1
           /\ Len(pictq) \in Nat
<1>1. pictq \in Seq(Pictures)
  BY DEF TypeOK, Pictures
<1> QED
  BY <1>1, HeadTailProperties, EmptySeq, LenProperties

LEMMA DurationType ==
    ASSUME NEW timed, NEW p \in Pictures
    PROVE  vp_duration(timed, p) \in Nat
<1>1. p.gap \in Int
  BY ConstantTypes DEF Pictures
<1> QED
  BY <1>1, ConstantTypes DEF vp_duration

LEMMA DelayType ==
    ASSUME TypeOK, pictq # <<>>
    PROVE  /\ LastDuration \in Nat
           /\ Elapsed \in Int
           /\ Diff \in Int
           /\ Delay \in Int
           /\ Remainder \in Int
<1>1. Head(pictq) \in Pictures
  BY HeadPicture
<1>2. LastDuration \in Nat
  BY <1>1, DurationType, ConstantTypes DEF LastDuration, TypeOK
<1>3. Elapsed \in Int /\ Diff \in Int
  BY DEF TypeOK, Elapsed, Diff
<1>4. Delay \in Int
  BY <1>2, <1>3, CorrectedType DEF Delay, compute_target_delay
<1>5. Remainder \in Int
  BY <1>3, <1>4, ConstantTypes DEF Remainder
<1> QED
  BY <1>2, <1>3, <1>4, <1>5

-----------------------------------------------------------------------------
(* The invariant: frame_timer is not later than vidclk.last_updated, so     *)
(* that what a resume adds to it takes it no further than now.  A picture   *)
(* without a time stamp breaks it, the next one that has one restores it:   *)
(* it is taken when its time has come, which sets both to now or before.    *)

Excepted == last \in {"untimed", "stale"}

TimerBehind == Excepted \/ age <= late

IInv == TypeOK /\ TimerBehind

LEMMA FrozenNever == IInv => NeverFrozen
BY DEF IInv, TypeOK, TimerBehind, Excepted, NeverFrozen

LEMMA InitInv == Init => IInv
<1> SUFFICES ASSUME Init PROVE IInv
  OBVIOUS
<1>1. pictq \in Seq(Pictures) /\ Len(pictq) = 0
  BY EmptySeq DEF Init
<1>2. late \in Nat /\ age = 0
  BY ConstantTypes DEF Init
<1>3. Len(pictq) <= FrameCap
  BY <1>1, ConstantTypes
<1>4. /\ last \in {"none", "timed", "untimed", "stale"}
      /\ refresh \in {"sleep", "due", "retry"}
      /\ lead \in Int /\ drift \in Int
  BY DEF Init
<1>7. /\ vidclk \in BOOLEAN /\ audclk \in BOOLEAN
      /\ paused \in BOOLEAN /\ step \in BOOLEAN /\ enosys \in BOOLEAN
      /\ behind \in BOOLEAN /\ fell \in BOOLEAN /\ dropped \in BOOLEAN
  BY DEF Init
<1>5. jolts \in 0..MaxJolts /\ keys \in 0..MaxKeys /\ seeks \in 0..MaxSeeks
      /\ untimed \in 0..MaxUntimed
  BY ConstantTypes DEF Init
<1>6. TypeOK
  BY <1>1, <1>2, <1>3, <1>4, <1>5, <1>7 DEF TypeOK, Pictures
<1> QED
  BY <1>2, <1>6 DEF IInv, TimerBehind

\* A picture is taken when its time has come: frame_timer moves up to now at most.
LEMMA TakeInv ==
    ASSUME IInv, TakePicture, step \in BOOLEAN,
           paused' \in BOOLEAN, step' \in BOOLEAN, dropped' \in BOOLEAN,
           refresh' \in {"sleep", "due", "retry"}
    PROVE  IInv'
<1>1. TypeOK /\ pictq # <<>>
  BY DEF IInv, TakePicture, Current
<1>2. /\ Head(pictq) \in Pictures /\ Tail(pictq) \in Seq(Pictures)
      /\ Len(Tail(pictq)) = Len(pictq) - 1 /\ Len(pictq) \in Nat
  BY <1>1, HeadPicture
<1>3. Head(pictq).gap \in Int
  BY <1>2, ConstantTypes DEF Pictures
<1>4. ASSUME update_video_pts PROVE lead' \in Int /\ fell' \in BOOLEAN
  <2>1. CASE ~audclk
    BY <1>4, <2>1, <1>1 DEF update_video_pts, TypeOK
  <2>2. CASE audclk /\ vidclk
    BY <1>4, <2>2, <1>1, <1>3 DEF update_video_pts, TypeOK
  <2>3. CASE audclk /\ ~vidclk
    <3>1. lead' \in Leads /\ fell' = (fell \/ lead' < 0)
      BY <1>4, <2>3 DEF update_video_pts
    <3> QED
      BY <3>1, <1>1, ConstantTypes DEF TypeOK
  <2> QED
    BY <2>1, <2>2, <2>3
<1>5. late' \in Nat
  BY <1>1, DelayType DEF TakePicture, Remainder
<1>6. pictq' \in Seq(Pictures) /\ Len(pictq') <= FrameCap
  BY <1>1, <1>2, ConstantTypes DEF TakePicture, TypeOK
<1>7. UNCHANGED <<audclk, enosys, behind, jolts, keys, seeks, untimed>>
  BY DEF TakePicture
<1>8. CASE Head(pictq).timed
  <2>1. update_video_pts /\ last' = "timed"
    BY <1>8 DEF TakePicture
  <2>2. vidclk' = TRUE /\ age' = 0 /\ drift' = 0
    BY <2>1 DEF update_video_pts
  <2>3. lead' \in Int /\ fell' \in BOOLEAN
    BY <1>4, <2>1
  <2>4. TypeOK'
    BY <1>1, <1>5, <1>6, <1>7, <2>1, <2>2, <2>3 DEF TypeOK, Pictures
  <2> QED
    BY <1>5, <2>2, <2>4 DEF IInv, TimerBehind
<1>9. CASE ~Head(pictq).timed
  <2>1. ClockGoesOn /\ last' = "untimed"
    BY <1>9 DEF TakePicture
  <2>2. /\ vidclk' \in BOOLEAN /\ age' \in Nat /\ fell' = TRUE
        /\ drift' \in Int /\ lead' \in Int
    BY <1>1, <1>3, <2>1 DEF ClockGoesOn, TypeOK
  <2>3. TypeOK'
    BY <1>1, <1>5, <1>6, <1>7, <2>1, <2>2 DEF TypeOK, Pictures
  <2> QED
    BY <2>1, <2>3 DEF IInv, TimerBehind, Excepted
<1> QED
  BY <1>8, <1>9

LEMMA RefreshInv == IInv /\ VideoRefresh => IInv'
<1> SUFFICES ASSUME IInv, VideoRefresh PROVE IInv'
  OBVIOUS
<1>1. CASE NoPicture
  BY <1>1 DEF NoPicture, IInv, TypeOK, TimerBehind, Excepted, clocks, control, bounds
<1>2. CASE SkipStale
  <2>1. pictq' \in Seq(Pictures) /\ Len(pictq') <= FrameCap
    BY <1>2, HeadPicture, ConstantTypes DEF SkipStale, IInv, TypeOK
  <2> QED
    BY <1>2, <2>1 DEF SkipStale, IInv, TypeOK, TimerBehind, Excepted, Pictures, clocks, control, bounds
<1>3. CASE KeepShowing
  <2>1. late' \in Int /\ (last # "stale" => late' = late)
    BY <1>3 DEF KeepShowing, Elapsed, IInv, TypeOK
  <2> QED
    BY <1>3, <2>1 DEF KeepShowing, IInv, TypeOK, TimerBehind, Excepted, control, bounds
<1>4. CASE DropLate
  BY <1>4, TakeInv DEF DropLate, IInv, TypeOK
<1>5. CASE ShowPicture
  BY <1>5, TakeInv DEF ShowPicture, IInv, TypeOK
<1> QED
  BY <1>1, <1>2, <1>3, <1>4, <1>5 DEF VideoRefresh

LEMMA PassInv ==
    ASSUME IInv, NEW heard \in {0, 1}, Pass(heard),
           jolts' \in 0..MaxJolts, fell' \in BOOLEAN
    PROVE  IInv'
<1>1. late' = late + 1 /\ age' = age + 1 /\ lead' \in Int
  BY DEF Pass, IInv, TypeOK
<1>2. refresh' \in {"sleep", "due", "retry"}
  BY DEF Pass, IInv, TypeOK
<1>3. late' \in Int /\ age' \in Nat /\ (Excepted \/ age' <= late')
  BY <1>1 DEF IInv, TypeOK, TimerBehind, Excepted
<1> QED
  BY <1>1, <1>2, <1>3 DEF Pass, IInv, TypeOK, TimerBehind, Excepted, control

LEMMA JoltCounted == ASSUME TypeOK, Jolt PROVE jolts' \in 0..MaxJolts /\ fell' \in BOOLEAN
BY ConstantTypes DEF Jolt, TypeOK

LEMMA TimeInv == IInv /\ (Tick \/ TickLate \/ TickPaused) => IInv'
<1> SUFFICES ASSUME IInv, Tick \/ TickLate \/ TickPaused PROVE IInv'
  OBVIOUS
<1>1. CASE Tick
  BY <1>1, PassInv DEF Tick, IInv, TypeOK
<1>2. CASE TickLate
  BY <1>2, PassInv, JoltCounted DEF TickLate, IInv
<1>3. CASE TickPaused
  <2>1. PICK heard \in {0, 1} : /\ Pass(heard)
                                /\ jolts < MaxJolts
                                /\ jolts' = jolts + 1
                                /\ fell' = (fell \/ heard = 1)
    BY <1>3 DEF TickPaused
  <2>2. jolts' \in 0..MaxJolts
    BY <2>1, ConstantTypes DEF IInv, TypeOK
  <2>3. fell' \in BOOLEAN
    BY <2>1 DEF IInv, TypeOK
  <2> QED
    BY <2>1, <2>2, <2>3, PassInv
<1> QED
  BY <1>1, <1>2, <1>3

LEMMA SoundInv == IInv /\ (AudioJump \/ AudioStart) => IInv'
<1> SUFFICES ASSUME IInv, AudioJump \/ AudioStart PROVE IInv'
  OBVIOUS
<1>1. CASE AudioJump
  <2>1. jolts' \in 0..MaxJolts /\ fell' \in BOOLEAN
    BY <1>1, JoltCounted DEF AudioJump, IInv
  <2>2. lead' \in Int
    BY <1>1 DEF AudioJump, IInv, TypeOK
  <2> QED
    BY <1>1, <2>1, <2>2 DEF AudioJump, IInv, TypeOK, TimerBehind, Excepted, control
<1>2. CASE AudioStart
  <2>1. lead' \in Int /\ fell' \in BOOLEAN
    <3>1. CASE vidclk
      <4>1. PICK diff \in Leads : /\ lead' = diff - drift - age
                                  /\ fell' = (fell \/ diff < 0)
        BY <1>2, <3>1 DEF AudioStart
      <4> QED
        BY <4>1, ConstantTypes DEF IInv, TypeOK
    <3>2. CASE ~vidclk
      BY <1>2, <3>2 DEF AudioStart, IInv, TypeOK
    <3> QED
      BY <3>1, <3>2
  <2> QED
    BY <1>2, <2>1 DEF AudioStart, IInv, TypeOK, TimerBehind, Excepted, control
<1> QED
  BY <1>1, <1>2

\* What is put into the queue.
LEMMA PutOne ==
    ASSUME TypeOK, PutPicture
    PROVE  \E p \in Pictures : /\ pictq' = Append(pictq, p)
                               /\ p.current \/ behind
                               /\ untimed' \in 0..MaxUntimed
<1>1. ASSUME NEW gap \in Gaps, NEW timed \in BOOLEAN,
             timed \/ untimed < MaxUntimed,
             pictq' = Append(pictq, [gap |-> gap, timed |-> timed, current |-> TRUE]),
             untimed' = IF timed THEN untimed ELSE untimed + 1
      PROVE  \E p \in Pictures : /\ pictq' = Append(pictq, p)
                                 /\ p.current \/ behind
                                 /\ untimed' \in 0..MaxUntimed
  <2>1. untimed' \in 0..MaxUntimed
    BY <1>1, ConstantTypes DEF TypeOK
  <2>2. /\ [gap |-> gap, timed |-> timed, current |-> TRUE] \in Pictures
        /\ [gap |-> gap, timed |-> timed, current |-> TRUE].current
    BY DEF Pictures
  <2> QED
    BY <1>1, <2>1, <2>2
<1>2. ASSUME behind, pictq' = Append(pictq, StalePicture), untimed' = untimed
      PROVE  \E p \in Pictures : /\ pictq' = Append(pictq, p)
                                 /\ p.current \/ behind
                                 /\ untimed' \in 0..MaxUntimed
  <2>1. untimed' \in 0..MaxUntimed
    BY <1>2 DEF TypeOK
  <2>2. StalePicture \in Pictures
    BY DEF StalePicture, Pictures
  <2> QED
    BY <1>2, <2>1, <2>2
<1> QED
  BY <1>1, <1>2 DEF PutPicture

LEMMA QueueInv == IInv /\ QueuePicture => IInv'
<1> SUFFICES ASSUME IInv, QueuePicture PROVE IInv'
  OBVIOUS
<1>0. TypeOK /\ PutPicture
  BY DEF QueuePicture, IInv
<1>1. PICK p \in Pictures : /\ pictq' = Append(pictq, p)
                            /\ p.current \/ behind
                            /\ untimed' \in 0..MaxUntimed
  BY <1>0, PutOne
<1>3. pictq \in Seq(Pictures)
  BY DEF IInv, TypeOK, Pictures
<1>4. pictq' \in Seq(Pictures) /\ Len(pictq') = Len(pictq) + 1 /\ Len(pictq) \in Nat
  BY <1>1, <1>3, AppendProperties, LenProperties
<1>5. Len(pictq') <= FrameCap
  BY <1>4, ConstantTypes DEF QueuePicture
<1>6. /\ behind' = FALSE
      /\ UNCHANGED <<last, clocks, control, refresh, jolts, keys, seeks, fell, dropped>>
  BY DEF QueuePicture, PutPicture
<1> QED
  BY <1>1, <1>4, <1>5, <1>6 DEF IInv, TypeOK, TimerBehind, Excepted, Pictures, clocks, control

\* A resume adds the age of vidclk to frame_timer, and vidclk is as young as now.
LEMMA ResumeInv ==
    ASSUME IInv, NEW known \in BOOLEAN, Resume(known)
    PROVE  /\ paused' = FALSE
           /\ late' \in Int /\ age' = 0 /\ drift' \in Int
           /\ Excepted \/ age' <= late'
<1>1. late' \in Int /\ age' = 0 /\ (Excepted \/ age' <= late')
  BY DEF IInv, TypeOK, TimerBehind, Excepted, Resume
<1>2. drift' \in Int
  <2>1. drift \in Int /\ drift + age \in Int
    BY DEF IInv, TypeOK
  <2>2. CASE ~known
    BY <2>2 DEF Resume
  <2>3. CASE known /\ enosys
    BY <2>1, <2>3 DEF Resume
  <2>4. CASE known /\ ~enosys
    BY <2>1, <2>4 DEF Resume
  <2> QED
    BY <2>2, <2>3, <2>4
<1> QED
  BY <1>1, <1>2 DEF Resume

LEMMA StepInv ==
    ASSUME IInv, NEW known \in BOOLEAN, step_to_next_frame(known)
    PROVE  /\ paused' \in BOOLEAN /\ step' = TRUE
           /\ late' \in Int /\ age' \in Nat /\ drift' \in Int
           /\ Excepted \/ age' <= late'
<1>1. CASE paused
  <2>1. Resume(known) /\ step' = TRUE
    BY <1>1 DEF step_to_next_frame
  <2>2. /\ paused' = FALSE
        /\ late' \in Int /\ age' = 0 /\ drift' \in Int
        /\ Excepted \/ age' <= late'
    BY <2>1, ResumeInv
  <2> QED
    BY <2>1, <2>2
<1>2. CASE ~paused
  BY <1>2 DEF step_to_next_frame, IInv, TypeOK, TimerBehind, Excepted
<1> QED
  BY <1>1, <1>2

LEMMA KeyInv == IInv /\ (TogglePause \/ StepKey \/ Expose \/ ReadPause) => IInv'
<1> SUFFICES ASSUME IInv, TogglePause \/ StepKey \/ Expose \/ ReadPause PROVE IInv'
  OBVIOUS
<1>1. CASE TogglePause
  <2>1. /\ paused' \in BOOLEAN /\ late' \in Int /\ age' \in Nat /\ drift' \in Int
        /\ Excepted \/ age' <= late'
        /\ keys' \in 0..MaxKeys
    <3>1. CASE paused
      <4>1. Resume(vidclk) /\ keys' = keys /\ vidclk \in BOOLEAN
        BY <1>1, <3>1 DEF TogglePause, IInv, TypeOK
      <4>2. keys' \in 0..MaxKeys
        BY <4>1 DEF IInv, TypeOK
      <4>3. /\ paused' = FALSE
            /\ late' \in Int /\ age' = 0 /\ drift' \in Int
            /\ Excepted \/ age' <= late'
        BY <4>1, ResumeInv
      <4> QED
        BY <4>2, <4>3
    <3>2. CASE ~paused
      BY <1>1, <3>2, ConstantTypes DEF TogglePause, Pause, IInv, TypeOK, TimerBehind, Excepted
    <3> QED
      BY <3>1, <3>2
  <2>2. fell' \in BOOLEAN /\ step' = FALSE
    BY <1>1 DEF TogglePause
  <2> QED
    BY <1>1, <2>1, <2>2 DEF TogglePause, IInv, TypeOK, TimerBehind, Excepted
<1>2. CASE StepKey
  <2>1. /\ paused' \in BOOLEAN /\ step' = TRUE
        /\ late' \in Int /\ age' \in Nat /\ drift' \in Int
        /\ Excepted \/ age' <= late'
    BY <1>2, StepInv DEF StepKey, IInv, TypeOK
  <2>2. keys' \in 0..MaxKeys
    BY <1>2, ConstantTypes DEF StepKey, IInv, TypeOK
  <2>3. fell' \in BOOLEAN
    BY <1>2 DEF StepKey
  <2> QED
    BY <1>2, <2>1, <2>2, <2>3 DEF StepKey, IInv, TypeOK, TimerBehind, Excepted
<1>3. CASE Expose
  BY <1>3 DEF Expose, IInv, TypeOK, TimerBehind, Excepted, clocks, control, bounds
<1>4. CASE ReadPause
  BY <1>4 DEF ReadPause, IInv, TypeOK, TimerBehind, Excepted, clocks, bounds
<1> QED
  BY <1>1, <1>2, <1>3, <1>4

LEMMA SeekInv == IInv /\ Seek => IInv'
<1> SUFFICES ASSUME IInv, Seek PROVE IInv'
  OBVIOUS
<1>1. Len(pictq) \in Nat /\ Len(pictq) <= FrameCap
  BY LenProperties DEF IInv, TypeOK
<1>2. pictq' \in Seq(Pictures)
  BY <1>1 DEF Seek, StalePicture, Pictures
<1>3. Len(pictq') = Len(pictq)
  BY <1>1 DEF Seek
<1>4. /\ paused' \in BOOLEAN /\ step' \in BOOLEAN
      /\ late' \in Int /\ age' \in Nat /\ drift' \in Int
      /\ Excepted \/ age' <= late'
  <2>1. CASE paused
    BY <2>1, StepInv DEF Seek
  <2>2. CASE ~paused
    BY <2>2 DEF Seek, IInv, TypeOK, TimerBehind, Excepted
  <2> QED
    BY <2>1, <2>2
<1>5. last' \in {"none", "stale"} /\ (last' = "stale" \/ age' <= late')
  BY <1>4 DEF Seek, IInv, TypeOK, Excepted
<1>6. seeks' \in 0..MaxSeeks
  BY ConstantTypes DEF Seek, IInv, TypeOK
<1>7. fell' \in BOOLEAN
  BY DEF Seek
<1> QED
  <2>1. lead' = 0 /\ UNCHANGED <<enosys, refresh, jolts, keys, untimed, dropped>>
    BY DEF Seek
  <2>2. vidclk' \in BOOLEAN /\ audclk' \in BOOLEAN /\ behind' \in BOOLEAN
    BY DEF Seek
  <2>3. TypeOK'
    BY <1>1, <1>2, <1>3, <1>4, <1>5, <1>6, <1>7, <2>1, <2>2 DEF IInv, TypeOK, Pictures
  <2> QED
    BY <1>5, <2>3 DEF IInv, TimerBehind, Excepted

LEMMA NextInv == IInv /\ [Next]_vars => IInv'
<1>1. CASE UNCHANGED vars
  BY <1>1 DEF vars, clocks, control, bounds, IInv, TypeOK, TimerBehind, Excepted
<1> QED
  BY <1>1, RefreshInv, TimeInv, SoundInv, QueueInv, KeyInv, SeekInv DEF Next

-----------------------------------------------------------------------------
(* Why no picture is late: as long as nothing has fallen behind, the        *)
(* pictures are not behind the sound and each is taken at the end of its    *)
(* delay.                                                                  *)

\* Time stamps go up, and a distance that vp_duration does not believe is at least as long
\* as the duration it takes instead.
Regular ==
    /\ Duration > 0
    /\ \A gap \in Gaps : gap > 0 /\ (gap > MaxFrameDuration => Duration <= gap)

\* Old pictures come before current ones, and there is none when vidclk is current.
InOrder ==
    /\ last = "timed" => vidclk
    /\ vidclk => last \in {"timed", "untimed"}
    /\ vidclk => ~behind
    /\ \A i \in 1..Len(pictq) :
          /\ vidclk => pictq[i].current
          /\ pictq[i].current => ~behind
          /\ \A j \in 1..Len(pictq) : i < j /\ pictq[i].current => pictq[j].current

\* No part of a pause counts.
Steady == ~fell /\ (paused => age = 0)

\* While current pictures are shown.
InTime ==
    /\ late = age
    /\ audclk => Diff >= 0
    /\ pictq = <<>> => late = 0
    /\ pictq # <<>> => late <= Delay
    /\ pictq # <<>> /\ refresh = "sleep" => late < Delay

Timely ==
    /\ ~fell => /\ ~dropped /\ drift = 0 /\ last # "untimed"
                /\ last = "none" => late > SyncMax + Duration
    /\ Steady /\ vidclk => InTime

LEMMA InOrderSame ==
    ASSUME InOrder, UNCHANGED <<pictq, last, vidclk, behind>> PROVE InOrder'
BY DEF InOrder

LEMMA TailEntries ==
    ASSUME TypeOK, pictq # <<>>, pictq' = Tail(pictq)
    PROVE  /\ Len(pictq') = Len(pictq) - 1 /\ Len(pictq) \in Nat
           /\ \A i \in 1..Len(pictq') : i + 1 \in 1..Len(pictq) /\ pictq'[i] = pictq[i + 1]
           /\ 1 \in 1..Len(pictq) /\ Head(pictq) = pictq[1]
<1>1. pictq \in Seq(Pictures)
  BY DEF TypeOK, Pictures
<1>2. Len(pictq') = Len(pictq) - 1 /\ Len(pictq) \in Nat
  BY HeadPicture
<1>3. \A i \in 1..Len(pictq') : pictq'[i] = pictq[i + 1]
  BY <1>1, HeadTailProperties
<1>4. Head(pictq) = pictq[1] /\ Len(pictq) # 0
  BY <1>1, EmptySeq
<1> QED
  BY <1>2, <1>3, <1>4

LEMMA TakeInOrder == ASSUME TypeOK, InOrder, TakePicture PROVE InOrder'
<1>1. /\ pictq # <<>> /\ Head(pictq).current /\ pictq' = Tail(pictq)
      /\ behind' = behind
  BY DEF TakePicture, Current
<1>2. /\ Len(pictq') = Len(pictq) - 1 /\ Len(pictq) \in Nat
      /\ \A i \in 1..Len(pictq') : i + 1 \in 1..Len(pictq) /\ pictq'[i] = pictq[i + 1]
      /\ 1 \in 1..Len(pictq) /\ Head(pictq) = pictq[1]
  BY <1>1, TailEntries
<1>3. pictq[1].current
  BY <1>1, <1>2
<1>4. ~behind
  BY <1>2, <1>3 DEF InOrder
<1>5. \A j \in 1..Len(pictq) : 1 < j => pictq[j].current
  BY <1>2, <1>3 DEF InOrder
<1>6. ASSUME NEW i \in 1..Len(pictq') PROVE pictq'[i].current
  <2>1. i + 1 \in 1..Len(pictq) /\ 1 < i + 1 /\ pictq'[i] = pictq[i + 1]
    BY <1>2
  <2> QED
    BY <1>5, <2>1
<1>7. last' \in {"timed", "untimed"} /\ (last' = "timed" => vidclk')
  BY DEF TakePicture, update_video_pts
<1> QED
  BY <1>1, <1>4, <1>6, <1>7 DEF InOrder

LEMMA SkipInOrder == ASSUME TypeOK, InOrder, SkipStale PROVE InOrder' /\ ~vidclk'
<1>1. /\ pictq # <<>> /\ ~Head(pictq).current /\ pictq' = Tail(pictq)
      /\ last' = "stale" /\ UNCHANGED <<vidclk, behind>>
  BY DEF SkipStale, clocks
<1>2. /\ Len(pictq') = Len(pictq) - 1 /\ Len(pictq) \in Nat
      /\ \A i \in 1..Len(pictq') : i + 1 \in 1..Len(pictq) /\ pictq'[i] = pictq[i + 1]
      /\ 1 \in 1..Len(pictq) /\ Head(pictq) = pictq[1]
  BY <1>1, TailEntries
<1>3. ~vidclk
  BY <1>1, <1>2 DEF InOrder
<1>4. ASSUME NEW i \in 1..Len(pictq')
      PROVE  /\ pictq'[i].current => ~behind
             /\ \A j \in 1..Len(pictq') : i < j /\ pictq'[i].current => pictq'[j].current
  <2>1. i + 1 \in 1..Len(pictq) /\ pictq'[i] = pictq[i + 1]
    BY <1>2
  <2>2. pictq'[i].current => ~behind
    BY <2>1 DEF InOrder
  <2>3. ASSUME NEW j \in 1..Len(pictq'), i < j, pictq'[i].current PROVE pictq'[j].current
    <3>1. j + 1 \in 1..Len(pictq) /\ pictq'[j] = pictq[j + 1] /\ i + 1 < j + 1
      BY <1>2, <2>3
    <3> QED
      BY <2>1, <2>3, <3>1 DEF InOrder
  <2> QED
    BY <2>2, <2>3
<1> QED
  BY <1>1, <1>3, <1>4 DEF InOrder

LEMMA QueueInOrder == ASSUME TypeOK, InOrder, QueuePicture PROVE InOrder'
<1>0. PutPicture
  BY DEF QueuePicture
<1>1. PICK p \in Pictures : /\ pictq' = Append(pictq, p)
                            /\ p.current \/ behind
                            /\ untimed' \in 0..MaxUntimed
  BY <1>0, PutOne
<1>2. pictq \in Seq(Pictures)
  BY DEF TypeOK, Pictures
<1>4. /\ Len(pictq') = Len(pictq) + 1 /\ Len(pictq) \in Nat
      /\ \A i \in 1..Len(pictq) : pictq'[i] = pictq[i]
      /\ pictq'[Len(pictq) + 1] = p
  BY <1>1, <1>2, AppendProperties, LenProperties
<1>5. behind' = FALSE /\ UNCHANGED <<last, vidclk>>
  BY DEF QueuePicture, PutPicture, clocks
<1>6. vidclk => p.current
  BY <1>1 DEF InOrder
<1>7. ASSUME NEW i \in 1..Len(pictq') PROVE i \in 1..Len(pictq) \/ i = Len(pictq) + 1
  BY <1>4
<1>8. ASSUME NEW i \in 1..Len(pictq'), vidclk PROVE pictq'[i].current
  BY <1>4, <1>6, <1>7, <1>8 DEF InOrder
<1>9. ASSUME NEW i \in 1..Len(pictq'), NEW j \in 1..Len(pictq'), i < j, pictq'[i].current
      PROVE  pictq'[j].current
  <2>1. i \in 1..Len(pictq)
    BY <1>4, <1>7, <1>9
  <2>2. pictq[i].current /\ ~behind
    BY <1>4, <1>9, <2>1 DEF InOrder
  <2>3. p.current
    BY <1>1, <2>2
  <2>4. CASE j \in 1..Len(pictq)
    BY <1>4, <1>9, <2>1, <2>2, <2>4 DEF InOrder
  <2>5. CASE j = Len(pictq) + 1
    BY <1>4, <2>3, <2>5
  <2> QED
    BY <1>7, <2>4, <2>5
<1> QED
  BY <1>5, <1>8, <1>9 DEF InOrder

LEMMA SeekInOrder == ASSUME TypeOK, Seek PROVE InOrder' /\ ~vidclk'
<1>1. /\ pictq' = [i \in 1..Len(pictq) |-> StalePicture]
      /\ last' = (IF last = "none" THEN "none" ELSE "stale") /\ vidclk' = FALSE
  BY DEF Seek
<1>2. Len(pictq) \in Nat
  BY LenProperties DEF TypeOK
<1>3. Len(pictq') = Len(pictq) /\ \A i \in 1..Len(pictq) : pictq'[i].current = FALSE
  BY <1>1, <1>2 DEF StalePicture
<1> QED
  BY <1>1, <1>3 DEF InOrder

LEMMA NextInOrder == TypeOK /\ InOrder /\ [Next]_vars => InOrder'
<1> SUFFICES ASSUME TypeOK, InOrder, [Next]_vars PROVE InOrder'
  OBVIOUS
<1>1. CASE TakePicture
  BY <1>1, TakeInOrder
<1>2. CASE SkipStale
  BY <1>2, SkipInOrder
<1>3. CASE QueuePicture
  BY <1>3, QueueInOrder
<1>4. CASE Seek
  BY <1>4, SeekInOrder
<1>5. CASE NoPicture \/ KeepShowing \/ Tick \/ TickLate \/ TickPaused
  <2>1. UNCHANGED <<pictq, last, vidclk, behind>>
    BY <1>5 DEF NoPicture, KeepShowing, Tick, TickLate, TickPaused, Pass, clocks
  <2> QED
    BY <2>1, InOrderSame
<1>6. CASE \/ AudioJump \/ AudioStart \/ TogglePause \/ StepKey \/ Expose \/ ReadPause
           \/ UNCHANGED vars
  <2>1. UNCHANGED <<pictq, last, vidclk, behind>>
    BY <1>6 DEF AudioJump, AudioStart, TogglePause, StepKey, Expose, ReadPause, vars, clocks
  <2> QED
    BY <2>1, InOrderSame
<1> QED
  BY <1>1, <1>2, <1>3, <1>4, <1>5, <1>6 DEF Next, VideoRefresh, DropLate, ShowPicture

\* The correction of pictures ahead of the sound holds them longer, by no more than they
\* are ahead.
LEMMA HeldBack ==
    ASSUME NEW delay \in Nat, NEW diff \in Nat
    PROVE  delay <= Corrected(delay, diff) /\ Corrected(delay, diff) <= delay + diff
BY ConstantTypes DEF Corrected, Threshold, Larger, Smaller

\* A picture has a duration, and the time stamps go on by at least as much.
LEMMA GapRegular ==
    ASSUME Regular, NEW timed, NEW p \in Pictures
    PROVE  /\ p.gap \in Int /\ vp_duration(timed, p) \in Nat /\ vp_duration(timed, p) >= 1
           /\ timed /\ p.timed => vp_duration(timed, p) <= p.gap
<1>1. p.gap \in Gaps \cup {Duration}
  BY DEF Pictures
<1> QED
  BY <1>1, ConstantTypes DEF Regular, vp_duration

DelayBounds ==
    Regular /\ TypeOK /\ last = "timed" /\ pictq # <<>>
        /\ (vidclk /\ audclk => Diff >= 0)
    => /\ LastDuration \in Nat /\ LastDuration >= 1
       /\ Head(pictq).timed => LastDuration <= Head(pictq).gap
       /\ Head(pictq).gap \in Int
       /\ Delay \in Nat /\ LastDuration <= Delay
       /\ vidclk /\ audclk => Delay <= LastDuration + Diff

LEMMA DelayBounded == DelayBounds
<1> SUFFICES ASSUME Regular, TypeOK, last = "timed", pictq # <<>>,
                    vidclk /\ audclk => Diff >= 0
             PROVE  /\ LastDuration \in Nat /\ LastDuration >= 1
                    /\ Head(pictq).timed => LastDuration <= Head(pictq).gap
                    /\ Head(pictq).gap \in Int
                    /\ Delay \in Nat /\ LastDuration <= Delay
                    /\ vidclk /\ audclk => Delay <= LastDuration + Diff
  BY DEF DelayBounds
<1>1. Head(pictq) \in Pictures
  BY HeadPicture
<1>2. LastDuration = vp_duration(TRUE, Head(pictq))
  BY DEF LastDuration
<1>3. /\ LastDuration \in Nat /\ LastDuration >= 1 /\ Head(pictq).gap \in Int
      /\ Head(pictq).timed => LastDuration <= Head(pictq).gap
  BY <1>1, <1>2, GapRegular
<1>4. CASE vidclk /\ audclk
  <2>1. Diff \in Nat
    BY <1>4, DelayType
  <2>2. /\ LastDuration <= Corrected(LastDuration, Diff)
        /\ Corrected(LastDuration, Diff) <= LastDuration + Diff
    BY <1>3, <2>1, HeldBack
  <2>3. Delay = Corrected(LastDuration, Diff) \/ Delay = LastDuration
    BY DEF Delay, compute_target_delay
  <2>4. Delay \in Int
    BY DelayType
  <2> QED
    BY <1>3, <2>1, <2>2, <2>3, <2>4
<1>5. CASE ~(vidclk /\ audclk)
  <2>1. Delay = LastDuration
    BY <1>5 DEF Delay, compute_target_delay
  <2> QED
    BY <1>3, <1>5, <2>1
<1> QED
  BY <1>4, <1>5

LEMMA DelayBoundedNext == DelayBounds'
BY DelayBounded, PTL

\* A picture is taken at the end of the delay, or frame_timer is set to now.
LEMMA TakenInTime ==
    ASSUME Regular, TypeOK, InOrder, Timely, TakePicture, ~fell
    PROVE  /\ Remainder = 0
           /\ last = "timed" => late = age /\ late = Delay /\ drift = 0
<1>1. /\ pictq # <<>> /\ ~paused /\ Elapsed >= Delay
  BY DEF TakePicture, Current
<1>2. late \in Int /\ Delay \in Int /\ SyncMax \in Nat /\ Duration \in Nat
  BY <1>1, DelayType, ConstantTypes DEF TypeOK
<1>3. CASE last = "none"
  <2>1. Delay = Duration /\ Elapsed = late
    BY <1>3 DEF InOrder, Delay, compute_target_delay, LastDuration, Elapsed
  <2>2. late > SyncMax + Duration /\ Duration > 0
    BY <1>3 DEF Timely, Regular
  <2> QED
    BY <1>2, <1>3, <2>1, <2>2 DEF Remainder
<1>4. CASE last = "stale"
  <2>1. Delay = 0 /\ Elapsed = 0
    BY <1>4 DEF InOrder, Delay, compute_target_delay, LastDuration, Elapsed
  <2> QED
    BY <1>2, <1>4, <2>1 DEF Remainder
<1>5. CASE last = "timed"
  <2>1. vidclk /\ InTime /\ drift = 0
    BY <1>1, <1>5 DEF InOrder, Timely, Steady
  <2>2. Elapsed = late /\ late <= Delay /\ late = age
    BY <1>1, <1>5, <2>1 DEF Elapsed, InTime
  <2>3. late = Delay
    BY <1>1, <1>2, <2>2
  <2> QED
    BY <1>2, <2>1, <2>2, <2>3 DEF Remainder
<1>6. last # "untimed"
  BY DEF Timely
<1> QED
  BY <1>3, <1>4, <1>5, <1>6 DEF TypeOK

LEMMA NoneTooLate == ASSUME TypeOK, Remainder = 0 PROVE ~TooLate
<1> SUFFICES ASSUME TooLate PROVE FALSE
  OBVIOUS
<1>1. pictq \in Seq(Pictures) /\ Len(pictq) > 1
  BY DEF TooLate, TypeOK, Pictures
<1>2. 2 \in 1..Len(pictq)
  BY <1>1, LenProperties
<1>3. pictq[2] \in Pictures
  BY <1>1, <1>2, ElementOfSeq
<1>4. vp_duration(Head(pictq).timed, pictq[2]) \in Nat
  BY <1>3, DurationType
<1> QED
  BY <1>4 DEF TooLate

\* Nothing had fallen behind before the picture either.
LEMMA TakenTimed == ASSUME TakePicture, ~fell' PROVE ~fell
<1>1. update_video_pts
  BY DEF TakePicture, ClockGoesOn
<1>2. ~audclk \/ (audclk /\ vidclk) \/ (audclk /\ ~vidclk)
  OBVIOUS
<1> QED
  BY <1>1, <1>2 DEF update_video_pts

\* What the next picture finds.
LEMMA TakeTimely ==
    ASSUME Regular, TypeOK, TypeOK', InOrder, InOrder', Timely, TakePicture,
           dropped' = dropped, ~fell'
    PROVE  Timely'
<1>0. Head(pictq).timed /\ update_video_pts /\ last' = "timed"
  BY DEF TakePicture, ClockGoesOn
<1>1. ~fell
  BY TakenTimed
<1>2. Remainder = 0 /\ (last = "timed" => late = age /\ late = Delay /\ drift = 0)
  BY <1>1, TakenInTime
<1>3. /\ late' = 0 /\ age' = 0 /\ drift' = 0 /\ last' = "timed" /\ vidclk'
      /\ audclk' = audclk
  BY <1>0, <1>2 DEF TakePicture, update_video_pts
<1>4. Diff' = lead'
  <2>1. Diff' = lead' + 0 + 0
    BY <1>3 DEF Diff
  <2>2. lead' \in Int
    BY DEF TypeOK
  <2>3. \A n \in Int : n + 0 + 0 = n
    OBVIOUS
  <2> QED
    BY <2>1, <2>2, <2>3
<1>5. audclk' => lead' >= 0
  <2>1. CASE ~audclk
    BY <1>3, <2>1
  <2>2. CASE audclk /\ vidclk
    <3>1. lead' = lead + Head(pictq).gap /\ last = "timed" /\ pictq # <<>>
      BY <1>0, <1>1, <2>2 DEF TakePicture, update_video_pts, Current, InOrder, Timely
    <3>2. InTime /\ Diff >= 0
      BY <1>1, <2>2 DEF TakePicture, Timely, Steady, InTime
    <3>3. /\ LastDuration \in Nat /\ LastDuration <= Head(pictq).gap /\ Head(pictq).gap \in Int
          /\ Delay <= LastDuration + Diff /\ Delay \in Nat
      BY <1>0, <2>2, <3>1, <3>2, DelayBounded DEF DelayBounds
    <3>4. Diff = lead + Delay /\ lead \in Int
      BY <1>2, <3>1 DEF Diff, TypeOK
    <3> QED
      BY <3>1, <3>3, <3>4
  <2>3. CASE audclk /\ ~vidclk
    <3>1. fell' = (fell \/ lead' < 0)
      BY <1>0, <2>3 DEF update_video_pts
    <3>2. lead' \in Int
      BY DEF TypeOK
    <3>3. ~(lead' < 0)
      BY <3>1, Zenon
    <3> QED
      BY <3>2, <3>3
  <2> QED
    BY <2>1, <2>2, <2>3
<1>6. audclk' => Diff' >= 0
  BY <1>4, <1>5
<1>7. pictq' # <<>> => Delay' \in Nat /\ Delay' >= 1
  BY <1>3, <1>6, DelayBoundedNext DEF DelayBounds
<1>8. InTime'
  BY <1>3, <1>6, <1>7 DEF InTime
<1>9. ~dropped' /\ drift' = 0 /\ last' \notin {"none", "untimed"}
  BY <1>1, <1>3 DEF Timely
<1> QED
  BY <1>8, <1>9 DEF Timely

LEMMA RefreshTimely ==
    ASSUME Regular, TypeOK, TypeOK', InOrder, InOrder', Timely, VideoRefresh, ~fell'
    PROVE  Timely'
<1>1. CASE NoPicture
  BY <1>1 DEF NoPicture, Timely, Steady, InTime, Diff, clocks, control, bounds
<1>2. CASE SkipStale
  <2>1. ~vidclk' /\ last' = "stale" /\ UNCHANGED <<drift, fell, dropped>>
    BY <1>2, SkipInOrder DEF SkipStale, clocks, bounds
  <2> QED
    BY <2>1 DEF Timely
<1>3. CASE KeepShowing
  <2>1. /\ UNCHANGED <<pictq, last, age, lead, drift, vidclk, audclk, paused, fell, dropped>>
        /\ pictq # <<>> /\ late' = Elapsed /\ (paused \/ Elapsed < Delay)
    BY <1>3 DEF KeepShowing, Current, control, bounds
  <2>2. last # "stale" => late' = late /\ Elapsed = late
    BY <2>1 DEF Elapsed
  <2>3. Delay' = Delay /\ Diff' = Diff
    BY <2>1 DEF Delay, compute_target_delay, LastDuration, InRange, Diff
  <2>4. ASSUME Steady, vidclk PROVE InTime'
    <3>1. InTime /\ last = "timed" /\ late' = late /\ Elapsed = late
      BY <2>2, <2>4 DEF Timely, InOrder, Steady
    <3>2. late < Delay
      <4>1. CASE paused
        <5>1. late = 0
          BY <2>4, <3>1, <4>1 DEF Steady, InTime
        <5>2. LastDuration >= 1 /\ LastDuration <= Delay /\ LastDuration \in Nat /\ Delay \in Nat
          BY <2>1, <3>1, DelayBounded DEF DelayBounds, InTime
        <5> QED
          BY <5>1, <5>2
      <4>2. CASE ~paused
        BY <2>1, <3>1, <4>2
      <4> QED
        BY <4>1, <4>2
    <3>3. late <= Delay
      BY <3>1, <2>1 DEF InTime
    <3> QED
      BY <2>1, <2>3, <3>1, <3>2, <3>3 DEF InTime
  <2>5. /\ ~fell /\ ~dropped /\ drift = 0 /\ last # "untimed"
        /\ last = "none" => late > SyncMax + Duration
    BY <2>1 DEF Timely
  <2>6. Steady' => Steady
    BY <2>1 DEF Steady
  <2> QED
    BY <2>1, <2>2, <2>4, <2>5, <2>6 DEF Timely
<1>4. CASE DropLate
  <2>1. TooLate /\ TakePicture
    BY <1>4 DEF DropLate
  <2>2. ~fell
    BY <2>1, TakenTimed
  <2> QED
    BY <2>1, <2>2, TakenInTime, NoneTooLate
<1>5. CASE ShowPicture
  BY <1>5, TakeTimely DEF ShowPicture
<1> QED
  BY <1>1, <1>2, <1>3, <1>4, <1>5 DEF VideoRefresh

LEMMA TimeTimely ==
    ASSUME Regular, TypeOK, TypeOK', InOrder, Timely, Tick \/ TickLate \/ TickPaused, ~fell'
    PROVE  Timely'
<1>1. CASE Tick
  <2>1. /\ late' = late + 1 /\ age' = age + 1 /\ lead' = (IF vidclk /\ audclk THEN lead - 1 ELSE lead)
        /\ refresh = "sleep" /\ refresh' = "due" /\ ~paused /\ paused' = paused
        /\ Len(pictq) = FrameCap
        /\ UNCHANGED <<pictq, last, drift, vidclk, audclk, fell, dropped>>
    BY <1>1 DEF Tick, Prompt, Pass, control
  <2>2. pictq # <<>>
    BY <2>1, ConstantTypes, EmptySeq
  <2>3. late \in Int /\ age \in Nat /\ lead \in Int /\ drift \in Int
    BY DEF TypeOK
  <2>4. vidclk /\ audclk => Diff' = Diff
    BY <2>1, <2>3 DEF Diff
  <2>5. Delay' = Delay /\ Delay \in Int
    <3>1. LastDuration' = LastDuration
      BY <2>1 DEF LastDuration
    <3>2. CASE vidclk /\ audclk
      BY <2>1, <2>2, <2>4, <3>1, <3>2, DelayType DEF Delay, compute_target_delay, InRange
    <3>3. CASE ~(vidclk /\ audclk)
      BY <2>1, <2>2, <3>1, <3>3, DelayType DEF Delay, compute_target_delay
    <3> QED
      BY <3>2, <3>3
  <2>6. ASSUME vidclk PROVE InTime'
    <3>1. late = age /\ (audclk => Diff >= 0) /\ late < Delay
      BY <2>1, <2>2, <2>6 DEF Timely, Steady, InTime
    <3>2. late' = age' /\ late' <= Delay'
      BY <2>1, <2>3, <2>5, <3>1
    <3> QED
      BY <2>1, <2>2, <2>4, <2>6, <3>1, <3>2 DEF InTime
  <2>7. /\ ~dropped /\ drift = 0 /\ last # "untimed"
        /\ last = "none" => late > SyncMax + Duration
    BY <2>1 DEF Timely
  <2>8. last = "none" => late' > SyncMax + Duration
    BY <2>1, <2>3, <2>7, ConstantTypes
  <2> QED
    BY <2>1, <2>6, <2>7, <2>8 DEF Timely
<1>2. CASE TickLate
  BY <1>2 DEF TickLate, Jolt
<1>3. CASE TickPaused
  <2>1. /\ late' = late + 1 /\ age' = age + 1 /\ paused' = paused /\ paused
        /\ ~fell /\ UNCHANGED <<last, drift, dropped>>
    BY <1>3 DEF TickPaused, Pass, control
  <2>2. ~Steady'
    BY <2>1 DEF Steady, TypeOK
  <2>3. /\ ~dropped /\ drift = 0 /\ last # "untimed"
        /\ last = "none" => late > SyncMax + Duration
    BY <2>1 DEF Timely
  <2>4. last = "none" => late' > SyncMax + Duration
    BY <2>1, <2>3, ConstantTypes DEF TypeOK
  <2> QED
    BY <2>1, <2>2, <2>3, <2>4 DEF Timely
<1> QED
  BY <1>1, <1>2, <1>3

LEMMA SoundTimely ==
    ASSUME Regular, TypeOK, TypeOK', InOrder, Timely, AudioJump \/ AudioStart, ~fell'
    PROVE  Timely'
<1>1. AudioStart
  BY DEF AudioJump, Jolt
<1>2. /\ ~audclk /\ ~paused /\ audclk' = TRUE
      /\ UNCHANGED <<pictq, last, late, age, drift, vidclk, paused, refresh, dropped>>
  BY <1>1 DEF AudioStart, control
<1>3. ~fell
  BY <1>1 DEF AudioStart
<1>4. /\ ~dropped /\ drift = 0 /\ last # "untimed"
      /\ last = "none" => late > SyncMax + Duration
  BY <1>3 DEF Timely
<1>5. ASSUME vidclk PROVE InTime'
  <2>1. InTime /\ last = "timed"
    BY <1>2, <1>3, <1>5 DEF Timely, Steady, InOrder
  <2>2. PICK diff \in Leads : lead' = diff - drift - age /\ fell' = (fell \/ diff < 0)
    BY <1>1, <1>5 DEF AudioStart
  <2>6. ~(diff < 0)
    BY <2>2, Zenon
  <2>7. Diff' = lead' + drift' + age'
    BY DEF Diff
  <2>3. Diff' = diff /\ diff \in Nat
    BY <1>2, <2>2, <2>6, <2>7, ConstantTypes DEF TypeOK
  <2>4. ASSUME pictq # <<>> PROVE Delay <= Delay' /\ Delay \in Int /\ Delay' \in Int
    <3>1. Delay = LastDuration /\ LastDuration' = LastDuration
      BY <1>2 DEF Delay, compute_target_delay, LastDuration
    <3>2. LastDuration' <= Delay' /\ Delay' \in Nat
      BY <1>2, <2>1, <2>3, <2>4, DelayBoundedNext DEF DelayBounds
    <3> QED
      BY <2>4, <3>1, <3>2, DelayType
  <2>5. /\ pictq # <<>> => late' <= Delay'
        /\ pictq # <<>> /\ refresh = "sleep" => late' < Delay'
    BY <1>2, <2>1, <2>4 DEF InTime, TypeOK
  <2> QED
    BY <1>2, <2>1, <2>3, <2>5 DEF InTime
<1> QED
  BY <1>2, <1>3, <1>4, <1>5 DEF Timely

LEMMA QueueTimely ==
    ASSUME Regular, TypeOK, TypeOK', InOrder, Timely, QueuePicture, ~fell'
    PROVE  Timely'
<1>1. /\ UNCHANGED <<last, late, age, lead, drift, vidclk, audclk, paused, refresh, fell, dropped>>
  BY DEF QueuePicture, PutPicture, clocks, control
<1>0. PutPicture
  BY DEF QueuePicture
<1>2. PICK p \in Pictures : /\ pictq' = Append(pictq, p)
                            /\ p.current \/ behind
                            /\ untimed' \in 0..MaxUntimed
  BY <1>0, PutOne
<1>3. pictq \in Seq(Pictures)
  BY DEF TypeOK, Pictures
<1>4. pictq' # <<>> /\ (pictq # <<>> => Head(pictq') = Head(pictq))
  BY <1>2, <1>3, AppendProperties, HeadTailAppend
<1>5. Diff' = Diff
  BY <1>1 DEF Diff
<1>6. ASSUME Steady, vidclk PROVE InTime'
  <2>1. InTime /\ last = "timed"
    BY <1>6 DEF Timely, InOrder, Steady
  <2>2. CASE pictq = <<>>
    <3>1. late' = 0
      BY <1>1, <2>1, <2>2 DEF InTime
    <3>2. Delay' \in Nat /\ LastDuration' >= 1 /\ LastDuration' <= Delay' /\ LastDuration' \in Nat
      BY <1>1, <1>4, <1>5, <2>1, DelayBoundedNext DEF DelayBounds, InTime
    <3> QED
      BY <1>1, <1>4, <1>5, <2>1, <3>1, <3>2 DEF InTime
  <2>3. CASE pictq # <<>>
    <3>1. Delay' = Delay
      BY <1>1, <1>4, <1>5, <2>1, <2>3 DEF Delay, compute_target_delay, LastDuration, InRange
    <3> QED
      BY <1>1, <1>4, <1>5, <2>1, <2>3, <3>1 DEF InTime
  <2> QED
    BY <2>2, <2>3
<1> QED
  BY <1>1, <1>6 DEF Timely, Steady

\* A resume changes nothing unless time has passed since vidclk was set.
LEMMA ResumeTimely ==
    ASSUME TypeOK, NEW known \in BOOLEAN, Resume(known), age = 0, drift = 0
    PROVE  late' = late /\ age' = age /\ drift' = drift /\ paused' = FALSE
<1>1. late' = late /\ age' = age /\ paused' = FALSE
  BY DEF Resume, TypeOK
<1>2. CASE ~known
  BY <1>1, <1>2 DEF Resume
<1>3. CASE known /\ enosys
  BY <1>1, <1>3 DEF Resume
<1>4. CASE known /\ ~enosys
  BY <1>1, <1>4 DEF Resume
<1> QED
  BY <1>2, <1>3, <1>4

LEMMA TimelySame ==
    ASSUME Timely, UNCHANGED <<pictq, last, late, age, lead, drift, vidclk, audclk, dropped>>,
           ~fell, Steady' => Steady,
           refresh' = refresh \/ refresh' = "due"
    PROVE  Timely'
<1>1. Diff' = Diff /\ Delay' = Delay
  BY DEF Diff, Delay, compute_target_delay, LastDuration, InRange
<1>2. InTime => InTime'
  BY <1>1 DEF InTime
<1> QED
  BY <1>2 DEF Timely

LEMMA KeyTimely ==
    ASSUME TypeOK, InOrder, Timely, TogglePause \/ StepKey \/ Expose \/ ReadPause \/ Seek, ~fell'
    PROVE  Timely'
<1>1. ~fell
  BY DEF TogglePause, StepKey, Expose, ReadPause, Seek, bounds
<1>2. ASSUME TogglePause \/ StepKey \/ Seek, paused PROVE age = 0
  <2>1. ~(age > 0)
    BY <1>2, Zenon DEF TogglePause, StepKey, Seek
  <2> QED
    BY <2>1 DEF TypeOK
<1>7. drift = 0 /\ vidclk \in BOOLEAN
  BY <1>1 DEF Timely, TypeOK
<1>3. CASE TogglePause
  <2>1. late' = late /\ age' = age /\ drift' = drift /\ (Steady' => Steady)
    <3>1. CASE paused
      BY <1>1, <1>2, <1>3, <1>7, <3>1, ResumeTimely DEF TogglePause, Steady
    <3>2. CASE ~paused
      BY <1>1, <1>3, <3>2 DEF TogglePause, Pause, Steady
    <3> QED
      BY <3>1, <3>2
  <2>2. UNCHANGED <<pictq, last, lead, vidclk, audclk, dropped, refresh>>
    BY <1>3 DEF TogglePause
  <2> QED
    BY <1>1, <2>1, <2>2, TimelySame
<1>4. CASE StepKey
  <2>1. late' = late /\ age' = age /\ drift' = drift /\ (Steady' => Steady)
    <3>1. CASE paused
      BY <1>1, <1>2, <1>4, <1>7, <3>1, ResumeTimely DEF StepKey, step_to_next_frame, Steady
    <3>2. CASE ~paused
      BY <1>1, <1>4, <3>2 DEF StepKey, step_to_next_frame, Steady
    <3> QED
      BY <3>1, <3>2
  <2>2. UNCHANGED <<pictq, last, lead, vidclk, audclk, dropped, refresh>>
    BY <1>4 DEF StepKey
  <2> QED
    BY <1>1, <2>1, <2>2, TimelySame
<1>5. CASE Expose \/ ReadPause
  BY <1>1, <1>5, TimelySame DEF Expose, ReadPause, clocks, control, bounds, Steady
<1>6. CASE Seek
  <2>1. late' = late /\ drift' = drift
    <3>1. CASE paused
      BY <1>2, <1>6, <1>7, <3>1, ResumeTimely DEF Seek, step_to_next_frame
    <3>2. CASE ~paused
      BY <1>6, <1>7, <3>2 DEF Seek
    <3> QED
      BY <3>1, <3>2
  <2>2. /\ ~vidclk' /\ (last' = "none" => last = "none") /\ last' # "untimed"
        /\ dropped' = dropped
    BY <1>6 DEF Seek
  <2> QED
    BY <1>1, <2>1, <2>2 DEF Timely
<1> QED
  BY <1>3, <1>4, <1>5, <1>6

LEMMA NextTimely ==
    ASSUME Regular, TypeOK, TypeOK', InOrder, InOrder', Timely, [Next]_vars
    PROVE  Timely'
<1> SUFFICES ASSUME ~fell' PROVE Timely'
  BY DEF Timely, Steady
<1>1. CASE VideoRefresh
  BY <1>1, RefreshTimely
<1>2. CASE Tick \/ TickLate \/ TickPaused
  BY <1>2, TimeTimely
<1>3. CASE AudioJump \/ AudioStart
  BY <1>3, SoundTimely
<1>4. CASE QueuePicture
  BY <1>4, QueueTimely
<1>5. CASE TogglePause \/ StepKey \/ Expose \/ ReadPause \/ Seek
  BY <1>5, KeyTimely
<1>6. CASE UNCHANGED vars
  BY <1>6, TimelySame DEF vars, clocks, control, bounds, Steady
<1> QED
  BY <1>1, <1>2, <1>3, <1>4, <1>5, <1>6 DEF Next

LEMMA InitTimely == Init => InOrder /\ Timely
<1> SUFFICES ASSUME Init PROVE InOrder /\ Timely
  OBVIOUS
<1>1. /\ pictq = <<>> /\ last = "none" /\ ~vidclk /\ drift = 0 /\ ~dropped
      /\ late = SyncMax + Duration + 1
  BY DEF Init
<1>2. Len(pictq) = 0
  BY <1>1, EmptySeq
<1>3. late > SyncMax + Duration
  BY <1>1, ConstantTypes
<1> QED
  BY <1>1, <1>2, <1>3 DEF InOrder, Timely

-----------------------------------------------------------------------------
(* Theorems                                                                *)

LEMMA Invariant == Spec => []IInv
<1> QED
  BY InitInv, NextInv, PTL DEF Spec

\* The variables keep their types, for all thresholds and queue sizes.
THEOREM TypeCorrect == Spec => []TypeOK
<1>1. IInv => TypeOK
  BY DEF IInv
<1> QED
  BY <1>1, Invariant, PTL

\* frame_timer is not in the future while the picture on the screen is of the serial that
\* plays and has a time stamp: what came before, untimed pictures too, does not matter.
THEOREM TimerNotAhead == Spec => []NeverFrozen
BY Invariant, FrozenNever, PTL

\* The pictures never swing past the sound: shown in time and with a time stamp, each one
\* leaves a difference between the one before and none, however the thresholds are chosen
\* as long as AV_SYNC_FRAMEDUP_THRESHOLD is not above AV_SYNC_THRESHOLD_MAX.
THEOREM CorrectionConverges == Spec => NoOvershoot
<1>1. ASSUME IInv, TakePicture, vidclk, audclk, InRange, last = "timed", Head(pictq).timed,
             drift = 0, late = age, late = Delay,
             vp_duration(TRUE, Head(pictq)) = Head(pictq).gap
      PROVE  \/ 0 <= Diff' /\ Diff' <= Diff
             \/ Diff <= Diff' /\ Diff' <= 0
  <2>1. /\ TypeOK /\ pictq # <<>>
        /\ age' = 0 /\ drift' = 0 /\ lead' = lead + Head(pictq).gap
    BY <1>1 DEF IInv, TakePicture, Current, update_video_pts
  <2>2. LastDuration = Head(pictq).gap /\ Head(pictq).gap \in Nat
    BY <1>1, <2>1, DelayType DEF LastDuration
  <2>3. Delay = Corrected(Head(pictq).gap, Diff)
    BY <1>1, <2>2 DEF Delay, compute_target_delay
  <2>4. Diff \in Int /\ lead \in Int /\ age \in Int
    BY <2>1, DelayType DEF TypeOK
  <2>5. Diff = lead + age /\ Diff' = lead + Head(pictq).gap
    BY <1>1, <2>1, <2>2, <2>4 DEF Diff, TypeOK
  <2>6. Diff' = Diff - (Corrected(Head(pictq).gap, Diff) - Head(pictq).gap)
    BY <1>1, <2>2, <2>3, <2>4, <2>5
  <2>7. Corrected(Head(pictq).gap, Diff) \in Int
    BY <2>2, <2>4, CorrectedType
  <2> DEFINE delay == Head(pictq).gap
             taken == Corrected(delay, Diff)
  <2>8. \/ delay <= taken /\ taken <= delay + Diff
        \/ delay + Diff <= taken /\ taken <= delay
    BY <2>2, <2>4, CorrectedTowards
  <2>9. delay \in Nat /\ taken \in Int /\ Diff' = Diff - (taken - delay)
    BY <2>2, <2>6, <2>7
  <2> HIDE DEF delay, taken
  <2> QED
    BY <2>4, <2>8, <2>9
<1>2. IInv /\ [Next]_vars
      => [ /\ TakePicture
           /\ vidclk /\ audclk /\ InRange
           /\ last = "timed" /\ Head(pictq).timed
           /\ drift = 0
           /\ late = age
           /\ late = Delay
           /\ vp_duration(TRUE, Head(pictq)) = Head(pictq).gap
           => \/ 0 <= Diff' /\ Diff' <= Diff
              \/ Diff <= Diff' /\ Diff' <= 0 ]_vars
  BY <1>1
<1> QED
  BY <1>2, Invariant, PTL DEF Spec, NoOvershoot

\* A picture is dropped only if something fell behind: time passed a busy thread, the sound
\* jumped or went on in a pause, a start had the pictures behind the sound, part of a pause
\* counts after a resume, or a picture had no time stamp.  It needs time stamps that go up,
\* and a nominal duration: with none (no frame rate) frame_timer is not set at the first
\* picture.
THEOREM NoneDroppedInTime == ASSUME Regular PROVE Spec => []DropsOnlyBehind
<1> DEFINE Inv == TypeOK /\ InOrder /\ Timely
<1>1. Init => Inv
  BY InitInv, InitTimely DEF IInv
<1>2. IInv /\ IInv' /\ Inv /\ [Next]_vars => Inv'
  BY NextInOrder, NextTimely DEF IInv
<1>3. Inv => DropsOnlyBehind
  BY DEF Timely, DropsOnlyBehind
<1> HIDE DEF Inv
<1> QED
  BY <1>1, <1>2, <1>3, Invariant, PTL DEF Spec
=============================================================================
