------------------------------- MODULE AvSync -------------------------------
(***************************************************************************)
(* The timing of the pictures: video_refresh, the clocks it reads and sets, *)
(* and what pause, step and seek do to them, with the sound as the master.  *)
(*                                                                         *)
(* Nothing in this part of the program depends on absolute time, so the     *)
(* model keeps differences only: how long ago frame_timer was and           *)
(* vidclk.last_updated, and how far the pictures are from the sound.  Time  *)
(* is counted in ticks, the longest that refresh_loop_wait_event sleeps.    *)
(***************************************************************************)
EXTENDS Integers, Sequences

CONSTANTS
    SyncMin,          \* AV_SYNC_THRESHOLD_MIN
    SyncMax,          \* AV_SYNC_THRESHOLD_MAX
    DupThreshold,     \* AV_SYNC_FRAMEDUP_THRESHOLD
    MaxFrameDuration, \* max_frame_duration
    Duration,         \* the nominal duration of a picture
    Gaps,             \* distances between the time stamps of successive pictures
    FrameCap,         \* pictures that can wait beside the one on the screen
    Leads,            \* how far the first picture and the first sound can be apart
    Refuses,          \* the demuxer cannot pause (AVERROR(ENOSYS))
    MaxJolts,         \* how often time passes a busy thread, or the sound jumps
    MaxKeys,          \* how often the user pauses or steps
    MaxSeeks,         \* how often the user seeks
    MaxUntimed        \* how many pictures come without a time stamp

ASSUME SyncAssumption ==
    /\ {SyncMin, SyncMax, DupThreshold, MaxFrameDuration, Duration} \subseteq Nat
    /\ SyncMin <= SyncMax
    /\ DupThreshold <= SyncMax
    /\ Gaps \subseteq Int
    /\ FrameCap \in Nat \ {0}
    /\ Leads \subseteq Int
    /\ Refuses \in BOOLEAN
    /\ {MaxJolts, MaxKeys, MaxSeeks, MaxUntimed} \subseteq Nat

VARIABLES
    pictq,    \* the pictures that wait; current: of the serial of videoq
    last,     \* the picture on the screen, lastvp: none yet, timed, untimed or stale
    late,     \* now - frame_timer
    age,      \* now - vidclk.last_updated
    lead,     \* place of the picture on the screen (its time stamp, if it has one) - audclk,
              \* 0 while vidclk or audclk is unknown
    drift,    \* vidclk.pts - place of the picture on the screen, 0 while vidclk is unknown
    vidclk,   \* vidclk is of the serial of videoq: get_clock is a number
    audclk,   \* the same of audclk
    paused,   \* paused, and the copies of it in the clocks
    step,     \* step
    enosys,   \* read_pause_return = AVERROR(ENOSYS)
    refresh,  \* main thread: sleeps, has to call video_refresh, or is at retry
    behind,   \* the decoder may still hold a picture of an earlier serial
    jolts, keys, seeks, untimed, \* how often these have happened
    fell,     \* history: the pictures had a reason to fall behind
    dropped   \* history: a picture was dropped late

clocks == <<late, age, lead, drift, vidclk, audclk>>
control == <<paused, step, enosys>>
bounds == <<jolts, keys, seeks, untimed, fell>>
vars == <<pictq, last, clocks, control, refresh, behind, bounds, dropped>>

Larger(a, b)  == IF a > b THEN a ELSE b
Smaller(a, b) == IF a < b THEN a ELSE b

-----------------------------------------------------------------------------
(* How long the picture on the screen has to stay.                         *)

\* sync_threshold: the difference that is corrected.
Threshold(delay) == Larger(SyncMin, Smaller(SyncMax, delay))

\* Mutants: all of a delay is left out at once; the pictures are never held back.
Corrected_AtOnce(delay, diff) ==
    IF diff <= -Threshold(delay) THEN 0
    ELSE IF diff >= Threshold(delay)
         THEN IF delay > DupThreshold THEN delay + diff ELSE 2 * delay
         ELSE delay

Corrected_NeverHeld(delay, diff) ==
    IF diff <= -Threshold(delay) THEN Larger(0, delay + diff) ELSE delay

\* The delay when the pictures are ahead of the sound by diff, known.
Corrected(delay, diff) ==
    IF diff <= -Threshold(delay) THEN Larger(0, delay + diff)
    ELSE IF diff >= Threshold(delay)
         THEN IF delay > DupThreshold THEN delay + diff ELSE 2 * delay
         ELSE delay

\* get_clock(&is->vidclk) - get_master_clock(is), when both are numbers.
Diff == lead + drift + age

InRange == -MaxFrameDuration < Diff /\ Diff < MaxFrameDuration

compute_target_delay(delay) ==
    IF vidclk /\ audclk /\ InRange
    THEN Corrected(delay, Diff)
    ELSE delay

\* The distance to a picture of the same serial, when both have a time stamp and the
\* distance makes sense.
vp_duration(timed, nextvp) ==
    IF timed /\ nextvp.timed /\ 0 < nextvp.gap /\ nextvp.gap <= MaxFrameDuration
    THEN nextvp.gap
    ELSE Duration

\* Before the first picture, peek_last and peek give the same one.
LastDuration ==
    CASE last = "none"  -> Duration
      [] last = "stale" -> 0
      [] OTHER          -> vp_duration(last = "timed", Head(pictq))

\* Mutant: frame_timer is not reset.
Elapsed_NoReset == late

\* now - frame_timer, after the reset at a new serial.
Elapsed == IF last = "stale" THEN 0 ELSE late

Delay == compute_target_delay(LastDuration)

\* now - frame_timer once the next picture is taken.
Remainder ==
    LET rest == Elapsed - Delay
    IN  IF Delay > 0 /\ rest > SyncMax THEN 0 ELSE rest

-----------------------------------------------------------------------------
(* video_refresh                                                           *)

Refreshing == refresh \in {"due", "retry"}

\* There is no picture to show.
NoPicture ==
    /\ Refreshing
    /\ pictq = <<>>
    /\ refresh' = "sleep"
    /\ UNCHANGED <<pictq, last, clocks, control, behind, bounds, dropped>>

\* A picture of an earlier serial is skipped.
SkipStale ==
    /\ Refreshing
    /\ pictq # <<>>
    /\ ~Head(pictq).current
    /\ pictq' = Tail(pictq)
    /\ last' = "stale"
    /\ refresh' = "retry"
    /\ UNCHANGED <<clocks, control, behind, bounds, dropped>>

Current == pictq # <<>> /\ Head(pictq).current

\* Mutant: frame_timer is advanced before the comparison.
KeepShowing_Advances ==
    /\ Refreshing
    /\ Current
    /\ paused \/ Elapsed < Delay
    /\ late' = IF paused THEN Elapsed ELSE Elapsed - Delay
    /\ refresh' = "sleep"
    /\ UNCHANGED <<pictq, last, age, lead, drift, vidclk, audclk, control, behind,
                   bounds, dropped>>

\* The picture on the screen stays: the player is paused, or it is too early.
KeepShowing ==
    /\ Refreshing
    /\ Current
    /\ paused \/ Elapsed < Delay
    /\ late' = Elapsed
    /\ refresh' = "sleep"
    /\ UNCHANGED <<pictq, last, age, lead, drift, vidclk, audclk, control, behind,
                   bounds, dropped>>

\* update_video_pts: vidclk takes the time stamp of the picture.
update_video_pts ==
    /\ vidclk' = TRUE
    /\ age' = 0
    /\ drift' = 0
    /\ CASE ~audclk          -> lead' = 0 /\ fell' = fell
         [] audclk /\ vidclk -> lead' = lead + Head(pictq).gap /\ fell' = fell
         [] OTHER            -> /\ lead' \in Leads
                                /\ fell' = (fell \/ lead' < 0)

\* A picture without a time stamp leaves vidclk alone, which goes on from where it was.
ClockGoesOn ==
    /\ UNCHANGED <<vidclk, age>>
    /\ drift' = IF vidclk THEN drift - Head(pictq).gap ELSE drift
    /\ lead' = IF vidclk /\ audclk THEN lead + Head(pictq).gap ELSE lead
    /\ fell' = TRUE

\* The time of the next picture has come.
TakePicture ==
    /\ Refreshing
    /\ Current
    /\ ~paused
    /\ Elapsed >= Delay
    /\ late' = Remainder
    /\ IF Head(pictq).timed THEN update_video_pts ELSE ClockGoesOn
    /\ pictq' = Tail(pictq)
    /\ last' = IF Head(pictq).timed THEN "timed" ELSE "untimed"
    /\ UNCHANGED <<audclk, enosys, behind, jolts, keys, seeks, untimed>>

\* The picture after it is due as well.
TooLate ==
    /\ Len(pictq) > 1
    /\ ~step
    /\ Remainder > IF pictq[2].current THEN vp_duration(Head(pictq).timed, pictq[2]) ELSE 0

\* The picture is dropped and video_refresh goes back to retry.
DropLate ==
    /\ TooLate
    /\ TakePicture
    /\ dropped' = TRUE
    /\ refresh' = "retry"
    /\ UNCHANGED <<paused, step>>

\* The picture is shown; a step ends in a pause.
ShowPicture ==
    /\ ~TooLate
    /\ TakePicture
    /\ paused' = step
    /\ refresh' = "sleep"
    /\ UNCHANGED <<step, dropped>>

-----------------------------------------------------------------------------
(* Time, the decoder and the sound                                         *)

\* Time passes; the sound goes on by as much unless it is paused.
Pass(heard) ==
    /\ late' = late + 1
    /\ age' = age + 1
    /\ lead' = IF vidclk /\ audclk THEN lead - heard ELSE lead
    /\ refresh' = IF refresh = "sleep" /\ ~paused THEN "due" ELSE refresh
    /\ UNCHANGED <<pictq, last, drift, vidclk, audclk, control, behind,
                   keys, seeks, untimed, dropped>>

Prompt == refresh = "sleep" /\ Len(pictq) = FrameCap

\* The refresh loop was back in time and the decoder has filled the queue.
Tick ==
    /\ Prompt
    /\ ~paused
    /\ Pass(1)
    /\ UNCHANGED <<jolts, fell>>

Jolt ==
    /\ jolts < MaxJolts
    /\ jolts' = jolts + 1
    /\ fell' = TRUE

\* Time passes a slow decoder or a slow refresh.
TickLate ==
    /\ Jolt
    /\ ~Prompt
    /\ ~paused
    /\ Pass(1)

\* Time passes in a pause; of the sound, at most what is in the buffer is heard.
TickPaused ==
    /\ paused
    /\ \E heard \in {0, 1} :
        /\ Pass(heard)
        /\ jolts < MaxJolts
        /\ jolts' = jolts + 1
        /\ fell' = (fell \/ heard = 1)

\* The callback sets audclk, not quite to where it had run on.
AudioJump ==
    /\ Jolt
    /\ audclk
    /\ ~paused
    /\ \E jump \in {-1, 1} : lead' = IF vidclk THEN lead + jump ELSE lead
    /\ UNCHANGED <<pictq, last, late, age, drift, vidclk, audclk, control, refresh, behind,
                   keys, seeks, untimed, dropped>>

\* The callback has the first sound of the serial.
AudioStart ==
    /\ ~audclk
    /\ ~paused
    /\ audclk' = TRUE
    /\ IF vidclk THEN \E diff \in Leads : /\ lead' = diff - drift - age
                                         /\ fell' = (fell \/ diff < 0)
                 ELSE UNCHANGED <<lead, fell>>
    /\ UNCHANGED <<pictq, last, late, age, drift, vidclk, control, refresh, behind,
                   jolts, keys, seeks, untimed, dropped>>

\* A picture of an earlier serial: nothing else of it is looked at.
StalePicture == [gap |-> Duration, timed |-> TRUE, current |-> FALSE]

\* The decoder puts a picture into the queue, the first after a seek perhaps an old one.
PutPicture ==
    /\ \/ \E gap \in Gaps, timed \in BOOLEAN :
            /\ timed \/ untimed < MaxUntimed
            /\ pictq' = Append(pictq, [gap |-> gap, timed |-> timed, current |-> TRUE])
            /\ untimed' = IF timed THEN untimed ELSE untimed + 1
       \/ /\ behind
          /\ pictq' = Append(pictq, StalePicture)
          /\ untimed' = untimed
    /\ behind' = FALSE
    /\ UNCHANGED <<last, clocks, control, refresh, jolts, keys, seeks, fell, dropped>>

\* Mutant: one picture too many.
QueuePicture_OneMore == Len(pictq) <= FrameCap /\ PutPicture

\* queue_picture: there is room.
QueuePicture == Len(pictq) < FrameCap /\ PutPicture

-----------------------------------------------------------------------------
(* The user and read_thread                                                *)

\* stream_toggle_pause in a pause: vidclk, if it is known, takes what get_clock gives.
Resume(known) ==
    /\ paused' = FALSE
    /\ late' = late - age
    /\ drift' = CASE ~known          -> 0
                 [] known /\ enosys -> drift
                 [] OTHER           -> drift + age
    /\ age' = 0

\* stream_toggle_pause while playing.
Pause ==
    /\ paused' = TRUE
    /\ UNCHANGED <<late, drift, age>>

\* toggle_pause
TogglePause ==
    /\ refresh # "retry"
    /\ IF paused THEN Resume(vidclk) /\ keys' = keys
                 ELSE Pause /\ keys < MaxKeys /\ keys' = keys + 1
    /\ step' = FALSE
    /\ fell' = (fell \/ (paused /\ age > 0))
    /\ UNCHANGED <<pictq, last, lead, vidclk, audclk, enosys, refresh, behind, jolts, seeks,
                   untimed, dropped>>

step_to_next_frame(known) ==
    /\ IF paused THEN Resume(known) ELSE UNCHANGED <<paused, late, drift, age>>
    /\ step' = TRUE

StepKey ==
    /\ refresh # "retry"
    /\ keys < MaxKeys
    /\ keys' = keys + 1
    /\ step_to_next_frame(vidclk)
    /\ fell' = (fell \/ (paused /\ age > 0))
    /\ UNCHANGED <<pictq, last, lead, vidclk, audclk, enosys, refresh, behind, jolts, seeks,
                   untimed, dropped>>

\* The window has to be painted again: video_refresh although paused.
Expose ==
    /\ paused
    /\ refresh = "sleep"
    /\ refresh' = "due"
    /\ UNCHANGED <<pictq, last, clocks, control, behind, bounds, dropped>>

\* read_thread has noticed the pause and told the demuxer.
ReadPause ==
    /\ paused
    /\ Refuses
    /\ ~enosys
    /\ enosys' = TRUE
    /\ UNCHANGED <<pictq, last, clocks, paused, step, refresh, behind, bounds, dropped>>

\* read_thread seeks: new serials, and a step if the player is paused.
Seek ==
    /\ seeks < MaxSeeks
    /\ seeks' = seeks + 1
    /\ pictq' = [i \in 1..Len(pictq) |-> StalePicture]
    /\ last' = IF last = "none" THEN "none" ELSE "stale"
    /\ behind' = TRUE
    /\ vidclk' = FALSE
    /\ audclk' = FALSE
    /\ lead' = 0
    /\ IF paused THEN step_to_next_frame(FALSE)
                 ELSE drift' = 0 /\ UNCHANGED <<paused, step, late, age>>
    /\ fell' = (fell \/ (paused /\ age > 0))
    /\ UNCHANGED <<enosys, refresh, jolts, keys, untimed, dropped>>

-----------------------------------------------------------------------------
Init ==
    /\ pictq = <<>>
    /\ last = "none"
    /\ late = SyncMax + Duration + 1     \* frame_timer is 0
    /\ age = 0
    /\ lead = 0
    /\ drift = 0
    /\ vidclk = FALSE
    /\ audclk = FALSE
    /\ paused = FALSE
    /\ step = FALSE
    /\ enosys = FALSE
    /\ refresh = "due"
    /\ behind = FALSE
    /\ jolts = 0
    /\ keys = 0
    /\ seeks = 0
    /\ untimed = 0
    /\ fell = FALSE
    /\ dropped = FALSE

VideoRefresh == NoPicture \/ SkipStale \/ KeepShowing \/ DropLate \/ ShowPicture

Next ==
    \/ VideoRefresh
    \/ Tick \/ TickLate \/ TickPaused
    \/ AudioJump \/ AudioStart
    \/ QueuePicture
    \/ TogglePause \/ StepKey \/ Expose
    \/ ReadPause \/ Seek

Spec == Init /\ [][Next]_vars

\* The refresh loop comes back, time passes, the decoder and the device go on.
FairSpec ==
    /\ Spec
    /\ WF_vars(VideoRefresh)
    /\ WF_vars(Tick)
    /\ WF_vars(QueuePicture)
    /\ WF_vars(AudioStart)

-----------------------------------------------------------------------------
(* Properties *)

\* The variables have their types; no more pictures wait than the queue holds.
TypeOK ==
    /\ pictq \in Seq([gap : Gaps \cup {Duration}, timed : BOOLEAN, current : BOOLEAN])
    /\ Len(pictq) <= FrameCap
    /\ last \in {"none", "timed", "untimed", "stale"}
    /\ late \in Int
    /\ age \in Nat
    /\ lead \in Int
    /\ drift \in Int
    /\ vidclk \in BOOLEAN /\ audclk \in BOOLEAN
    /\ paused \in BOOLEAN /\ step \in BOOLEAN /\ enosys \in BOOLEAN
    /\ behind \in BOOLEAN /\ fell \in BOOLEAN /\ dropped \in BOOLEAN
    /\ refresh \in {"sleep", "due", "retry"}
    /\ jolts \in 0..MaxJolts
    /\ keys \in 0..MaxKeys
    /\ seeks \in 0..MaxSeeks
    /\ untimed \in 0..MaxUntimed

\* frame_timer is not in the future, or a picture would stay for as long: what a resume
\* adds to it (1672) is the length of the pause by another clock, vidclk, and what
\* video_refresh adds (1874) is less than the time that has passed.  The exception is a
\* picture without a time stamp, for which video_refresh advances frame_timer and leaves
\* vidclk alone (1879): resumed on it, the player adds a time longer than frame_timer is
\* old.  With the next picture that is over, and a seek that leaves the picture stale
\* resets frame_timer before it is used (1845).
NeverFrozen == late >= 0 \/ last \in {"untimed", "stale"}

\* A picture is dropped (1893) only if there is a reason: time passed a busy thread, the
\* sound jumped or went on in a pause, a start had the pictures behind the sound, a resume
\* came so late that part of the pause counts, or a picture had no time stamp, so that one
\* difference was corrected for both it and the next.  Never because of a seek, a step or
\* a picture's own duration.
DropsOnlyBehind == dropped => fell

\* The correction of compute_target_delay brings the pictures nearer to the sound but
\* never past it: a picture shown in time, after one shown in time, both with time stamps,
\* changes the difference towards zero.  So the pictures do not swing about the sound.
NoOvershoot ==
    [][ /\ TakePicture
        /\ vidclk /\ audclk /\ InRange
        /\ last = "timed" /\ Head(pictq).timed
        /\ drift = 0
        /\ late = age
        /\ late = Delay
        /\ vp_duration(TRUE, Head(pictq)) = Head(pictq).gap
        => \/ 0 <= Diff' /\ Diff' <= Diff
           \/ Diff <= Diff' /\ Diff' <= 0 ]_vars

\* Sound and pictures come together: if in the end the player plays and the difference
\* is one that is corrected at all (less than max_frame_duration), then it gets below
\* the largest threshold and stays there, whatever pauses, seeks, delays and
\* pictures without a time stamp came before.
InSync == vidclk /\ audclk /\ -SyncMax < Diff /\ Diff < SyncMax

Converges == <>[](~paused /\ InRange) => <>[]InSync
=============================================================================
