------------------------------ MODULE AudioOut ------------------------------
(***************************************************************************)
(* The audio callback: sdl_audio_callback fills the device's buffer from    *)
(* audio_buf, audio_decode_frame takes the next frame when that is used     *)
(* up, synchronize_audio stretches it, and set_clock_at tells the other     *)
(* threads, which hold no lock, how far the sound has come.                 *)
(*                                                                         *)
(* Amounts are samples, and positions in the file are counted in samples    *)
(* too.  A value of a clock carries the serial it belongs to as history.    *)
(* The ring behind sampq is the subject of FrameQueue; as in the program's  *)
(* build for Windows, the callback polls it.                                *)
(***************************************************************************)
EXTENDS Integers, Sequences

CONSTANTS
    Nb,          \* nb_samples of a frame
    HwBuf,       \* audio_hw_buf_size, and the len of each callback
    Silence,     \* SDL_AUDIO_MIN_BUFFER_SIZE
    QueueCap,    \* SAMPLE_QUEUE_SIZE
    AudioMaster, \* the sound is the master clock
    Untimed,     \* the frames of the file without a time stamp
    AvgNb,       \* AUDIO_DIFF_AVG_NB
    MaxFrames,   \* frames decoded of one serial
    MaxSerial,   \* the first serial and the seeks
    MaxToggles   \* how often the user pauses or resumes

ASSUME AudioAssumption ==
    /\ Nb \in Nat \ {0}
    /\ HwBuf \in Nat \ {0}
    /\ Silence \in Nat \ {0}
    /\ QueueCap \in Nat \ {0}
    /\ AudioMaster \in BOOLEAN
    /\ Untimed \subseteq Nat
    /\ AvgNb \in Nat /\ MaxFrames \in Nat /\ MaxSerial \in Nat \ {0} /\ MaxToggles \in Nat

VARIABLES
    serial,      \* audioq.serial
    sampq,       \* the frames that wait
    decoder,     \* of the next frame: serial and number
    paused,      \* paused
    callback,    \* where sdl_audio_callback is
    len,         \* what is still to be delivered
    expired,     \* half of the buffer's time has passed since audio_callback_time
    sounds,      \* audio_buf # NULL
    size,        \* audio_buf_size
    index,       \* audio_buf_index
    audio_clock, \* audio_clock, with audio_clock_serial
    avg,         \* audio_diff_avg_count
    audclk,      \* audclk: its pts, its pts_drift and its serial
    get,         \* the main thread in get_clock: where, what it compared, what it got
    heard,       \* history: the last sound delivered
    taken,       \* history: frames begun of each serial
    begun,       \* history: frames begun since the last toggle
    toggles      \* how often the user has paused or resumed

file   == <<serial, sampq, decoder>>
buffer == <<sounds, size, index>>
played == <<heard, taken, begun>>
vars == <<file, paused, callback, len, expired, buffer, audio_clock, avg, audclk, get,
          played, toggles>>

Serials == 1..MaxSerial
Frames  == [serial : Serials, number : 0..MaxFrames]

Least(a, b) == IF a < b THEN a ELSE b

\* NAN, as set by init_clock
NoValue == [of |-> 0, at |-> 0]

\* av_clip: 10 percent less and 10 percent more
MinNb == (Nb * 90) \div 100
MaxNb == (Nb * 110) \div 100

-----------------------------------------------------------------------------
(* audio_decode_frame                                                      *)

\* No sound: audio_buf is NULL and stands for a short silence.
GiveSilence ==
    /\ sounds' = FALSE
    /\ size' = Silence
    /\ index' = 0
    /\ callback' = "copy"

\* Mutant: paused is looked at no more.
FillBuffer_NoPause ==
    /\ callback = "copy"
    /\ index >= size
    /\ callback' = "wait"
    /\ UNCHANGED <<file, paused, len, expired, buffer, audio_clock, avg, audclk, get,
                   played, toggles>>

\* audio_buf is used up.  A paused player is silent.
FillBuffer ==
    /\ callback = "copy"
    /\ index >= size
    /\ IF paused THEN GiveSilence ELSE callback' = "wait" /\ UNCHANGED buffer
    /\ UNCHANGED <<file, paused, len, expired, audio_clock, avg, audclk, get, played, toggles>>

\* Mutant: the callback waits on.
WaitFrame_ForEver ==
    /\ callback = "wait"
    /\ sampq = <<>>
    /\ expired
    /\ UNCHANGED vars

\* No frame in time.
WaitFrame ==
    /\ callback = "wait"
    /\ sampq = <<>>
    /\ expired
    /\ GiveSilence
    /\ UNCHANGED <<file, paused, len, expired, audio_clock, avg, audclk, get, played, toggles>>

\* A frame of an earlier serial is thrown away; paused is not looked at again.
SkipStale ==
    /\ callback = "wait"
    /\ sampq # <<>>
    /\ Head(sampq).serial # serial
    /\ sampq' = Tail(sampq)
    /\ UNCHANGED <<serial, decoder, paused, callback, len, expired, buffer, audio_clock, avg,
                   audclk, get, played, toggles>>

\* Mutant: of whatever serial the clock is.
Measurable_AnySerial == audclk.serial # 0

\* get_clock(&is->audclk) - get_master_clock(is) is a number.
Measurable == audclk.serial = serial

\* synchronize_audio: sizes that the frame may get, and what happens to the count.
synchronize_audio ==
    \/ /\ AudioMaster
       /\ size' = Nb
       /\ avg' = avg
    \/ /\ ~AudioMaster                        \* the difference is unknown or too large
       /\ size' = Nb
       /\ avg' = 0
    \/ /\ ~AudioMaster
       /\ Measurable
       /\ avg < AvgNb
       /\ size' = Nb
       /\ avg' = avg + 1
    \/ /\ ~AudioMaster
       /\ Measurable
       /\ avg = AvgNb
       /\ size' \in MinNb..MaxNb
       /\ avg' = avg

\* Where a frame ends in the file.
EndOf(frame) == (frame.number + 1) * Nb

TakeFrame ==
    /\ callback = "wait"
    /\ sampq # <<>>
    /\ Head(sampq).serial = serial
    /\ sampq' = Tail(sampq)
    /\ synchronize_audio
    /\ sounds' = TRUE
    /\ index' = 0
    /\ audio_clock' = [known |-> Head(sampq).number \notin Untimed,
                       value |-> [of |-> Head(sampq).serial, at |-> EndOf(Head(sampq))]]
    /\ taken' = [taken EXCEPT ![serial] = @ + 1]
    /\ begun' = begun + 1
    /\ callback' = "copy"
    /\ UNCHANGED <<serial, decoder, paused, len, expired, audclk, get, heard, toggles>>

-----------------------------------------------------------------------------
(* sdl_audio_callback                                                      *)

CallbackBegin ==
    /\ callback = "idle"
    /\ callback' = "copy"
    /\ len' = HwBuf
    /\ expired' = FALSE
    /\ UNCHANGED <<file, paused, buffer, audio_clock, avg, audclk, get, played, toggles>>

\* Mutant: what is missing is not limited by what audio_buf has.
CopyBuffer_Beyond ==
    /\ callback = "copy"
    /\ index < size
    /\ len' = 0
    /\ index' = index + len
    /\ callback' = IF audio_clock.known THEN "set pts" ELSE "idle"
    /\ UNCHANGED <<file, paused, expired, sounds, size, audio_clock, avg, audclk, get,
                   played, toggles>>

\* A part of audio_buf, or all that is left of it, goes to the device.
CopyBuffer ==
    /\ callback = "copy"
    /\ index < size
    /\ LET len1 == Least(size - index, len) IN
        /\ len' = len - len1
        /\ index' = index + len1
        /\ callback' = IF len1 < len THEN "copy"
                       ELSE IF audio_clock.known THEN "set pts" ELSE "idle"
        /\ heard' = IF sounds
                    THEN [of |-> audio_clock.value.of,
                          at |-> audio_clock.value.at - Nb + ((index + len1) * Nb) \div size]
                    ELSE heard
    /\ UNCHANGED <<file, paused, expired, sounds, size, audio_clock, avg, audclk, get,
                   taken, begun, toggles>>

\* Mutant: what is left in audio_buf counts as delivered.
PlayedUpTo_NoRest == [audio_clock.value EXCEPT !.at = @ - 2 * HwBuf]

\* The position of the sound that the device plays, which has two buffers of its own.
PlayedUpTo == [audio_clock.value EXCEPT !.at = @ - (2 * HwBuf + (size - index))]

\* Mutant: serial is stored before pts_drift.
SetPts_SerialFirst ==
    /\ callback = "set pts"
    /\ audclk' = [audclk EXCEPT !.pts = PlayedUpTo, !.serial = audio_clock.value.of]
    /\ callback' = "set drift"
    /\ UNCHANGED <<file, paused, len, expired, buffer, audio_clock, avg, get, played, toggles>>

\* set_clock_at stores one field after the other: pts, pts_drift, serial.
SetPts ==
    /\ callback = "set pts"
    /\ audclk' = [audclk EXCEPT !.pts = PlayedUpTo]
    /\ callback' = "set drift"
    /\ UNCHANGED <<file, paused, len, expired, buffer, audio_clock, avg, get, played, toggles>>

SetDrift ==
    /\ callback = "set drift"
    /\ audclk' = [audclk EXCEPT !.drift = PlayedUpTo]
    /\ callback' = "set serial"
    /\ UNCHANGED <<file, paused, len, expired, buffer, audio_clock, avg, get, played, toggles>>

SetSerial ==
    /\ callback = "set serial"
    /\ audclk' = [audclk EXCEPT !.serial = audio_clock.value.of]
    /\ callback' = "idle"
    /\ UNCHANGED <<file, paused, len, expired, buffer, audio_clock, avg, get, played, toggles>>

\* Half of the time that the device's buffer lasts has passed.
TimePasses ==
    /\ callback # "idle"
    /\ expired' = TRUE
    /\ UNCHANGED <<file, paused, callback, len, buffer, audio_clock, avg, audclk, get, played,
                   toggles>>

-----------------------------------------------------------------------------
(* The other threads                                                       *)

\* get_clock(&is->audclk) reads serial and value one after the other.
GetQueueSerial ==
    /\ get.at = "start"
    /\ get' = [at |-> "compare", compared |-> serial, value |-> NoValue]
    /\ UNCHANGED <<file, paused, callback, len, expired, buffer, audio_clock, avg, audclk,
                   played, toggles>>

GetSerial ==
    /\ get.at = "compare"
    /\ get' = [get EXCEPT !.at = IF audclk.serial = get.compared THEN "read" ELSE "start"]
    /\ UNCHANGED <<file, paused, callback, len, expired, buffer, audio_clock, avg, audclk,
                   played, toggles>>

GetValue ==
    /\ get.at = "read"
    /\ get' = [at |-> "start", compared |-> get.compared,
               value |-> IF paused THEN audclk.pts ELSE audclk.drift]
    /\ UNCHANGED <<file, paused, callback, len, expired, buffer, audio_clock, avg, audclk,
                   played, toggles>>

\* The decoder queues a frame of the serial it is at.
QueueFrame ==
    /\ Len(sampq) < QueueCap
    /\ decoder.number < MaxFrames
    /\ sampq' = Append(sampq, decoder)
    /\ decoder' = [decoder EXCEPT !.number = @ + 1]
    /\ UNCHANGED <<serial, paused, callback, len, expired, buffer, audio_clock, avg, audclk,
                   get, played, toggles>>

\* It gets to the flush packet.
DecoderFlush ==
    /\ decoder.serial # serial
    /\ decoder' = [serial |-> serial, number |-> 0]
    /\ UNCHANGED <<serial, sampq, paused, callback, len, expired, buffer, audio_clock, avg,
                   audclk, get, played, toggles>>

\* read_thread seeks: a flush packet and a new serial.
Seek ==
    /\ serial < MaxSerial
    /\ serial' = serial + 1
    /\ UNCHANGED <<sampq, decoder, paused, callback, len, expired, buffer, audio_clock, avg,
                   audclk, get, played, toggles>>

TogglePause ==
    /\ toggles < MaxToggles
    /\ toggles' = toggles + 1
    /\ paused' = ~paused
    /\ begun' = 0
    /\ UNCHANGED <<file, callback, len, expired, buffer, audio_clock, avg, audclk, get,
                   heard, taken>>

-----------------------------------------------------------------------------
Init ==
    /\ serial = 1
    /\ sampq = <<>>
    /\ decoder = [serial |-> 1, number |-> 0]
    /\ paused = FALSE
    /\ callback = "idle"
    /\ len = 0
    /\ expired = FALSE
    /\ sounds = FALSE
    /\ size = 0
    /\ index = 0
    /\ audio_clock = [known |-> FALSE, value |-> NoValue]
    /\ avg = 0
    /\ audclk = [pts |-> NoValue, drift |-> NoValue, serial |-> 0]
    /\ get = [at |-> "start", compared |-> 0, value |-> NoValue]
    /\ heard = NoValue
    /\ taken = [s \in Serials |-> 0]
    /\ begun = 0
    /\ toggles = 0

Callback ==
    \/ FillBuffer \/ WaitFrame \/ SkipStale \/ TakeFrame
    \/ CopyBuffer
    \/ SetPts \/ SetDrift \/ SetSerial

Next ==
    \/ CallbackBegin \/ Callback \/ TimePasses
    \/ GetQueueSerial \/ GetSerial \/ GetValue
    \/ QueueFrame \/ DecoderFlush
    \/ Seek \/ TogglePause

Spec == Init /\ [][Next]_vars

\* A callback that has begun goes on, and time passes; nothing else has to happen.
FairSpec == Spec /\ WF_vars(Callback) /\ WF_vars(TimePasses)

-----------------------------------------------------------------------------
(* Properties *)

Values == [of : 0..MaxSerial, at : Int]

\* The variables have their types: audio_buf_index stays within audio_buf, len within
\* the device's buffer, and the callback is in a loop only while something is missing.
TypeOK ==
    /\ serial \in Serials
    /\ sampq \in Seq(Frames) /\ Len(sampq) <= QueueCap
    /\ decoder \in [serial : Serials, number : 0..MaxFrames]
    /\ paused \in BOOLEAN /\ expired \in BOOLEAN /\ sounds \in BOOLEAN
    /\ callback \in {"idle", "copy", "wait", "set pts", "set drift", "set serial"}
    /\ len \in 0..HwBuf /\ (callback \in {"copy", "wait"} <=> len > 0)
    /\ size \in Nat /\ index \in 0..size
    /\ audio_clock \in [known : BOOLEAN, value : Values]
    /\ avg \in 0..AvgNb
    /\ audclk \in [pts : Values, drift : Values, serial : 0..MaxSerial]
    /\ get \in [at : {"start", "compare", "read"}, compared : 0..MaxSerial, value : Values]
    /\ heard \in Values
    /\ taken \in [Serials -> Nat] /\ begun \in Nat
    /\ toggles \in 0..MaxToggles

\* After each callback that has a time stamp the clock tells what is heard: of the last
\* sound delivered it is behind by the device's two buffers (2846), never by less, and by
\* no more than a short silence; a stretched frame counts for 10 percent more or less.
\* This through any number of frames, silences, pauses and seeks.
ClockTellsSound ==
    callback = "idle" /\ audio_clock.known /\ audclk.serial # 0 =>
        /\ audclk.serial = heard.of
        /\ audclk.pts.of = heard.of
        /\ audclk.pts.at <= heard.at - 2 * HwBuf + (Nb - MinNb)
        /\ audclk.pts.at >= heard.at - 2 * HwBuf - Silence - (MaxNb - Nb)

\* After a seek the averaging of differences starts anew (2626): no frame is stretched
\* before AUDIO_DIFF_AVG_NB frames of its serial were measured, and the first one never
\* is, since audclk still is of the serial before.
CorrectionRestarts ==
    sounds /\ size # Nb => taken[audio_clock.value.of] > AvgNb + 1

\* A thread that reads the clock while the callback sets it gets no position from before
\* the seek: set_clock_at stores serial last (1559), so what passes the comparison with
\* the serial of the queue (1543) is of that serial or of a later one.
ReadNotOlder == get.at = "start" => get.value.of = 0 \/ get.value.of >= get.compared

\* A pause stops the sound: the callback, which looks at paused once per frame (2649) and
\* may be waiting for one, begins at most one more.
PauseStopsSound == paused => begun <= 1

\* The callback returns to the device, which waits for it, whether frames come or not,
\* and however many are of an earlier serial.
CallbackReturns == callback # "idle" ~> callback = "idle"
=============================================================================
