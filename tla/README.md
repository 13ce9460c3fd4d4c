# A verification project for ffplay and its companions

The repository is a course on FFmpeg.  Its one large program of its own is
`src/ffplay/ffplay.c`, a media player of five kinds of threads that share one
`VideoState`, mostly without locks.  Beside it are a program that writes MP4 and FLV
files, an audio mixer, and a number of small programs that decode, demux or encode a file.  This directory holds TLA+
models of the parts where the order of steps decides whether the program is right,
configurations with which TLC checks them on small instances, and proofs that TLAPS
checks for instances of every size.

Line numbers below are those of `src/ffplay/ffplay.c` unless another file is named.
`PROJECT.json` maps every definition to the lines it models and lists the hazards at
their lines.

## 1. The system

### Threads of the player

    main            event_loop: keys, video_refresh (shows frames), opens and closes
    read_thread     demuxes into the packet queues, seeks, notices the end
    decoder threads audio_thread, video_thread, subtitle_thread: packets to frames
    audio callback  sdl_audio_callback, run by SDL: takes audio frames
    (the codec)     libavcodec, external: avcodec_send_packet, avcodec_receive_frame

    file -> read_thread -> PacketQueue -> decoder -> FrameQueue -> refresh / callback
                 ^                                                      |
                 +---- seek_req, paused, step (plain variables) <- keys -+

### Components

| component | state | operations | interacts by | hard because |
|---|---|---|---|---|
| `FrameQueue` (793-935) | ring, `rindex`, `windex`, `size`, `rindex_shown` | peek_writable, push, peek, peek_next, peek_last, peek_readable, next, signal | one mutex and one condition variable for both ends; indices and slots unlocked | unlocked indices; the slot on the screen stays readable; one condition for two kinds of sleepers; abort flag of another lock |
| `PacketQueue` (477-660) | list, `nb_packets`, `size`, `serial`, `abort_request` | put, put_nullpacket, get, flush, start, abort | mutex and condition; `serial` is read with no lock | the serial is what keeps data of before and after a seek apart |
| decoders (662-790, 1995-2070, 2250-2440) | `pkt`, `packet_pending`, `pkt_serial`, `finished`, the codec | decoder_decode_frame, get_video_frame, queue_picture | read both queues, set `finished` for read_thread | serial read three times per packet; protocol of send and receive; drain and flush |
| `read_thread` (3180-3578) | `eof`, position of the demuxer, `last_paused` | the loop: pause, seek, full queues, end, read | everything | decides from many variables read at different moments |
| `video_refresh` (1800-1990) | `frame_timer`, `force_refresh` | skip old frames, time, drop, show, step | frame queues, pause, clocks | acts on serials and pause while others change them |
| audio output (2585-2850) | `audio_buf`, its size and index | audio_decode_frame, synchronize_audio, callback | sampq, audio clock | keeps a pointer into the frame queue |
| clocks (1480-1645, 1719-1790) | three `Clock`s, speed | set_clock, get_clock, sync_clock_to_slave, compute_target_delay | read and written by all threads, no lock | several fields read one by one; thresholds; NaN |
| controls (1651-1713, 3800-4000) | `paused`, `step`, `seek_req`, `seek_pos`, `seek_rel` | toggle_pause, step_to_next_frame, stream_seek | plain variables written by two threads | check then act without a lock |
| opening, switching, closing (1366-1475, 2900-3140, 3580-3720) | threads, stream indices and pointers | stream_open, stream_component_open and _close, stream_cycle_channel, stream_close | joins threads, frees what they use | pointers cleared under running threads; failing half way |
| drawing and visualisation | textures, RDFT | video_display and below | reads the last frame | pure output |
| filter graphs | AVFilterGraph | configure_video_filters, configure_audio_filters | within a decoder thread | libavfilter |
| `cmdutils.c` | option tables | parse_options | before anything starts | sequential |
| MP4, FLV muxing (`src/ffmpeg4-muxer`) | two encoders, time stamps, `Muxer` | encode, AddStream, SendPacket | calls in one thread | interleaving by time, end of one stream first |
| audio mixer (`src/ffmpeg4-muxer/audio-mix`) | inputs, amix graph | init, addFrame, getFrame, flush | a mutex in the class | one input ends before the other |
| small programs (`src/7-1-ffmpeg-demuxer`, `src/saveKeyFrameImg`) | a buffer with a read position, a parser, a codec | parse, decode, filter, encode, drain at the end | calls in one thread | frames over the edges of the buffer; what codec and parser hold at the end |
| filter examples (`09-02-video-watermark.h`, `src/ffmpeg4-muxer/filter`) | a graph of filters | filter a file, or one picture | calls in one thread | sequential |

### What makes each part correct

- **Frame queue**: no slot is written while its other user reads it; frames come out
  once, in order; nobody sleeps for ever; closing gets everybody out.
- **Packet queue and decoders**: a frame carries the serial of the data it comes from;
  the codec is reset between the two sides of a seek; it is never given a packet it
  must refuse; every packet is decoded or released.
- **Demuxing loop**: each seek is carried out; the end is found after, and only after,
  the last frame has been used.
- **Controls**: a seek goes where it was asked; stepping ends in a pause; after a seek
  while paused the new picture appears.
- **Clocks**: a value read without a lock is not of a serial before the one asked for; the
  timer of the pictures is not ahead of the time while the picture on the screen has a time
  stamp; corrections have the right sign, never
  overshoot, and bring pictures and sound together.
- **Audio output**: index and size of the buffer agree through frames, silences and seeks;
  the clock tells what is heard; the callback returns; a pause stops the sound.
- **Opening and closing**: nothing is used before it exists or after it is destroyed.
- **Muxing, mixing, decoding**: streams are encoded in the order of time; each input is read
  and each codec drained to its end, whichever ends first; what is missing is accounted for.

## 2. The modules

| module | models | proved about in |
|---|---|---|
| `FrameFifo` | what a frame queue promises: a bounded FIFO that keeps the last frame taken | - |
| `FrameQueue` | one ring, its writer, reader and closer, each unlocked access a step | `FrameQueueProofs` |
| `Player` | what the viewer is promised: a position, the frames shown and dropped, seeks, the end | - |
| `Playback` | read_thread, packet queues, decoders, codec, consumers, the user who seeks | `PlaybackProofs`, `PlaybackOrderProofs` |
| `Control` | pause, step and seek requests, main thread against read_thread | `ControlProofs` |
| `Lifecycle` | opening, switching, closing of streams and player: main thread, read_thread, decoders | `LifecycleProofs` |
| `AvSync` | video_refresh in time: frame_timer, vidclk and audclk, late dropping, through pause, step, seek | `AvSyncProofs` |
| `AudioOut` | audio callback, audio_buf, synchronize_audio, the fields of audclk one by one | `AudioOutProofs` |
| `Muxing`, `Mixer`, `Decoding` | the programs beside the player, as operators and actions | - |
| `Companions` | one of those programs, chosen at the start | `CompanionsProofs` |
| `MCFrameQueue`, `MCPlayback`, `MCControl`, `MCLifecycle`, `MCAvSync`, `MCAudioOut` | instances for TLC | - |

`FrameQueue` implements `FrameFifo`, `Playback` implements `Player`, and `Playback`, `AvSync` and `AudioOut` use a FIFO with a
capacity in the place of the ring; `FrameCap` is the number of slots less the one that keeps the
last frame.  `Control`, `AvSync` and `AudioOut` keep of the pipeline only the serial number, which
`Playback` has in full; `AvSync` and `AudioOut` meet in audclk, which the one reads and the other
sets.  `Lifecycle` keeps the packets and who takes them, and the pointers and stream numbers that
`Playback` takes for fixed.  Every module holds, above the steps it changes, the faulty variants
(`Step_WhatIsWrong`) with which each property has been seen to fail.

### FrameQueue

`queue`, `rindex`, `windex`, `size`, `rindex_shown`, `abort_request` are the fields of
the same names.  `wpc`, `rpc`, `apc` say where writer, reader and closer are; `waitSet`
is the set of threads asleep on `f->cond`; `held` is the set of slots to which the reader
has a pointer, which is what the unlocked reads amount to.  Frames are numbered.

| action | code |
|---|---|
| `Decoded`, `DecodeAborted` | the decoder thread got a frame, or found the queue aborted |
| `PeekWritable`, `GetWritable` | frame_queue_peek_writable up to the sleep, and after the lock |
| `Fill`, `PushIndex`, `PushSize` | queue_picture and its like; frame_queue_push before and in the lock |
| `PeekFrames`, `ShowLonger` | video_refresh, deciding to go on or to wait |
| `Silence`, `PeekReadable`, `GetReadable` | the audio callback with and without a stream; frame_queue_peek_readable |
| `NextShown`, `NextUnref`, `NextRindex`, `NextSize` | the steps of frame_queue_next |
| `AbortQueue`, `SignalFrames`, `JoinWriter`, `StopCallbacks`, `CloseReader` | decoder_abort and the rest of stream_component_close |
| `Reopen` | decoder_start after the stream is opened again |

SDL allows a waiter to wake up by itself.  The code tests again in a loop, so a spurious
wakeup changes nothing but `waitSet`; it is left out.

### Playback

For each open stream: `queue` and `serial` (the packet queue), `dpc`, `pkt_serial`,
`finished`, `pkt`, `packet_pending`, `codec`, `draining`, `frame` (the decoder),
`frames` (the frame queue).  For read_thread: `rpc`, the streams it has still to treat
alike (`todo`), `eof`, `remaining` and `sent` (what the file still gives, has given),
`loops` (`loop`).  History: `epoch` counts the seeks the demuxer has carried out, and
every packet and frame carries its epoch and number.

A step is one critical section or one unlocked read.  In particular the three readings of
`queue->serial` in decoder_decode_frame (`CheckSerial`, `ComparePacket`, `CompareAgain`),
flush and flush packet of each queue (`FlushQueue`, `PutFlush`), and the readings of
`finished` and of the frames left (`CheckFinished`, `CheckRemaining`) are steps of their
own.  `SeekFile` may fail, as avformat_seek_file may.  The codec (external) gives a frame
once it holds more than `CodecDelay`, refuses a packet while a frame waits, drains on a
null packet and refuses data until it is reset.

Left out: pausing (see `Control`), closing (see `FrameQueue`, `Lifecycle`), subtitles, attached
pictures, errors of av_read_frame before the end, a file that grows after its end, packets
thrown away by `-ss`/`-t`, filters (one frame comes out for each that goes in), and time
stamps.  A frame is dropped early (`DropEarly`) or shown late at the choice of the model,
since only the clocks could tell; the guards of the code that do not depend on the clocks
(another packet is queued, same serial as the video clock) are kept.  `Enough` counts
packets, in place of bytes and duration.

`Player` says what all this is for, with no queue, thread or serial in it: a seek is asked for
(`Request`), carried out (`Seek`), followed by the streams one after the other (`Follow`) and done with
(`Done`); a stream shows the next frame from its position (`Show`) or has one dropped (`Drop`); the end
comes when each stream has shown or dropped its last frame (`End`).  `Viewed` maps `Playback` to it:
`wanted` is `seek_req`, `length` is `sent` + `remaining`, `current` is `serial` - 1, `shown` and
`late` are `passed` and `dropped` without their labels.  It is a promise of safety only; what must
happen in the end is stated of `Playback` itself (`SeekServed`, `EndReached`).

### Control

`paused`, `step`, `seek_req`, `seek_pos`, `last_paused` are the fields of the same names;
`seek_rel` stands for `seek_rel` with `seek_flags`.  A request is a number, and the two
fields hold the number of the request that wrote them: this is all that can be told about
a mixture of requests.  `waiting` and `shown` are the serials of the picture that waits and
of the one on the screen.  Each thread has a place (`pc`), the place it goes back to from a
function both threads call (`then`), and the local value of `!is->paused` (`value`).
What read_thread seeks with is `served`.  Both have their first value again once they have been used.
`ToggleRead` to `SeekReq` are stream_toggle_pause, step_to_next_frame and stream_seek, for
either thread; the rest are the keys, video_refresh, and the head of read_thread's loop.

The stores are taken in the order of the source.  The fields are plain C variables: a
compiler or a processor that reorders them could do worse than the model.  The three
clocks' copies of `paused`, written in the same statement, are left out.

### Lifecycle

`ic`, `stream`, `st`, `last`, `abort_request`, `eof` are fields of `VideoState` (audio and
video by type); `show_mode` and `width` say whether those are set, `up` which queues and
conditions exist.  `qabort` and `packets` are a packet queue, `decoder` its thread,
`finished` that the null packet has come through; `left` is what the file still gives.  `pc`
and `job` are where main thread and read_thread are and the stream they open or close, `todo`
the types still to visit.  `fault` is a pointer followed although NULL; nothing moves after it.

| action | code |
|---|---|
| `OpenCodec` to `StartDecoder` | stream_component_open, by either thread, with its failures; each write that the other thread can read is a step |
| `AbortQueue` to `ClearIndex` | stream_component_close; decoder_abort waits for the thread |
| `Create`, `CreateThread` | stream_open, failing anywhere |
| `Show`, `KeyCycle`, `KeyQuit`, `QuitEvent` | the window opens, and from then on keys switch streams (stream_cycle_channel); the program is left |
| `CloseBegin` to `Destroy` | stream_close |
| `CreateMutex` to `Opened` | read_thread up to its loop |
| `Top` to `SetEof` | the loop: each reading of an index, a pointer or a queue is a step |

Left out: the subtitle stream, attached pictures, files with programs, `-loop`, `-showmode`,
seeks, and the frames that wait when the null packet has come through.  The first stream of
a type stands for the one av_find_best_stream likes best: switching goes around the file.

### AvSync

Nothing in this part depends on absolute time, so the state has differences only: `late` is
`now - frame_timer`, `age` is `now - vidclk.last_updated`, `lead` how far the place of the picture
on the screen is ahead of the sound, `drift` how far vidclk is off that place: what resumes have
added to it, less what pictures without a time stamp have left out.  A tick is the time that
refresh_loop_wait_event sleeps.  `pictq` holds for each picture the distance from the one before,
whether it has a time stamp, and whether it is of the serial of videoq.  A picture without a time
stamp (2503) is shown and dropped like any other, but takes its nominal duration (vp_duration), and
frame_timer alone is set for it (1874-1879): `ClockGoesOn` in place of `update_video_pts`.

| action | code |
|---|---|
| `NoPicture`, `SkipStale`, `KeepShowing`, `DropLate`, `ShowPicture` | the ways through video_refresh (1801-1940), one step each, since the main thread alone writes what they use; at `retry` other threads may come in between |
| `Tick`, `TickLate`, `TickPaused` | time passes a loop that is back in time, a thread that is late, a pause |
| `AudioStart`, `AudioJump` | the callback sets audclk for the first time, or not quite to where it had run on |
| `QueuePicture` | queue_picture; the first after a seek may still be an old one |
| `TogglePause`, `StepKey`, `Expose`, `ReadPause`, `Seek` | the keys, the window, read_thread noticing a pause, read_thread seeking |

`Corrected` to `Delay` are compute_target_delay and vp_duration.  The master is the sound; video
or external clock as master, check_external_clock_speed, subtitles and the step of a seek that
another thread toggles meanwhile (in `Control`) are left out.

### AudioOut

`audio_clock`, `len`, `size`, `index` are the fields and the argument of those names, counted in
samples; `avg` is `audio_diff_avg_count`; `audclk` has `pts`, `pts_drift` and `serial` apart, since
set_clock_at writes them and get_clock reads them one after the other with no lock (`SetPts`,
`SetDrift`, `SetSerial` against `GetQueueSerial`, `GetSerial`, `GetValue`).  Values carry the serial
they are of.  The callback is `CallbackBegin`, then `FillBuffer`, `WaitFrame`, `SkipStale`,
`TakeFrame` (audio_decode_frame) and `CopyBuffer` in turn until `len` is 0.  `TakeFrame` compares
the serial and takes the frame in one step: a seek in between does not touch sampq, and finds the
frame taken as it would be a moment before.  As in the build for Windows the callback polls the
queue, at most for half the time of the device's buffer; the other build blocks, see `FrameQueue`.
synchronize_audio sees real clocks; here it may choose any size from 90 to 110 percent whenever the
code could stretch at all.  Volume and mute, the visualisation, the set-up of the resampler and its
errors are left out.

### Companions

The programs are sequential; the model asks what they do with inputs of every length.  Packets,
frames, samples and bytes are counted.  Libraries are external: an encoder or decoder holds back
at most `Delay` or `Reorder` and may refuse; a parser may find a frame anywhere.

- `Muxing`: `Mp4Frame`, `Mp4Flush` are the turns of the loop of muxing_mp4 (184-250), `FlvFrame`,
  `FlvFlush`, `FlvFails` those of muxing_flv_ffmpeg4 (722-736).  `next_pts` are the times the
  loops compare, in a common unit, so rounding to the encoders' time bases is left out, and so are
  the resampler's delay and a receive that fails.
- `Mixer`: audio_mix with both files, and of amix the rule by which it cuts frames (`FrameSize`,
  `Remove`, after `libavfilter/af_amix.c`).  `init` and `exit` of AudioMixer are left out.
- `Decoding`: the refill loop of decode_audio and decode_video (`ParsePart`, `ParseFrame`,
  `Consume`), the loops of avio_decode_audio, demux_mp4, saveAACFromMediaFile,
  getkeyFrameToBitmap, encode_audio, encode_video and filterYuv.  Opening, ADTS headers, and for demux_mp4
  failures of the set-up of its filter and of SaveVideo's send to and receive from the encoder
  (07-08-demuex-mp4.h:107-122), which would lose the picture, are left out, and so is the empty file, with which decode_audio
  drains into a frame it has never allocated.

`TakenApart` and `MixGoesOn` say what is missing in an output, which is worth knowing: the last
frame of a raw stream, when it is still in the parser, for that is never asked for the rest
(07-05-decode_audio.h:222); the first picture of demux_mp4, with which the filter is made and
which is not written (07-08-demuex-mp4.h:73); the pictures that the decoder holds back in
getkeyFrameToBitmap; of a mix less than two chunks, when both files end in the same turn, for then
neither input is flushed (audio_mix.h:75-83) and frames beyond 10240 bytes find no room (87).

## 3. What is checked

| run | instance | properties | what it shows |
|---|---|---|---|
| `frame_queue` | 3 slots, last frame kept; a polling or a blocking reader | `TypeOK`, `NoOverwrite`, `HeldSlotsFilled`, `NoLostWakeup`, `LastShown`, `AbortTerminates`, `ImplementsFifo` | picture and sample queue: no lost wakeup although one condition serves both ends; a FIFO, whose last frame taken stays in its slot until the next is taken; closing ends |
| `playback_seek` | a stream, 2 packets after each position, 2 seeks, played twice, frames dropped | `TypeOK`, `LabelsRight`, `CodecOneEpoch`, `NoApiViolation`, `NoPrematureEnd`, `SeekServed`, `Forward`, `EndReached` | serial numbers do their work with no lock; every seek is carried out; autoexit after the last frame, and certainly |
| `playback_two` | audio and video, played twice, pictures dropped | `ImplementsPlayer` | the pipeline implements the abstract player; both streams are played out before the file is started again |
| `playback_leak` | a stream, seeks | `NoPacketLeak` | **violated**, see below |
| `control_keys` | one pause, one step, two seeks, one loop | `TypeOK`, `SeekAsRequested`, `StepEnds` | seeks go where asked, also when asked for again while the first is carried out; stepping ends |
| `control_paused_seek` | one pause, two seeks | `PausedSeekShown` | **violated**, see below |
| `lifecycle_switch` | two video streams and an audio stream, one packet each, one switch, all failures | `TypeOK`, `NothingUsedDestroyed`, `OpenedByOne`, `FaultOnlyBySwitch`, `FlushFirst`, `CloseEnds` | order of construction and destruction; closing always ends |
| `lifecycle_end` | two audio streams, one switch, no failure | `ExitsAtEnd` | **violated**, see below |
| `lifecycle_fail` | the same, with failures | `FailsCleanly` | **violated**, see below |
| `av_sync` | pictures 2 and 4 ticks long, thresholds 2 and 3, one pause or step, one seek, one delay or jump of the sound, one picture without a time stamp | `TypeOK`, `NeverFrozen`, `DropsOnlyBehind`, `NoOvershoot`, `Converges` | the timer is not ahead but on a picture without a time stamp; nothing is dropped without a cause; pictures and sound come together |
| `audio_out` | frames of 10 samples, a device's buffer of 15, 2 serials, 3 frames of each, one without time stamp, one toggle | `TypeOK`, `ClockTellsSound`, `CorrectionRestarts`, `ReadNotOlder`, `PauseStopsSound`, `CallbackReturns` | the clock tells what is heard, also to a reader without a lock; the callback returns |
| `companions` | 10 programs; files of up to 4 frames, 13 samples, 9 bytes or packets, of all lengths | `TypeOK`, `InStep`, `MixGoesOn`, `FileComplete` | every input goes whole into the output, but for what is named above |

Bounds.  Three slots are the size of `pictq`; with the last frame kept, two frames wait,
enough for a full and an empty ring, both wrap-arounds and the peek at the next frame.
Seven frames (`MaxFrames`) go twice around.  The subtitle queue, which keeps no frame, is covered by
the proofs, for every ring, only.  In `Playback` two packets exceed `CodecDelay`
= 1, so the codec delivers, holds back and drains; `FrameCap` = 2 and `MaxQueue` = 3 are
both reached; two seeks put a second flush behind a first that is not yet taken.
`playback_two` has one slot so that consumers block decoders at once, and `-autoexit` so that the
second end is seen as well as the first; going on after the end without it is covered by the proofs,
which hold for both.  In `Control` every key
can fall between any two steps of the other thread; a second key of the same kind would
find the same variables, except for the seek, of which both runs have two.
In `Lifecycle` one packet of each
stream suffices for a packet of any stream, or the end, to fall between any two steps of a
switch; the streams take all pairs of old and new index.  A second switch starts from the same
states as the first, with fewer packets.  In `AvSync` one picture is short enough to be doubled and
one long enough to be extended, both starts are off by more than a threshold, and the demuxer
refuses to pause, the harder case; one picture without a time stamp, anywhere, suffices to set
frame_timer and vidclk apart and to have a resume, a step, a seek or a drop fall on it; gaps that make no sense (vp_duration) are covered by the proofs
only.  In `AudioOut` a callback takes one or two frames and a silence takes part of one, 10 percent
of a frame is a sample, and `AvgNb` = 1 lets frames be stretched before and after the seek.  In
`Companions` encoders hold up to 2 frames, the buffer of 5 bytes is refilled with 0 or 1 left, and a
frame of amix may find no room.

Deadlock is checked, except in the runs of `Playback` (all with autoexit), in those of
`Lifecycle` and in `companions`: the program has exited then, and nothing is left to do.

Fairness.  In `FrameQueue` writer, reader and closer each go on when they can
(`AbortTerminates`): threads are scheduled, the refresh loop and the audio device come
back.  In `Playback` the same holds for read_thread and for each decoder and consumer; the
user need not seek.  read_thread's wait is bounded by its 10 ms timeout (3485), hence not a
step that could last.  In `Control` both threads go on; nobody need press a key, and
video_refresh is obliged only while not paused (`DueRefresh`), since a refresh while paused
comes from an event of the window.  In `Lifecycle` both threads and the decoders go on; nobody
need press a key.  In `AvSync` the refresh loop comes back, time passes, the decoder goes on and the
sound starts; delays and jumps are bounded in number, without which nothing could converge, and
`Converges` asks nothing of a player that is paused again and again or whose clocks are further
apart than max_frame_duration.  In `AudioOut` a callback that has begun goes on and time passes,
whatever decoder and user do.  The programs of `Companions` are one thread that goes on.

### Findings

1. **`NoPacketLeak`** (743).  decoder_decode_frame compares `queue->serial` once to release
   an outdated packet, and again to take another one.  A flush packet put between the two
   makes it overwrite a packet it has not released.  The comment at 741 says that packets to
   be filtered are released.
2. **`PausedSeekShown`** (3459).  A seek while paused unpauses for one frame
   (step_to_next_frame), so that the first picture after the seek is played, as the comment
   at 3460 says.  A second seek served between the moment video_refresh found the first
   picture current (1837) and the moment it pauses again (1938) sees `paused` clear, asks
   for no step, and the player pauses with the picture of the first seek on the screen.
   With one seek the property holds.
3. **`ExitsAtEnd`** (3040).  The text of `-autoexit` says "exit at the end" (4145).
   stream_component_open clears `eof` so that a stream opened after the end gets its null packet,
   but it does so before the stream has an index.  If read_thread treats the end of the file once
   more in between, it leaves the new stream out and sets `eof` again; the new decoder never
   finishes, and the player never exits.
4. **`FailsCleanly`** (1369).  If stream_open fails, main reports it (4313).  Before that
   stream_close takes the zeros of av_mallocz for stream numbers (only read_thread sets them to
   -1, 3197) and stream_component_close follows the NULL `ic`.

`FaultOnlyBySwitch` is stated so because the fault does occur: while a video stream is switched
read_thread may find `video_st` NULL after it has compared `video_stream` (3551), or pass a NULL
pointer to stream_has_enough_packets (3479).  Nothing written in the repository says
that it may not, so it is a hazard and not a finding.

## 4. What is proved

TLAPS checks the following for every value of the constants that satisfies their
assumptions (any ring of at least two slots, any finite set of streams, any sizes, delays
and bounds).

- `FrameQueueProofs`: `TypeCorrect`, `WriterAlone` (`NoOverwrite`), `HeldNotReleased`
  (`HeldSlotsFilled`), `SleepersHaveReason` (`NoLostWakeup`), `LastStays` (`LastShown`), and
  `RingImplementsFifo` (`ImplementsFifo`).  None of them is inductive alone.  The invariant
  says in addition which slots hold which frames (`ContentInv`: the frames from the one kept
  to the last pushed lie one after the other from `rindex` on, modulo the size), how `size`,
  the counters and the places of the threads agree while an index has moved and `size` has not
  (`IndexInv`, `CountInv`), where the reader's pointers point (`HeldInv`), and who may be
  asleep (`WaitInv`).  `NoOverwrite` then follows since the writer's slot is `size` places after
  `rindex`.  `NoLostWakeup` says why one condition variable is enough: writer and reader are
  never both asleep, for the ring would be full and empty.  The refinement takes a push when
  `size` grows, a take when frame_queue_next gives up the frame before.
- `PlaybackProofs`: `TypeCorrect`, `SerialsTellEpochs` (`LabelsRight`), `CodecResetInBetween`
  (`CodecOneEpoch`), `CodecProtocolKept` (`NoApiViolation`).  The argument follows a packet:
  what is queued is of the serial of the queue, whose flush packet stays the head until the decoder takes
  it (`StreamInv`); while a seek is under way the queues already flushed are one epoch ahead of the others
  (`PhaseInv`, `NowInv`); what the codec holds is of the epoch of `pkt_serial`.
- `PlaybackOrderProofs`: `EndsPlayed` (`NoPrematureEnd`), `PlaysForward` (`Forward`) and
  `PlaybackImplementsPlayer` (`ImplementsPlayer`).  A packet and its
  frame pass six stages: packet queue, hand of the decoder, codec, hand of the player, frame queue,
  shown.  Each step of a thread takes the first number of one stage to the end of the next, or drops it as
  late, so the numbers of the epoch rise from stage to stage (`Ordered`) and none between is missing
  (`Covered`); only a seek loses data, and what it loses is of an epoch the serial no longer names, or was
  the last on the way.  That is `Forward`.  For `NoPrematureEnd` the invariant says in addition that no
  data follow a null packet (`NullInv`), that a decoder which has finished the serial of its queue has
  nothing left in hand, codec or queue (`DrainInv`), and that what read_thread has seen of a stream stays
  true while it looks at the next (`CheckInv`, `FinishedStays`).

  The refinement needs one more invariant, that no number lies beyond the file's end (`SizedInv`), and
  then takes the actions one by one.  `ReadPacket` moves a frame from `remaining` to `sent`, whose sum
  is the length the player knows, and is not seen.  `PutFlush` is where a stream follows a seek
  (`PutFlushFollows`); outside of the flushing all streams have followed (`Followed`, from `PhaseInv`),
  so that the next seek and the end of the request find them together.  `Consume` of a frame of the
  queue's serial shows the player's next frame (`ConsumeShows`): it is the first of its stage, so by
  `Ordered` and `Covered` all between it and the last one shown were dropped; of any other serial, it
  is not seen.  `DropEarly` drops a frame not yet passed, or one of before the seek
  (`DropEarlyDrops`).  `AllPlayed` is the end (`AllPlayedEnds`, from `LastIsShown`).
- `ControlProofs`: `TypeCorrect`, `SeeksAsRequested` (`SeekAsRequested`).  The variables of a request
  belong to the main thread until it raises `seek_req`, and to read_thread from then until it
  clears it (`RequestInv`); `PlaceInv` says where each thread can be.  It holds until read_thread
  itself seeks for `-loop` (`loops = 0`): with two callers the test of `seek_req` protects nothing.
- `LifecycleProofs`: `TypeCorrect`, `UsedExists` (`NothingUsedDestroyed`), `OneOpens` (`OpenedByOne`),
  `SafeWithoutSwitch` (`FaultOnlyBySwitch`), `FlushTakenFirst` (`FlushFirst`).  No lock keeps the main
  thread and read_thread from opening or closing the same type at once; what does is that the main thread
  does so only for a key, that keys need the window, and that there is none before read_thread has opened
  its streams (`PlaceInv`).  `ResInv`, `StreamInv` and `CloseInv` say what exists and what is closed at each
  place, `OpenInv` and `ReaderInv` that what is about to be opened is not in use, `FlushInv` that an
  opened queue begins with its flush packet, and `UnswitchedInv` that index and pointer of a stream go
  together until a switch.  The file may have any finite number of streams of the two types.
- `AvSyncProofs`: `TypeCorrect`, `TimerNotAhead` (`NeverFrozen`), `CorrectionConverges`
  (`NoOvershoot`), `NoneDroppedInTime` (`DropsOnlyBehind`).  A resume moves frame_timer by the age of
  vidclk, so frame_timer must be known to be no later than vidclk was set (`TimerBehind`: `age <= late`);
  taking a picture with a time stamp sets both anew, and every other step moves both alike, except
  the taking of a picture without one, which moves frame_timer only.  While that picture is on the screen, or
  stale after a seek, `TimerBehind` is void (`Excepted`), and a pause and a resume then do put frame_timer
  in the future: that picture stays longer, by at most what was added to frame_timer since vidclk was set.
  The next picture is taken no earlier than frame_timer says and with a time stamp sets `age` to 0, which
  restores it.  `NoOvershoot` is arithmetic on compute_target_delay, for all
  thresholds and distances of pictures with time stamps.  `DropsOnlyBehind` needs that a picture is taken
  exactly at the end of its delay as long as nothing fell behind (`Timely`), which holds if time stamps go up
  and pictures have a nominal duration (`Regular`): without a frame rate frame_timer is not set at the first
  picture, and pictures are dropped at once.  That a picture has no time stamp counts as a reason, for the
  difference seen at it is corrected twice, vidclk not having moved.
- `AudioOutProofs`: `TypeCorrect`, `ReadsNotOlder` (`ReadNotOlder`), `PauseSilences`
  (`PauseStopsSound`), `CorrectionAnew` (`CorrectionRestarts`), `ClockTrue` (`ClockTellsSound`).  The serial stored in audclk is never
  later than those of the values beside it, since it is stored last (`ClockOrder`, `ClockStored`), and
  so is what the reader has compared (`GetInv`); after a pause the callback is in its wait at most once
  (`PauseInv`); the count of measured frames is below the number of frames begun of the clock's serial
  (`AvgInv`).  For `ClockTellsSound` the last sample heard is followed through the stretched frame
  (`SizeInv`, `HeardInv`) to the clock that is set from it (`SetInv`); frames have more than one sample
  (`Nb > 1`), as one of a single sample could be stretched to none.  The proof showed that the bound must
  be the most by which a frame can be shortened, `Nb - MinNb`: for `Nb` that 10 does not divide, the room for
  lengthening, `MaxNb - Nb`, is one sample less, and TLC agrees with `Nb` = 15.
- `CompanionsProofs`: `TypeCorrect` and `StreamsInStep` (`InStep`), whose conjunction is inductive, and
  `MixToTheEnd` (`MixGoesOn`).
  The types are not trivial here: amix cuts no more than it has (`FrameSizeType`), encoders keep no
  more than their delay (`ReceiveType`), and refilling keeps `data + data_size` within the buffer
  (`ConsumeType`), for buffers and thresholds of any size.  `MixInv` counts what each input was fed,
  what waits in amix and what was mixed, apart for both files on, the first ended and the second ended;
  it needs that getFrame is given room for a chunk (`Chunk <= OutMax`; the program gives 10240 bytes and
  asks for 8192), else whole frames would be lost.

Every invariant and every action property of the passing runs is so proved.  Only model-checked is
liveness (`AbortTerminates`, `SeekServed`, `EndReached`, `StepEnds`, `CloseEnds`, `Converges`,
`CallbackReturns`, `FileComplete`), which the prover cannot do under fairness.

## 5. Not modelled

Drawing, audio visualisation, filter graphs and option parsing keep no state that other threads
depend on, and are calls of libraries.  `filter/09-04-video_watermark.h` treats one picture and has
no loop, and `filter/09-05-crop_flip.h` repeats the loop of `filterYuv` with another graph.
`ffmpeg_soruce_from_ShiftMedia`, `ffmpeg-4.2.1`, `include`, `lib` and `SDL2` are the work of others,
and some 1.6 million lines against the 16 thousand of the repository's own; they appear only as the
calls of the modelled code see them, and as the one rule of amix.  Within the player these are left
out: subtitles, attached pictures, files with programs, `-showmode`, a file that grows after its
end, the clocks' copies of `paused` (written by one statement, but by two threads), and video or
external clock as the master of the pictures.  What else is left out of a modelled part is named in
its section and in `PROJECT.json`.

## 6. Plan

1. `FrameQueue` with `FrameFifo`, `Playback`, `Control`, `Lifecycle`: done.
2. `AvSync`, `AudioOut`, `Muxing`, `Mixer`, `Decoding` with `Companions`: done.
3. Proofs of all invariants and action properties that the runs check: done.
4. `Player`, the abstract player that `Playback` implements: done.
5. If the player grows: video and external clock as masters with check_external_clock_speed, and the
   subtitle stream in `Lifecycle`.
