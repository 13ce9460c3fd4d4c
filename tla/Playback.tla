------------------------------ MODULE Playback ------------------------------
(***************************************************************************)
(* From the demuxer to the consumer in ffplay/ffplay.c: read_thread fills  *)
(* one packet queue per stream, a decoder thread per stream takes packets, *)
(* runs the codec and fills the frame queue, the consumer (refresh loop or *)
(* audio callback) takes the frames.  The user seeks; at the end of the    *)
(* file null packets drain the codecs, and read_thread notices that all    *)
(* has been played.  What keeps the data of before and after a seek apart  *)
(* is the serial number of the packet queue, read by the decoder without   *)
(* a lock between any two steps of read_thread.                            *)
(*                                                                         *)
(* Playback is neither paused nor closed here.  The frame queue is the     *)
(* FIFO that FrameQueue.tla is proved to implement.  The codec is external *)
(* and modelled from the calls in decoder_decode_frame.                    *)
(***************************************************************************)
EXTENDS Integers, Sequences, FiniteSets

CONSTANTS
    Streams,     \* the open streams, audio and video
    DropStreams, \* streams whose late frames may be dropped (framedrop)
    Autoexit,    \* the option -autoexit
    Loop,        \* the option -loop: how often to play, 0 for ever
    FrameCap,    \* frames a frame queue accepts
    MinFrames,   \* MIN_FRAMES: a stream with more packets has enough
    MaxQueue,    \* MAX_QUEUE_SIZE, in packets of all queues
    CodecDelay,  \* frames the codec holds back for reordering
    MaxPackets,  \* bound: packets of a stream after a position in the file
    MaxSeeks     \* bound: seeks of the user

ASSUME StreamsAssumption == IsFiniteSet(Streams) /\ DropStreams \subseteq Streams
ASSUME OptionsAssumption == Autoexit \in BOOLEAN /\ Loop \in Nat
ASSUME SizesAssumption == /\ FrameCap \in Nat \ {0}
                          /\ MinFrames \in Nat /\ MaxQueue \in Nat
                          /\ CodecDelay \in Nat
                          /\ MaxPackets \in Nat /\ MaxSeeks \in Nat

VARIABLES
    (* the packet queues *)
    queue, serial,
    (* the decoders *)
    dpc, pkt_serial, finished, pkt, packet_pending, codec, draining, frame, leaked,
    (* the frame queues *)
    frames,
    (* read_thread; todo: the streams it has still to treat alike; now: the *)
    (* one, if any, it is in the middle of                                  *)
    rpc, todo, now, eof, remaining, sent, loops, ended,
    (* requests of the user *)
    seek_req, seeks,
    (* history: successful seeks of the demuxer, last frame taken for show,  *)
    (* frames dropped before they were queued                               *)
    epoch, passed, dropped

decVars  == <<dpc, pkt_serial, finished, pkt, packet_pending, codec, draining, frame, leaked>>
readVars == <<rpc, todo, now, eof, remaining, sent, loops, ended>>
userVars == <<seek_req, seeks>>
history == <<epoch, passed, dropped>>
vars == <<queue, serial, decVars, frames, readVars, userVars, history>>

(* A packet of serial number sn; of a data packet e and n tell where it    *)
(* comes from: the n-th of its stream read since the e-th seek.            *)
Packet(kind, sn, e, n) == [kind |-> kind, serial |-> sn, epoch |-> e, n |-> n]
NoPacket == Packet("none", 0, 0, 0)
Frame(sn, e, n) == [serial |-> sn, epoch |-> e, n |-> n]
NoFrame == Frame(0, 0, 0)

------------------------------------------------------------------------------
(* packet_queue_start has put a flush packet, decoder_init has reset the   *)
(* decoder, the decoder threads are running.                               *)
Init == /\ queue = [s \in Streams |-> <<Packet("flush", 1, 0, 0)>>]
        /\ serial = [s \in Streams |-> 1]
        /\ dpc = [s \in Streams |-> "check"]
        /\ pkt_serial = [s \in Streams |-> -1]
        /\ finished = [s \in Streams |-> 0]
        /\ pkt = [s \in Streams |-> NoPacket]
        /\ packet_pending = [s \in Streams |-> FALSE]
        /\ codec = [s \in Streams |-> <<>>]
        /\ draining = [s \in Streams |-> FALSE]
        /\ frame = [s \in Streams |-> NoFrame]
        /\ leaked = [s \in Streams |-> FALSE]
        /\ frames = [s \in Streams |-> <<>>]
        /\ rpc = "top" /\ todo = {} /\ now = {} /\ eof = FALSE
        /\ remaining \in [Streams -> 0 .. MaxPackets]
        /\ sent = [s \in Streams |-> 0]
        /\ loops = Loop /\ ended = FALSE
        /\ seek_req = FALSE /\ seeks = 0
        /\ epoch = 0
        /\ passed = [s \in Streams |-> NoFrame]
        /\ dropped = [s \in Streams |-> {}]

------------------------------------------------------------------------------
(* Faulty variants of the steps below, each a plausible slip in the code:  *)
(* with it in place of the step the properties at the end must fail.       *)

(* the end of the drain is not recorded *)
ReceiveFrame_EofUnmarked(s) ==
    /\ dpc[s] = "receive"
    /\ \/ /\ Len(codec[s]) > CodecDelay \/ (draining[s] /\ codec[s] # <<>>)
          /\ frame' = [frame EXCEPT ![s] = Head(codec[s])]
          /\ codec' = [codec EXCEPT ![s] = Tail(@)]
          /\ dpc' = [dpc EXCEPT ![s] = "push"]
          /\ UNCHANGED draining
       \/ /\ codec[s] = <<>> \/ (~draining[s] /\ Len(codec[s]) <= CodecDelay)
          /\ draining' = [draining EXCEPT ![s] = FALSE]
          /\ dpc' = [dpc EXCEPT ![s] = "get"]
          /\ UNCHANGED <<frame, codec>>
    /\ UNCHANGED <<queue, serial, pkt_serial, finished, pkt, packet_pending, leaked, frames,
                   readVars, userVars, history>>

(* the frame gets the serial of the queue, not of the decoder *)
PushFrame_QueueSerial(s) ==
    /\ dpc[s] = "push" /\ Len(frames[s]) < FrameCap
    /\ frames' = [frames EXCEPT ![s] = Append(@, Frame(serial[s], frame[s].epoch, frame[s].n))]
    /\ frame' = [frame EXCEPT ![s] = NoFrame]
    /\ dpc' = [dpc EXCEPT ![s] = "check"]
    /\ UNCHANGED <<queue, serial, pkt_serial, finished, pkt, packet_pending, codec, draining,
                   leaked, readVars, userVars, history>>

(* the frame is pushed without waiting for a slot *)
PushFrame_NoWait(s) ==
    /\ dpc[s] = "push"
    /\ frames' = [frames EXCEPT ![s] =
                     Append(@, Frame(pkt_serial[s], frame[s].epoch, frame[s].n))]
    /\ frame' = [frame EXCEPT ![s] = NoFrame]
    /\ dpc' = [dpc EXCEPT ![s] = "check"]
    /\ UNCHANGED <<queue, serial, pkt_serial, finished, pkt, packet_pending, codec, draining,
                   leaked, readVars, userVars, history>>

(* avcodec_flush_buffers is forgotten *)
FlushCodec_NoReset(s) ==
    /\ dpc[s] = "send" /\ pkt[s].kind = "flush"
    /\ finished' = [finished EXCEPT ![s] = 0]
    /\ pkt' = [pkt EXCEPT ![s] = NoPacket]
    /\ dpc' = [dpc EXCEPT ![s] = "check"]
    /\ UNCHANGED <<queue, serial, pkt_serial, packet_pending, codec, draining, frame, leaked,
                   frames, readVars, userVars, history>>

(* every frame is shown *)
Consume_NoSerialCheck(s) ==
    /\ frames[s] # <<>>
    /\ frames' = [frames EXCEPT ![s] = Tail(@)]
    /\ passed' = [passed EXCEPT ![s] = Head(frames[s])]
    /\ UNCHANGED <<queue, serial, decVars, readVars, userVars, epoch, dropped>>

(* is->eof survives a seek *)
SeekDone_KeepsEof ==
    /\ rpc = "seeked"
    /\ seek_req' = FALSE
    /\ rpc' = "enough"
    /\ UNCHANGED <<queue, serial, decVars, frames, todo, now, eof, remaining, sent, loops, ended,
                   seeks, history>>

(* the codec is asked for frames only across a change of serial *)
CheckSerial_Swapped(s) ==
    /\ dpc[s] = "check"
    /\ dpc' = [dpc EXCEPT ![s] = IF serial[s] = pkt_serial[s] THEN "get" ELSE "receive"]
    /\ UNCHANGED <<queue, serial, pkt_serial, finished, pkt, packet_pending, codec, draining,
                   frame, leaked, frames, readVars, userVars, history>>

(* at the end of the file the demuxer is asked on and on *)
ReadEof_ReadsOn ==
    /\ rpc = "read" /\ \A s \in Streams : remaining[s] = 0
    /\ IF eof THEN UNCHANGED <<rpc, todo>>
              ELSE rpc' = "null" /\ todo' = Streams
    /\ UNCHANGED <<queue, serial, decVars, frames, now, eof, remaining, sent, loops, ended, userVars,
                   history>>

(* finished for whatever serial counts *)
CheckFinished_AnySerial(s) ==
    /\ rpc = "finished?" /\ s \in todo
    /\ IF finished[s] # 0 THEN rpc' = "remaining?" /\ now' = {s}
                          ELSE rpc' = "read" /\ now' = {}
    /\ UNCHANGED <<queue, serial, decVars, frames, todo, eof, remaining, sent, loops, ended,
                   userVars, history>>

(* frames still queued are not waited for *)
CheckRemaining_Ignored(s) ==
    /\ rpc = "remaining?" /\ s \in now
    /\ now' = {} /\ todo' = todo \ {s}
    /\ rpc' = IF todo' = {} THEN "all played" ELSE "finished?"
    /\ UNCHANGED <<queue, serial, decVars, frames, eof, remaining, sent, loops, ended, userVars,
                   history>>

------------------------------------------------------------------------------
(* The decoder thread of stream s: decoder_decode_frame, called again and  *)
(* again, with the queueing of each frame by audio_thread / video_thread.  *)

(* Ask the codec for a frame only if the last packet is of this serial. *)
CheckSerial(s) ==
    /\ dpc[s] = "check"
    /\ dpc' = [dpc EXCEPT ![s] = IF serial[s] = pkt_serial[s] THEN "receive" ELSE "get"]
    /\ UNCHANGED <<queue, serial, pkt_serial, finished, pkt, packet_pending, codec, draining,
                   frame, leaked, frames, readVars, userVars, history>>

(* avcodec_receive_frame: a frame once the codec holds more than it keeps  *)
(* back for reordering, or drains; AVERROR_EOF when drained, which marks   *)
(* the stream finished and resets the codec; otherwise AVERROR(EAGAIN).    *)
ReceiveFrame(s) ==
    /\ dpc[s] = "receive"
    /\ \/ /\ Len(codec[s]) > CodecDelay \/ (draining[s] /\ codec[s] # <<>>)
          /\ frame' = [frame EXCEPT ![s] = Head(codec[s])]
          /\ codec' = [codec EXCEPT ![s] = Tail(@)]
          /\ dpc' = [dpc EXCEPT ![s] = "push"]
          /\ UNCHANGED <<finished, draining>>
       \/ /\ draining[s] /\ codec[s] = <<>>
          /\ finished' = [finished EXCEPT ![s] = pkt_serial[s]]
          /\ draining' = [draining EXCEPT ![s] = FALSE]
          /\ dpc' = [dpc EXCEPT ![s] = "check"]
          /\ UNCHANGED <<frame, codec>>
       \/ /\ ~draining[s] /\ Len(codec[s]) <= CodecDelay
          /\ dpc' = [dpc EXCEPT ![s] = "get"]
          /\ UNCHANGED <<finished, draining, frame, codec>>
    /\ UNCHANGED <<queue, serial, pkt_serial, pkt, packet_pending, leaked, frames, readVars,
                   userVars, history>>

(* get_video_frame drops a frame that comes too late, if more are queued. *)
DropEarly(s) ==
    /\ dpc[s] = "push" /\ s \in DropStreams /\ queue[s] # <<>>
    /\ passed[s].serial = pkt_serial[s]
    /\ dropped' = [dropped EXCEPT ![s] = @ \cup {frame[s]}]
    /\ frame' = [frame EXCEPT ![s] = NoFrame]
    /\ dpc' = [dpc EXCEPT ![s] = "check"]
    /\ UNCHANGED <<queue, serial, pkt_serial, finished, pkt, packet_pending, codec, draining,
                   leaked, frames, readVars, userVars, epoch, passed>>

(* queue_picture and its like: wait for a slot, label the frame with the   *)
(* serial of the decoder, push.                                            *)
PushFrame(s) ==
    /\ dpc[s] = "push" /\ Len(frames[s]) < FrameCap
    /\ frames' = [frames EXCEPT ![s] =
                     Append(@, Frame(pkt_serial[s], frame[s].epoch, frame[s].n))]
    /\ frame' = [frame EXCEPT ![s] = NoFrame]
    /\ dpc' = [dpc EXCEPT ![s] = "check"]
    /\ UNCHANGED <<queue, serial, pkt_serial, finished, pkt, packet_pending, codec, draining,
                   leaked, readVars, userVars, history>>

(* The pending packet, or packet_queue_get, which blocks while the queue   *)
(* is empty and sets pkt_serial.                                           *)
GetPacket(s) ==
    /\ dpc[s] = "get"
    /\ \/ /\ packet_pending[s]
          /\ packet_pending' = [packet_pending EXCEPT ![s] = FALSE]
          /\ UNCHANGED <<queue, pkt, pkt_serial>>
       \/ /\ ~packet_pending[s] /\ queue[s] # <<>>
          /\ pkt' = [pkt EXCEPT ![s] = Head(queue[s])]
          /\ pkt_serial' = [pkt_serial EXCEPT ![s] = Head(queue[s]).serial]
          /\ queue' = [queue EXCEPT ![s] = Tail(@)]
          /\ UNCHANGED packet_pending
    /\ dpc' = [dpc EXCEPT ![s] = "compare"]
    /\ UNCHANGED <<serial, finished, codec, draining, frame, leaked, frames, readVars,
                   userVars, history>>

(* The first comparison of the serials: av_packet_unref when they differ. *)
ComparePacket(s) ==
    /\ dpc[s] = "compare"
    /\ pkt' = IF serial[s] # pkt_serial[s] THEN [pkt EXCEPT ![s] = NoPacket] ELSE pkt
    /\ dpc' = [dpc EXCEPT ![s] = "again"]
    /\ UNCHANGED <<queue, serial, pkt_serial, finished, packet_pending, codec, draining, frame,
                   leaked, frames, readVars, userVars, history>>

(* The second, in the condition of the loop: it reads the serial again.    *)
(* If they differ only now, the loop gets another packet over this one.    *)
CompareAgain(s) ==
    /\ dpc[s] = "again"
    /\ IF serial[s] # pkt_serial[s]
       THEN /\ leaked' = [leaked EXCEPT ![s] = @ \/ pkt[s].kind = "data"]
            /\ pkt' = [pkt EXCEPT ![s] = NoPacket]
            /\ dpc' = [dpc EXCEPT ![s] = "get"]
       ELSE /\ dpc' = [dpc EXCEPT ![s] = "send"]
            /\ UNCHANGED <<leaked, pkt>>
    /\ UNCHANGED <<queue, serial, pkt_serial, finished, packet_pending, codec, draining, frame,
                   frames, readVars, userVars, history>>

(* The flush packet: avcodec_flush_buffers, the decoder is not finished. *)
FlushCodec(s) ==
    /\ dpc[s] = "send" /\ pkt[s].kind = "flush"
    /\ codec' = [codec EXCEPT ![s] = <<>>]
    /\ draining' = [draining EXCEPT ![s] = FALSE]
    /\ finished' = [finished EXCEPT ![s] = 0]
    /\ pkt' = [pkt EXCEPT ![s] = NoPacket]
    /\ dpc' = [dpc EXCEPT ![s] = "check"]
    /\ UNCHANGED <<queue, serial, pkt_serial, packet_pending, frame, leaked, frames, readVars,
                   userVars, history>>

(* avcodec_send_packet: refused with AVERROR(EAGAIN) while a frame waits   *)
(* to be received, and then kept for later; a null packet starts to drain; *)
(* while the codec drains, data is refused (AVERROR_EOF) and lost.         *)
SendPacket(s) ==
    /\ dpc[s] = "send" /\ pkt[s].kind \in {"data", "null"}
    /\ IF Len(codec[s]) > CodecDelay
       THEN /\ packet_pending' = [packet_pending EXCEPT ![s] = TRUE]
            /\ UNCHANGED <<pkt, codec, draining>>
       ELSE /\ codec' = IF pkt[s].kind = "data" /\ ~draining[s]
                        THEN [codec EXCEPT ![s] = Append(@, Frame(0, pkt[s].epoch, pkt[s].n))]
                        ELSE codec
            /\ draining' = [draining EXCEPT ![s] = @ \/ pkt[s].kind = "null"]
            /\ pkt' = [pkt EXCEPT ![s] = NoPacket]
            /\ UNCHANGED packet_pending
    /\ dpc' = [dpc EXCEPT ![s] = "check"]
    /\ UNCHANGED <<queue, serial, pkt_serial, finished, frame, leaked, frames, readVars,
                   userVars, history>>

------------------------------------------------------------------------------
(* The consumer of stream s: video_refresh, or audio_decode_frame in the   *)
(* audio callback.  A frame of another serial is dropped, any other shown  *)
(* (or, when late, dropped as well).                                       *)
Consume(s) ==
    /\ frames[s] # <<>>
    /\ frames' = [frames EXCEPT ![s] = Tail(@)]
    /\ passed' = IF Head(frames[s]).serial = serial[s]
                 THEN [passed EXCEPT ![s] = Head(frames[s])]
                 ELSE passed
    /\ UNCHANGED <<queue, serial, decVars, readVars, userVars, epoch, dropped>>

------------------------------------------------------------------------------
(* read_thread *)

(* packet_queue_put by read_thread: the packet gets the queue's serial. *)
Put(s, kind, e, n) == Append(queue[s], Packet(kind, serial[s], e, n))

(* Top of the loop with a seek requested: avformat_seek_file moves the     *)
(* demuxer to some position, or fails.                                     *)
SeekFile ==
    /\ rpc = "top" /\ seek_req
    /\ \/ /\ epoch' = epoch + 1
          /\ remaining' \in [Streams -> 0 .. MaxPackets]
          /\ sent' = [s \in Streams |-> 0]
          /\ todo' = Streams
          /\ rpc' = "flush"
       \/ /\ rpc' = "seeked"
          /\ UNCHANGED <<epoch, remaining, sent, todo>>
    /\ UNCHANGED <<queue, serial, decVars, frames, now, eof, loops, ended, userVars, passed,
                   dropped>>

(* packet_queue_flush ... *)
FlushQueue(s) ==
    /\ rpc = "flush" /\ s \in todo
    /\ queue' = [queue EXCEPT ![s] = <<>>]
    /\ now' = {s}
    /\ rpc' = "put flush"
    /\ UNCHANGED <<serial, decVars, frames, todo, eof, remaining, sent, loops, ended, userVars,
                   history>>

(* ... and, the lock released and taken again, packet_queue_put of the     *)
(* flush packet, which raises the serial of the queue.                     *)
PutFlush(s) ==
    /\ rpc = "put flush" /\ s \in now
    /\ serial' = [serial EXCEPT ![s] = @ + 1]
    /\ queue' = [queue EXCEPT ![s] = Append(@, Packet("flush", serial[s] + 1, 0, 0))]
    /\ now' = {} /\ todo' = todo \ {s}
    /\ rpc' = IF todo' = {} THEN "seeked" ELSE "flush"
    /\ UNCHANGED <<decVars, frames, eof, remaining, sent, loops, ended, userVars, history>>

(* The request is done with, successful or not. *)
SeekDone ==
    /\ rpc = "seeked"
    /\ seek_req' = FALSE
    /\ eof' = FALSE
    /\ rpc' = "enough"
    /\ UNCHANGED <<queue, serial, decVars, frames, todo, now, remaining, sent, loops, ended, seeks,
                   history>>

NoSeek ==
    /\ rpc = "top" /\ ~seek_req
    /\ rpc' = "enough"
    /\ UNCHANGED <<queue, serial, decVars, frames, todo, now, eof, remaining, sent, loops, ended,
                   userVars, history>>

(* Wait (at most 10 ms) while the queues hold enough. *)
QueuedPackets == {p \in Streams \X (1 .. MaxQueue + 2) : p[2] <= Len(queue[p[1]])}
Enough == \/ Cardinality(QueuedPackets) > MaxQueue
          \/ \A s \in Streams : Len(queue[s]) > MinFrames

CheckEnough ==
    /\ rpc = "enough"
    /\ IF Enough THEN rpc' = "top" /\ UNCHANGED todo
                 ELSE rpc' = "finished?" /\ todo' = Streams
    /\ UNCHANGED <<queue, serial, decVars, frames, now, eof, remaining, sent, loops, ended, userVars,
                   history>>

(* Has all been played?  For each stream first whether the decoder has     *)
(* finished this serial, then whether frames remain.                       *)
CheckFinished(s) ==
    /\ rpc = "finished?" /\ s \in todo
    /\ IF finished[s] = serial[s] THEN rpc' = "remaining?" /\ now' = {s}
                                  ELSE rpc' = "read" /\ now' = {}
    /\ UNCHANGED <<queue, serial, decVars, frames, todo, eof, remaining, sent, loops, ended,
                   userVars, history>>

CheckRemaining(s) ==
    /\ rpc = "remaining?" /\ s \in now
    /\ now' = {} /\ todo' = todo \ {s}
    /\ rpc' = IF frames[s] # <<>> THEN "read"
              ELSE IF todo' = {} THEN "all played" ELSE "finished?"
    /\ UNCHANGED <<queue, serial, decVars, frames, eof, remaining, sent, loops, ended, userVars,
                   history>>

(* All played: play again by a seek to the start, or exit, or go on. *)
AllPlayed ==
    /\ rpc = "all played"
    /\ IF loops # 1
       THEN /\ loops' = IF loops = 0 THEN 0 ELSE loops - 1
            /\ seek_req' = TRUE
            /\ rpc' = "read"
            /\ UNCHANGED ended
       ELSE /\ ended' = Autoexit
            /\ rpc' = IF Autoexit THEN "exited" ELSE "read"
            /\ UNCHANGED <<loops, seek_req>>
    /\ UNCHANGED <<seeks, queue, serial, decVars, frames, todo, now, eof, remaining, sent, history>>

(* av_read_frame gives a packet of some stream. *)
ReadPacket(s) ==
    /\ rpc = "read" /\ remaining[s] > 0
    /\ remaining' = [remaining EXCEPT ![s] = @ - 1]
    /\ sent' = [sent EXCEPT ![s] = @ + 1]
    /\ queue' = [queue EXCEPT ![s] = Put(s, "data", epoch, sent[s] + 1)]
    /\ eof' = FALSE
    /\ rpc' = "top"
    /\ UNCHANGED <<serial, decVars, frames, todo, now, loops, ended, userVars, history>>

(* End of the file: the first time, a null packet for every stream. *)
AtEof == rpc = "read" /\ \A s \in Streams : remaining[s] = 0

ReadEof ==
    /\ AtEof
    /\ IF eof THEN rpc' = "top" /\ UNCHANGED todo
              ELSE rpc' = "null" /\ todo' = Streams
    /\ UNCHANGED <<queue, serial, decVars, frames, now, eof, remaining, sent, loops, ended, userVars,
                   history>>

PutNull(s) ==
    /\ rpc = "null" /\ s \in todo
    /\ queue' = [queue EXCEPT ![s] = Put(s, "null", epoch, 0)]
    /\ todo' = todo \ {s}
    /\ eof' = (todo' = {})
    /\ rpc' = IF todo' = {} THEN "top" ELSE "null"
    /\ UNCHANGED <<serial, decVars, frames, now, remaining, sent, loops, ended, userVars, history>>

------------------------------------------------------------------------------
(* stream_seek from the event loop; ignored while a request is pending. *)
RequestSeek ==
    /\ seeks < MaxSeeks /\ ~seek_req /\ ~ended
    /\ seek_req' = TRUE
    /\ seeks' = seeks + 1
    /\ UNCHANGED <<queue, serial, decVars, frames, readVars, history>>

------------------------------------------------------------------------------
DecoderStep(s) == \/ CheckSerial(s) \/ ReceiveFrame(s) \/ DropEarly(s) \/ PushFrame(s)
                  \/ GetPacket(s) \/ ComparePacket(s) \/ CompareAgain(s) \/ FlushCodec(s)
                  \/ SendPacket(s)
ReadStep == \/ SeekFile \/ SeekDone \/ NoSeek \/ CheckEnough \/ AllPlayed \/ ReadEof
            \/ \E s \in Streams : \/ FlushQueue(s) \/ PutFlush(s) \/ CheckFinished(s)
                                  \/ CheckRemaining(s) \/ ReadPacket(s) \/ PutNull(s)

Next == \/ ReadStep \/ RequestSeek
        \/ \E s \in Streams : DecoderStep(s) \/ Consume(s)

Spec == Init /\ [][Next]_vars

(* The threads run; the consumers are called by the refresh timer and the  *)
(* audio device.  Nothing obliges the user to seek.                        *)
Fairness == /\ WF_vars(ReadStep)
            /\ \A s \in Streams : WF_vars(DecoderStep(s)) /\ WF_vars(Consume(s))

FairSpec == Spec /\ Fairness

------------------------------------------------------------------------------
(* Properties *)

Packets == [kind : {"none", "flush", "data", "null"}, serial : Nat, epoch : Nat, n : Nat]
Frames  == [serial : Nat, epoch : Nat, n : Nat]

(* The types; a frame queue never holds more than it has slots for. *)
TypeOK ==
    /\ queue \in [Streams -> Seq(Packets)]
    /\ serial \in [Streams -> Nat]
    /\ dpc \in [Streams -> {"check", "receive", "push", "get", "compare", "again", "send"}]
    /\ pkt_serial \in [Streams -> Int] /\ finished \in [Streams -> Int]
    /\ pkt \in [Streams -> Packets] /\ packet_pending \in [Streams -> BOOLEAN]
    /\ codec \in [Streams -> Seq(Frames)] /\ draining \in [Streams -> BOOLEAN]
    /\ frame \in [Streams -> Frames] /\ leaked \in [Streams -> BOOLEAN]
    /\ frames \in [Streams -> Seq(Frames)] /\ \A s \in Streams : Len(frames[s]) <= FrameCap
    /\ rpc \in {"top", "flush", "put flush", "seeked", "enough", "finished?", "remaining?",
                "all played", "read", "null", "exited"}
    /\ todo \subseteq Streams /\ now \subseteq Streams
    /\ eof \in BOOLEAN /\ ended \in BOOLEAN /\ seek_req \in BOOLEAN
    /\ remaining \in [Streams -> Nat] /\ sent \in [Streams -> Nat]
    /\ loops \in Nat /\ seeks \in Nat /\ epoch \in Nat
    /\ passed \in [Streams -> Frames]
    /\ dropped \in [Streams -> SUBSET Frames]

(* A frame queued with some serial number was decoded from a packet read   *)
(* while the packet queue had that number: whatever read_thread does in    *)
(* between, a decoder never labels data of before a seek as data of after. *)
LabelsRight == \A s \in Streams : \A i \in 1 .. Len(frames[s]) :
                  frames[s][i].serial = frames[s][i].epoch + 1

(* The codec is never asked to decode data of two sides of a seek without  *)
(* a reset in between: what it holds when given a packet is of its epoch.  *)
CodecOneEpoch == \A s \in Streams :
    dpc[s] = "send" /\ pkt[s].kind = "data" =>
        \A i \in 1 .. Len(codec[s]) : codec[s][i].epoch = pkt[s].epoch

(* The codec never refuses a packet: not as undelivered frames wait, which *)
(* the code logs as "an API violation", nor because it was drained and not *)
(* reset, which would lose the packet.                                     *)
NoApiViolation == \A s \in Streams :
    /\ ~packet_pending[s]
    /\ dpc[s] = "send" /\ pkt[s].kind = "data" => ~draining[s]

(* Playback goes forward: frame after frame as read from the file, with no *)
(* gap but at a seek and for frames dropped as late, and what the consumer *)
(* shows is of the last seek that has reached the packet queue, whatever   *)
(* is left in the frame queue.                                             *)
Forward == [][\A s \in Streams : passed'[s] # passed[s] =>
                /\ \/ passed'[s].epoch > passed[s].epoch
                   \/ /\ passed'[s].epoch = passed[s].epoch /\ passed'[s].n > passed[s].n
                      /\ \A n \in passed[s].n + 1 .. passed'[s].n - 1 :
                            \E f \in dropped[s] : f.epoch = passed[s].epoch /\ f.n = n
                /\ passed'[s].epoch + 1 = serial[s]
             ]_vars

(* When read_thread finds that all has been played, whether to loop or to  *)
(* exit, it has: the file is read to its end and the frame of the last     *)
(* packet of each stream has been taken for show, or dropped as late, with *)
(* decoders and consumers running all along.                               *)
NoPrematureEnd == rpc = "all played" =>
    \A s \in Streams : /\ remaining[s] = 0
                       /\ sent[s] > 0 => \E f \in dropped[s] \cup {passed[s]} :
                                            f.epoch = epoch /\ f.n = sent[s]

(* Queues, decoders and threads keep the promise of Player: what the file  *)
(* has given and gives still is its length, a stream follows a seek with   *)
(* its flush packet, and what the consumer takes is shown.                 *)
Mark(f) == [epoch |-> f.epoch, n |-> f.n]
Viewed == INSTANCE Player WITH
    wanted <- seek_req, length <- [s \in Streams |-> sent[s] + remaining[s]],
    current <- [s \in Streams |-> serial[s] - 1], shown <- [s \in Streams |-> Mark(passed[s])],
    late <- [s \in Streams |-> {Mark(f) : f \in dropped[s]}]

ImplementsPlayer == Viewed!Spec

(* Every packet that a decoder takes is decoded or released.  The code     *)
(* says so where it drops the packets of before a seek.                    *)
NoPacketLeak == \A s \in Streams : ~leaked[s]

(* A seek is carried out, however full the queues and busy the decoders,   *)
(* unless the player exits first.                                          *)
SeekServed == seek_req ~> (~seek_req \/ ended)

(* The file ends: with -autoexit, a bounded number of loops and a user who *)
(* stops seeking, the player gets to its exit.                             *)
EndReached == <>ended
=============================================================================
