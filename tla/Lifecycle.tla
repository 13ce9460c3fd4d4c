----------------------------- MODULE Lifecycle -----------------------------
(***************************************************************************)
(* Opening, switching and closing in ffplay/ffplay.c: the main thread runs *)
(* stream_open, switches streams (stream_cycle_channel) and closes the     *)
(* player (stream_close); read_thread opens the file and its streams and   *)
(* reads, using all the while the indices and the pointers of the streams  *)
(* that the main thread clears and sets; a decoder thread per open stream  *)
(* takes packets until its queue is aborted.                               *)
(*                                                                         *)
(* A step is one critical section, or one read or write of what another    *)
(* thread uses without a lock.  Serial numbers, seeks and frames are left  *)
(* to Playback.tla, the sleepers of a frame queue to FrameQueue.tla; the   *)
(* subtitle stream, attached pictures, files with programs and the options *)
(* -loop and -showmode are left out.                                       *)
(***************************************************************************)
EXTENDS Integers, Sequences, FiniteSets, FiniteSetsExt

CONSTANTS
    TypeOf,      \* the file: the type of the stream of each index
    Autoexit,    \* the option -autoexit
    Failures,    \* may memory, files, decoders, threads and reading fail
    MinFrames,   \* MIN_FRAMES: a stream with more packets has enough
    MaxPackets,  \* bound: packets of each stream of the file
    MaxSwitches  \* bound: presses of the keys that switch streams

Indexes == DOMAIN TypeOf
Types   == {"audio", "video"}

ASSUME FileAssumption ==
    TypeOf \in [Indexes -> Types] /\ IsFiniteSet(Indexes) /\ Indexes = 0 .. Cardinality(Indexes) - 1
ASSUME OptionsAssumption == Autoexit \in BOOLEAN /\ Failures \in BOOLEAN
ASSUME BoundsAssumption == MinFrames \in Nat /\ MaxPackets \in Nat /\ MaxSwitches \in Nat

None  == -1  \* no index, a NULL pointer
Flush == -1  \* the flush packet; a packet of data is the index of its stream
Null  == -2  \* the null packet

Main    == "main"
Reader  == "read_thread"
Threads == {Main, Reader}

Resources == {"frame queues", "packet queues", "condition"}

VARIABLES
    up,                 \* what stream_open has created and stream_close not yet destroyed
    ic,                 \* is->ic: NULL, open, or closed
    stream, st, last,   \* is->audio_stream, audio_st, last_audio_stream, and video alike
    abort_request, eof, \* is->abort_request, is->eof
    show_mode, width,   \* is->show_mode is not SHOW_MODE_NONE; is->width is not 0
    qabort, packets,    \* abort_request and contents of each packet queue
    decoder,            \* the decoder thread of each type
    fresh, finished,    \* no packet taken yet; finished = serial
    device,             \* the audio device calls sdl_audio_callback
    left, pkt,          \* packets the demuxer still has; the stream of the one it gave
    quit,               \* FF_QUIT_EVENT is posted
    fault,              \* a NULL pointer was followed: the program has crashed
    pc, todo, job,      \* where each thread is, the types it has still to treat, the stream it
                        \* opens or closes
    arg,                \* the pointer read_thread passed to stream_has_enough_packets
    switches            \* counter for the bound

resVars    == <<up, ic>>
streamVars == <<stream, st, last>>
flagVars   == <<abort_request, eof, show_mode, width, quit>>
queueVars  == <<qabort, packets>>
decVars    == <<decoder, fresh, finished, device>>
fileVars   == <<left, pkt, arg>>
vars == <<resVars, streamVars, flagVars, queueVars, decVars, fileVars, fault, pc, todo, job,
          switches>>

At(th, place)   == pc[th] = place /\ fault = "none"
Goto(th, place) == pc' = [pc EXCEPT ![th] = place]

NoJob == [type |-> "audio", index |-> None]

(* av_mallocz leaves 0 in the indices, which is the index of a stream. *)
Init == /\ up = {} /\ ic = "NULL"
        /\ stream = [t \in Types |-> 0] /\ st = [t \in Types |-> None]
        /\ last = [t \in Types |-> 0]
        /\ abort_request = FALSE /\ eof = FALSE /\ show_mode = FALSE /\ width = FALSE
        /\ qabort = [t \in Types |-> TRUE] /\ packets = [t \in Types |-> <<>>]
        /\ decoder = [t \in Types |-> "none"]
        /\ fresh = [t \in Types |-> FALSE] /\ finished = [t \in Types |-> FALSE]
        /\ device = FALSE
        /\ left = [i \in Indexes |-> MaxPackets] /\ pkt = None /\ arg = None
        /\ quit = FALSE /\ fault = "none"
        /\ pc = [th \in Threads |-> IF th = Main THEN "create" ELSE "none"]
        /\ todo = [th \in Threads |-> <<>>] /\ job = [th \in Threads |-> NoJob]
        /\ switches = 0

------------------------------------------------------------------------------
(* stream_component_open, by either thread, of the stream job[th] *)

Done(th) == Goto(th, IF th = Main THEN "loop" ELSE "open next")

(* The codec is looked up and opened, or something fails, perhaps before   *)
(* last_audio_stream (or video) is set.                                    *)
OpenCodec(th) ==
    /\ At(th, "open codec")
    /\ \/ last' = [last EXCEPT ![job[th].type] = job[th].index] /\ Goto(th, "clear eof")
       \/ Failures /\ Done(th)
          /\ last' \in {last, [last EXCEPT ![job[th].type] = job[th].index]}
    /\ UNCHANGED <<resVars, stream, st, flagVars, queueVars, decVars, fileVars, fault, todo, job,
                   switches>>

(* is->eof = 0; then the audio filters and the audio device, which may fail *)
ClearEof(th) ==
    /\ At(th, "clear eof")
    /\ eof' = FALSE
    /\ \/ Goto(th, "set index")
       \/ Failures /\ job[th].type = "audio" /\ Done(th)
    /\ UNCHANGED <<resVars, streamVars, abort_request, show_mode, width, quit, queueVars, decVars,
                   fileVars, fault, todo, job, switches>>

SetIndex(th) ==
    /\ At(th, "set index")
    /\ stream' = [stream EXCEPT ![job[th].type] = job[th].index]
    /\ Goto(th, "set pointer")
    /\ UNCHANGED <<resVars, st, last, flagVars, queueVars, decVars, fileVars, fault, todo, job,
                   switches>>

SetPointer(th) ==
    /\ At(th, "set pointer")
    /\ st' = [st EXCEPT ![job[th].type] = job[th].index]
    /\ Goto(th, "start queue")
    /\ UNCHANGED <<resVars, stream, last, flagVars, queueVars, decVars, fileVars, fault, todo, job,
                   switches>>

(* decoder_init and packet_queue_start *)
StartQueue(th) == LET t == job[th].type IN
    /\ At(th, "start queue")
    /\ fresh' = [fresh EXCEPT ![t] = TRUE]
    /\ finished' = [finished EXCEPT ![t] = FALSE]
    /\ qabort' = [qabort EXCEPT ![t] = FALSE]
    /\ packets' = [packets EXCEPT ![t] = Append(@, Flush)]
    /\ Goto(th, "start decoder")
    /\ UNCHANGED <<resVars, streamVars, flagVars, decoder, device, fileVars, fault, todo, job,
                   switches>>

(* The thread is created, and the audio device set going, or it is not and *)
(* the stream stays as it is.                                              *)
StartDecoder(th) == LET t == job[th].type IN
    /\ At(th, "start decoder")
    /\ \/ decoder' = [decoder EXCEPT ![t] = "running"] /\ device' = (device \/ t = "audio")
       \/ Failures /\ UNCHANGED <<decoder, device>>
    /\ Done(th)
    /\ UNCHANGED <<resVars, streamVars, flagVars, queueVars, fresh, finished, fileVars, fault,
                   todo, job, switches>>

Open(th) == \/ OpenCodec(th) \/ ClearEof(th) \/ SetIndex(th) \/ SetPointer(th)
            \/ StartQueue(th) \/ StartDecoder(th)

------------------------------------------------------------------------------
(* stream_component_close, by the main thread, of the stream job[Main] *)

(* A bug that AbortQueue has not: the thread is awaited, its queue not aborted. *)
AbortQueue_NotAborted ==
    /\ At(Main, "abort")
    /\ IF ic = "NULL" THEN fault' = "no context" /\ UNCHANGED pc
                      ELSE Goto(Main, "join") /\ UNCHANGED fault
    /\ UNCHANGED <<resVars, streamVars, flagVars, queueVars, decVars, fileVars, todo, job,
                   switches>>

(* The index is looked up in the context; then decoder_abort aborts the    *)
(* queue ...                                                               *)
AbortQueue ==
    /\ At(Main, "abort")
    /\ IF ic = "NULL"
       THEN fault' = "no context" /\ UNCHANGED <<qabort, pc>>
       ELSE /\ qabort' = [qabort EXCEPT ![job[Main].type] = TRUE]
            /\ Goto(Main, "join") /\ UNCHANGED fault
    /\ UNCHANGED <<resVars, streamVars, flagVars, packets, decVars, fileVars, todo, job, switches>>

(* ... waits for the thread and flushes the queue; the device is closed. *)
JoinDecoder == LET t == job[Main].type IN
    /\ At(Main, "join") /\ decoder[t] # "running"
    /\ decoder' = [decoder EXCEPT ![t] = "none"]
    /\ packets' = [packets EXCEPT ![t] = <<>>]
    /\ device' = (device /\ t # "audio")
    /\ Goto(Main, "clear pointer")
    /\ UNCHANGED <<resVars, streamVars, flagVars, qabort, fresh, finished, fileVars, fault, todo,
                   job, switches>>

ClearPointer ==
    /\ At(Main, "clear pointer")
    /\ st' = [st EXCEPT ![job[Main].type] = None]
    /\ Goto(Main, "clear index")
    /\ UNCHANGED <<resVars, stream, last, flagVars, queueVars, decVars, fileVars, fault, todo, job,
                   switches>>

(* Then the next stream is closed, or the one switched to is opened. *)
ClearIndex ==
    /\ At(Main, "clear index")
    /\ stream' = [stream EXCEPT ![job[Main].type] = None]
    /\ Goto(Main, IF abort_request THEN "close next" ELSE "open codec")
    /\ UNCHANGED <<resVars, st, last, flagVars, queueVars, decVars, fileVars, fault, todo, job,
                   switches>>

Close == AbortQueue \/ JoinDecoder \/ ClearPointer \/ ClearIndex

------------------------------------------------------------------------------
(* The main thread *)

(* stream_open creates the queues and the condition, in this order ... *)
Create ==
    /\ At(Main, "create")
    /\ \/ up' = Resources /\ Goto(Main, "create thread")
       \/ /\ Failures /\ up' \in {{}, {"frame queues"}, {"frame queues", "packet queues"}}
          /\ Goto(Main, "close")
    /\ UNCHANGED <<ic, streamVars, flagVars, queueVars, decVars, fileVars, fault, todo, job,
                   switches>>

(* ... and read_thread. *)
CreateThread ==
    /\ At(Main, "create thread")
    /\ \/ pc' = [pc EXCEPT ![Main] = "loop", ![Reader] = "mutex"]
       \/ Failures /\ Goto(Main, "close")
    /\ UNCHANGED <<resVars, streamVars, flagVars, queueVars, decVars, fileVars, fault, todo, job,
                   switches>>

(* video_display opens the window, once there is something to show. *)
Show ==
    /\ At(Main, "loop") /\ ~width /\ show_mode
    /\ \E t \in Types : st[t] # None
    /\ width' = TRUE
    /\ UNCHANGED <<resVars, streamVars, abort_request, eof, show_mode, quit, queueVars, decVars,
                   fileVars, fault, pc, todo, job, switches>>

(* stream_cycle_channel: the next stream of the type, around the file. *)
OfType(t) == {i \in Indexes : TypeOf[i] = t}

(* A bug that Cycled has not: the search does not go around. *)
Cycled_NotAround(t) == last[t] + 1

Cycled(t) == LET later == {i \in OfType(t) : i > last[t]}
             IN  IF later # {} THEN Min(later)
                 ELSE IF OfType(t) # {} THEN Min(OfType(t)) ELSE last[t]

(* A bug that KeyCycle has not: the key works without a window. *)
KeyCycle_NoWindow(t) ==
    /\ At(Main, "loop") /\ switches < MaxSwitches
    /\ switches' = switches + 1
    /\ IF Cycled(t) = last[t]
       THEN UNCHANGED <<job, pc>>
       ELSE /\ job' = [job EXCEPT ![Main] = [type |-> t, index |-> Cycled(t)]]
            /\ Goto(Main, IF stream[t] = None THEN "open codec" ELSE "abort")
    /\ UNCHANGED <<resVars, streamVars, flagVars, queueVars, decVars, fileVars, fault, todo>>

(* The keys are ignored until there is a window.  The key for all types is *)
(* a key for each, one after the other.                                    *)
KeyCycle(t) ==
    /\ At(Main, "loop") /\ width /\ switches < MaxSwitches
    /\ switches' = switches + 1
    /\ IF Cycled(t) = last[t]
       THEN UNCHANGED <<job, pc>>
       ELSE /\ job' = [job EXCEPT ![Main] = [type |-> t, index |-> Cycled(t)]]
            /\ Goto(Main, IF stream[t] = None THEN "open codec" ELSE "abort")
    /\ UNCHANGED <<resVars, streamVars, flagVars, queueVars, decVars, fileVars, fault, todo>>

(* The user quits, or read_thread asks for it. *)
KeyQuit ==
    /\ At(Main, "loop")
    /\ Goto(Main, "close")
    /\ UNCHANGED <<resVars, streamVars, flagVars, queueVars, decVars, fileVars, fault, todo, job,
                   switches>>
QuitEvent == quit /\ KeyQuit

(* stream_close: let read_thread end, ... *)
CloseBegin ==
    /\ At(Main, "close")
    /\ abort_request' = TRUE
    /\ Goto(Main, "wait")
    /\ UNCHANGED <<resVars, streamVars, eof, show_mode, width, quit, queueVars, decVars, fileVars,
                   fault, todo, job, switches>>

(* A bug that WaitReader has not: read_thread is not waited for. *)
WaitReader_NotAwaited ==
    /\ At(Main, "wait")
    /\ Goto(Main, "close next")
    /\ todo' = [todo EXCEPT ![Main] = <<"audio", "video">>]
    /\ UNCHANGED <<resVars, streamVars, flagVars, queueVars, decVars, fileVars, fault, job,
                   switches>>

WaitReader ==
    /\ At(Main, "wait") /\ pc[Reader] \in {"none", "ended"}
    /\ Goto(Main, "close next")
    /\ todo' = [todo EXCEPT ![Main] = <<"audio", "video">>]
    /\ UNCHANGED <<resVars, streamVars, flagVars, queueVars, decVars, fileVars, fault, job,
                   switches>>

(* ... close the streams that seem to be open, ... *)
CloseNext ==
    /\ At(Main, "close next") /\ todo[Main] # <<>>
    /\ todo' = [todo EXCEPT ![Main] = Tail(@)]
    /\ LET t == Head(todo[Main]) IN
       IF stream[t] # None
       THEN Goto(Main, "abort") /\ job' = [job EXCEPT ![Main] = [type |-> t, index |-> stream[t]]]
       ELSE UNCHANGED <<pc, job>>
    /\ UNCHANGED <<resVars, streamVars, flagVars, queueVars, decVars, fileVars, fault, switches>>

(* ... close the file and destroy the rest. *)
CloseInput ==
    /\ At(Main, "close next") /\ todo[Main] = <<>>
    /\ ic' = "closed"
    /\ Goto(Main, "destroy")
    /\ UNCHANGED <<up, streamVars, flagVars, queueVars, decVars, fileVars, fault, todo, job,
                   switches>>

Destroy ==
    /\ At(Main, "destroy")
    /\ up' = {}
    /\ Goto(Main, "exited")
    /\ UNCHANGED <<ic, streamVars, flagVars, queueVars, decVars, fileVars, fault, todo, job,
                   switches>>

------------------------------------------------------------------------------
(* read_thread: opening *)

(* The thread ends; it posts the quit event if something failed. *)
End(failed) == Goto(Reader, "ended") /\ quit' = (quit \/ failed)

(* Its mutex; then the indices, 0 until now, are set to -1. *)
CreateMutex ==
    /\ At(Reader, "mutex")
    /\ \/ /\ Goto(Reader, "input")
          /\ stream' = [t \in Types |-> None] /\ last' = [t \in Types |-> None]
          /\ UNCHANGED quit
       \/ Failures /\ End(TRUE) /\ UNCHANGED <<stream, last>>
    /\ UNCHANGED <<resVars, st, abort_request, eof, show_mode, width, queueVars, decVars, fileVars,
                   fault, todo, job, switches>>

OpenInput ==
    /\ At(Reader, "input")
    /\ \/ ic' = "open" /\ Goto(Reader, "open next") /\ UNCHANGED quit
       \/ Failures /\ ic' \in {"NULL", "open"} /\ End(TRUE)
    /\ todo' = [todo EXCEPT ![Reader] = <<"audio", "video">>]
    /\ UNCHANGED <<up, streamVars, abort_request, eof, show_mode, width, queueVars, decVars,
                   fileVars, fault, job, switches>>

(* The best stream of each type, audio first *)
OpenNext ==
    /\ At(Reader, "open next") /\ todo[Reader] # <<>>
    /\ todo' = [todo EXCEPT ![Reader] = Tail(@)]
    /\ LET t == Head(todo[Reader]) IN
       IF OfType(t) # {}
       THEN /\ Goto(Reader, "open codec")
            /\ job' = [job EXCEPT ![Reader] = [type |-> t, index |-> Min(OfType(t))]]
       ELSE UNCHANGED <<pc, job>>
    /\ UNCHANGED <<resVars, streamVars, flagVars, queueVars, decVars, fileVars, fault, switches>>

(* show_mode is chosen; without any stream the thread fails. *)
Opened ==
    /\ At(Reader, "open next") /\ todo[Reader] = <<>>
    /\ show_mode' = TRUE
    /\ IF \A t \in Types : stream[t] = None THEN End(TRUE)
                                           ELSE Goto(Reader, "top") /\ UNCHANGED quit
    /\ UNCHANGED <<resVars, streamVars, abort_request, eof, width, queueVars, decVars, fileVars,
                   fault, todo, job, switches>>

------------------------------------------------------------------------------
(* read_thread: the loop.  It goes through the types in the order of the   *)
(* code, todo[Reader], whose head is Type.                                 *)
Type == Head(todo[Reader])
Visit(place, types) == Goto(Reader, place) /\ todo' = [todo EXCEPT ![Reader] = types]
Others == Tail(todo[Reader])

(* Besides the seeks the top of the loop reads nothing of the streams. *)
Top ==
    /\ At(Reader, "top")
    /\ IF abort_request THEN End(FALSE) /\ UNCHANGED todo
                        ELSE Visit("enough pointer", <<"audio", "video">>) /\ UNCHANGED quit
    /\ UNCHANGED <<resVars, streamVars, abort_request, eof, show_mode, width, queueVars, decVars,
                   fileVars, fault, job, switches>>

(* stream_has_enough_packets is passed the pointer and the index ... *)
EnoughPointer ==
    /\ At(Reader, "enough pointer")
    /\ arg' = st[Type]
    /\ Goto(Reader, "enough index")
    /\ UNCHANGED <<resVars, streamVars, flagVars, queueVars, decVars, left, pkt, fault, todo, job,
                   switches>>

(* ... of the stream, and wants no more packets for one not open.  When    *)
(* all have enough, read_thread waits, and comes back to its top.          *)
EnoughOf == IF Others = <<>> THEN Visit("top", <<>>) ELSE Visit("enough pointer", Others)

EnoughIndex ==
    /\ At(Reader, "enough index")
    /\ IF stream[Type] = None THEN EnoughOf ELSE Goto(Reader, "enough queue") /\ UNCHANGED todo
    /\ UNCHANGED <<resVars, streamVars, flagVars, queueVars, decVars, fileVars, fault, job,
                   switches>>

(* Of an open one whose queue is not aborted it follows the pointer. *)
EnoughQueue ==
    /\ At(Reader, "enough queue")
    /\ IF ~qabort[Type] /\ arg = None
       THEN fault' = "no stream" /\ UNCHANGED <<pc, todo>>
       ELSE /\ IF qabort[Type] \/ Len(packets[Type]) > MinFrames
               THEN EnoughOf
               ELSE Visit("finished?", <<"audio", "video">>)
            /\ UNCHANGED fault
    /\ UNCHANGED <<resVars, streamVars, flagVars, queueVars, decVars, fileVars, job, switches>>

(* All is played when each open stream is (its frames left out here). *)
Finished ==
    /\ At(Reader, "finished?")
    /\ IF st[Type] # None /\ ~finished[Type] THEN Visit("read", <<>>)
       ELSE IF Others # <<>> THEN Visit("finished?", Others) ELSE Visit("all played", <<>>)
    /\ UNCHANGED <<resVars, streamVars, flagVars, queueVars, decVars, fileVars, fault, job,
                   switches>>

AllPlayed ==
    /\ At(Reader, "all played")
    /\ IF Autoexit THEN End(TRUE) ELSE Goto(Reader, "read") /\ UNCHANGED quit
    /\ UNCHANGED <<resVars, streamVars, abort_request, eof, show_mode, width, queueVars, decVars,
                   fileVars, fault, todo, job, switches>>

(* av_read_frame gives a packet, of an open stream or of another, ... *)
ReadPacket(i) ==
    /\ At(Reader, "read") /\ left[i] > 0
    /\ left' = [left EXCEPT ![i] = @ - 1]
    /\ pkt' = i
    /\ eof' = FALSE
    /\ Visit("match", <<"audio", "video">>)
    /\ UNCHANGED <<resVars, streamVars, abort_request, show_mode, width, quit, queueVars, decVars,
                   arg, fault, job, switches>>

(* ... or the end of the file, as which a failure to read it appears too   *)
(* and lasts, ...                                                          *)
ReadEof ==
    /\ At(Reader, "read") /\ (Failures \/ \A i \in Indexes : left[i] = 0)
    /\ left' = [i \in Indexes |-> 0]
    /\ IF eof THEN Visit("failed?", <<>>) ELSE Visit("drain?", <<"video", "audio">>)
    /\ UNCHANGED <<resVars, streamVars, flagVars, queueVars, decVars, pkt, arg, fault, job,
                   switches>>

(* ... or some other error. *)
ReadError ==
    /\ At(Reader, "read") /\ Failures
    /\ Goto(Reader, "failed?")
    /\ UNCHANGED <<resVars, streamVars, flagVars, queueVars, decVars, fileVars, fault, todo, job,
                   switches>>

(* A failure of the file ends the thread, but not the player; otherwise    *)
(* read_thread waits a little and tries again.                             *)
ReadAgain ==
    /\ At(Reader, "failed?")
    /\ \/ Goto(Reader, "top") /\ UNCHANGED quit
       \/ Failures /\ End(FALSE)
    /\ UNCHANGED <<resVars, streamVars, abort_request, eof, show_mode, width, queueVars, decVars,
                   fileVars, fault, todo, job, switches>>

(* Whose is the packet?  If nobody's, it is released. *)
Match ==
    /\ At(Reader, "match")
    /\ IF stream[Type] = pkt
       THEN Goto(Reader, IF Type = "video" THEN "disposition" ELSE "put") /\ UNCHANGED todo
       ELSE IF Others # <<>> THEN Visit("match", Others) ELSE Visit("top", <<>>)
    /\ UNCHANGED <<resVars, streamVars, flagVars, queueVars, decVars, fileVars, fault, job,
                   switches>>

(* Of a video stream the disposition is looked at. *)
Disposition ==
    /\ At(Reader, "disposition")
    /\ IF st["video"] = None THEN fault' = "no stream" /\ UNCHANGED pc
                             ELSE Goto(Reader, "put") /\ UNCHANGED fault
    /\ UNCHANGED <<resVars, streamVars, flagVars, queueVars, decVars, fileVars, todo, job,
                   switches>>

(* A bug that Put has not: abort_request is not looked at. *)
Put_Always(p) == packets' = [packets EXCEPT ![Type] = Append(@, p)]

(* packet_queue_put refuses a packet once the queue is aborted. *)
Put(p) == packets' = IF qabort[Type] THEN packets ELSE [packets EXCEPT ![Type] = Append(@, p)]

PutPacket ==
    /\ At(Reader, "put")
    /\ Put(pkt)
    /\ Visit("top", <<>>)
    /\ UNCHANGED <<resVars, streamVars, flagVars, qabort, decVars, fileVars, fault, job, switches>>

(* At the end of the file a null packet for each open stream, then is->eof *)
DrainTest ==
    /\ At(Reader, "drain?")
    /\ IF stream[Type] # None THEN Goto(Reader, "drain") /\ UNCHANGED todo
       ELSE IF Others # <<>> THEN Visit("drain?", Others) ELSE Visit("set eof", <<>>)
    /\ UNCHANGED <<resVars, streamVars, flagVars, queueVars, decVars, fileVars, fault, job,
                   switches>>

PutNull ==
    /\ At(Reader, "drain")
    /\ Put(Null)
    /\ IF Others # <<>> THEN Visit("drain?", Others) ELSE Visit("set eof", <<>>)
    /\ UNCHANGED <<resVars, streamVars, flagVars, qabort, decVars, fileVars, fault, job, switches>>

SetEof ==
    /\ At(Reader, "set eof")
    /\ eof' = TRUE
    /\ Goto(Reader, "failed?")
    /\ UNCHANGED <<resVars, streamVars, abort_request, show_mode, width, quit, queueVars, decVars,
                   fileVars, fault, todo, job, switches>>

------------------------------------------------------------------------------
(* The decoder thread of each type: it takes a packet, unless its queue is *)
(* aborted.  The flush packet resets it, the null packet finishes it.      *)
TakePacket(t) ==
    /\ fault = "none" /\ decoder[t] = "running" /\ ~qabort[t] /\ packets[t] # <<>>
    /\ packets' = [packets EXCEPT ![t] = Tail(@)]
    /\ fresh' = [fresh EXCEPT ![t] = FALSE]
    /\ finished' = [finished EXCEPT ![t] = Head(packets[t]) # Flush
                                           /\ (@ \/ Head(packets[t]) = Null)]
    /\ UNCHANGED <<resVars, streamVars, flagVars, qabort, decoder, device, fileVars, fault, pc,
                   todo, job, switches>>

EndDecoder(t) ==
    /\ fault = "none" /\ decoder[t] = "running" /\ qabort[t]
    /\ decoder' = [decoder EXCEPT ![t] = "exited"]
    /\ UNCHANGED <<resVars, streamVars, flagVars, queueVars, fresh, finished, device, fileVars,
                   fault, pc, todo, job, switches>>

------------------------------------------------------------------------------
StreamClose == CloseBegin \/ WaitReader \/ CloseNext \/ CloseInput \/ Destroy
MainStep    == Create \/ CreateThread \/ Show \/ QuitEvent \/ Close \/ StreamClose \/ Open(Main)
Keys        == KeyQuit \/ \E t \in Types : KeyCycle(t)
OpenFile    == CreateMutex \/ OpenInput \/ OpenNext \/ Opened
ReadLoop    == \/ Top \/ EnoughPointer \/ EnoughIndex \/ EnoughQueue \/ Finished \/ AllPlayed
               \/ (\E i \in Indexes : ReadPacket(i)) \/ ReadEof \/ ReadError \/ ReadAgain
               \/ Match \/ Disposition \/ PutPacket \/ DrainTest \/ PutNull \/ SetEof
ReadStep    == OpenFile \/ Open(Reader) \/ ReadLoop
DecoderStep(t) == TakePacket(t) \/ EndDecoder(t)

Next == MainStep \/ Keys \/ ReadStep \/ \E t \in Types : DecoderStep(t)

Spec == Init /\ [][Next]_vars

(* The threads run; nobody need press a key. *)
Fairness == WF_vars(MainStep) /\ WF_vars(ReadStep) /\ \A t \in Types : WF_vars(DecoderStep(t))

FairSpec == Spec /\ Fairness

------------------------------------------------------------------------------
(* Properties *)

OpenPlaces  == {"open codec", "clear eof", "set index", "set pointer", "start queue",
                "start decoder"}
ClosePlaces == {"abort", "join", "clear pointer", "clear index"}
Places == OpenPlaces \cup ClosePlaces \cup
          {"create", "create thread", "loop", "close", "wait", "close next", "destroy", "exited",
           "none", "mutex", "input", "open next", "top", "enough pointer", "enough index",
           "enough queue", "finished?", "all played", "read", "match", "disposition", "put",
           "drain?", "drain", "set eof", "failed?", "ended"}

(* The types *)
TypeOK ==
    /\ up \subseteq Resources /\ ic \in {"NULL", "open", "closed"}
    /\ stream \in [Types -> Indexes \cup {0, None}] /\ last \in [Types -> Indexes \cup {0, None}]
    /\ st \in [Types -> Indexes \cup {None}]
    /\ abort_request \in BOOLEAN /\ eof \in BOOLEAN /\ show_mode \in BOOLEAN
    /\ width \in BOOLEAN /\ device \in BOOLEAN /\ quit \in BOOLEAN
    /\ qabort \in [Types -> BOOLEAN] /\ fresh \in [Types -> BOOLEAN]
    /\ finished \in [Types -> BOOLEAN]
    /\ packets \in [Types -> Seq(Indexes \cup {Flush, Null})]
    /\ decoder \in [Types -> {"none", "running", "exited"}]
    /\ left \in [Indexes -> 0 .. MaxPackets]
    /\ pkt \in Indexes \cup {None} /\ arg \in Indexes \cup {None}
    /\ fault \in {"none", "no context", "no stream"}
    /\ pc \in [Threads -> Places] /\ todo \in [Threads -> Seq(Types)]
    /\ job \in [Threads -> [type : Types, index : Indexes \cup {0, None}]]
    /\ switches \in 0 .. MaxSwitches

(* Nothing is used before it is created or after it is destroyed: while    *)
(* read_thread, a decoder thread or the audio callback runs, the queues    *)
(* are there; the file is open as long as it is read; and a decoder thread *)
(* has the stream from which it takes the time base of its frames.         *)
NothingUsedDestroyed ==
    /\ pc[Reader] \notin {"none", "ended"} => up = Resources /\ ic # "closed"
    /\ pc[Reader] \notin {"none", "mutex", "input", "ended"} => ic = "open"
    /\ \A t \in Types : decoder[t] = "running" => up = Resources /\ st[t] # None
    /\ device => up = Resources

(* Each type has one thread at most that opens or closes it, and is opened *)
(* only after the decoder thread before has ended.  The keys are ignored   *)
(* until there is a window, and that is what keeps the main thread away    *)
(* from what read_thread is still opening.                                 *)
OpenedByOne ==
    /\ \A th \in Threads : pc[th] \in OpenPlaces => decoder[job[th].type] = "none"
    /\ pc[Main] \in OpenPlaces \cup ClosePlaces => pc[Reader] \notin OpenPlaces

(* A decoder starts with the flush packet: nothing that read_thread puts   *)
(* in while the stream is being switched gets in front of it.              *)
FlushFirst == [][\A t \in Types : fresh[t] /\ ~fresh'[t] => Head(packets[t]) = Flush]_vars

(* read_thread follows a NULL pointer only if streams are switched: the    *)
(* closing of the player and a failure to open a stream are safe.          *)
FaultOnlyBySwitch == fault = "no stream" => switches > 0

(* Once it is told to close, the player gets to its exit: read_thread, the *)
(* decoders and the main thread do not wait for each other in a circle.    *)
CloseEnds == abort_request ~> (pc[Main] = "exited" \/ fault # "none")

(* A failure to open the player is reported and ends the program, as the   *)
(* message of main says: closing what was not opened yet must not crash.   *)
FailsCleanly == fault # "no context"

(* With -autoexit the player exits at the end, as the text of the option   *)
(* says, whatever streams are switched to before.                          *)
ExitsAtEnd == <>(pc[Main] = "exited" \/ fault # "none")
=============================================================================
