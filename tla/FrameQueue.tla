----------------------------- MODULE FrameQueue -----------------------------
(***************************************************************************)
(* The ring of decoded frames between a decoder thread and its consumer    *)
(* (FrameQueue in ffplay/ffplay.c: pictq, sampq, subpq).                   *)
(*                                                                         *)
(* Three threads touch it: the writer (video_thread, audio_thread or       *)
(* subtitle_thread), the reader (the refresh loop for pictq and subpq, the *)
(* SDL audio callback for sampq) and the closer (decoder_abort, called by  *)
(* stream_component_close).  The two indices and the frames in the slots   *)
(* are touched with no lock held; only size is changed under f->mutex, and *)
(* the one condition variable f->cond is shared by both kinds of waiters.  *)
(* Every step below is one critical section or one unlocked access.        *)
(***************************************************************************)
EXTENDS Integers, Sequences, FiniteSets

CONSTANTS
    MaxSize,      \* f->max_size
    KeepLast,     \* f->keep_last
    ReaderBlocks, \* the reader is the audio callback: it calls frame_queue_peek_readable
    MaxFrames     \* bound: frames the writer decodes

(* The queues of ffplay have 3, 9 and 16 slots.  With one slot a kept      *)
(* frame would leave the writer no place at all.                           *)
ASSUME SizeAssumption == MaxSize \in Nat /\ MaxSize >= 2
ASSUME ModeAssumption == KeepLast \in BOOLEAN /\ ReaderBlocks \in BOOLEAN
ASSUME BoundAssumption == MaxFrames \in Nat

Slots   == 0 .. MaxSize - 1
NoFrame == 0

VARIABLES
    queue,          \* queue[i]: the frame in slot i, NoFrame after av_frame_unref
    rindex, windex, \* reader's and writer's next slot
    size,           \* f->size
    rindex_shown,   \* f->rindex_shown
    abort_request,  \* pktq->abort_request
    waitSet,        \* the threads asleep on f->cond
    wpc, rpc, apc,  \* where writer, reader and closer are
    held,           \* the slots the reader holds a Frame pointer to
    produced,       \* history: number of the last frame pushed
    taken           \* history: number of the last frame the reader took

vars == <<queue, rindex, windex, size, rindex_shown, abort_request, waitSet,
          wpc, rpc, apc, held, produced, taken>>

ring    == <<rindex, windex, size, rindex_shown, queue>>
history == <<produced, taken>>

Writer == "writer"
Reader == "reader"

------------------------------------------------------------------------------
(* Slots *)

(* (rindex + k) % max_size *)
SlotAt(k) == (rindex + k) % MaxSize

(* ++index, back to 0 at max_size *)
NextIndex(i) == IF i + 1 = MaxSize THEN 0 ELSE i + 1

(* Faulty variant: the frame already shown is counted again. *)
NbRemaining_CountsShown == size

(* frame_queue_nb_remaining *)
NbRemaining == size - rindex_shown

(* frame_queue_peek_last, once a frame was shown: the slot that is read    *)
(* again at every redraw, and that is->audio_buf may point into.           *)
ShownSlot == IF KeepLast /\ rindex_shown = 1 THEN {rindex} ELSE {}

(* SDL_CondSignal(f->cond): wakes one of the threads asleep, if any. *)
CondSignal == IF waitSet = {} THEN waitSet' = {}
              ELSE \E t \in waitSet : waitSet' = waitSet \ {t}

------------------------------------------------------------------------------
Init == /\ queue = [i \in Slots |-> NoFrame]
        /\ rindex = 0 /\ windex = 0 /\ size = 0 /\ rindex_shown = 0
        /\ abort_request = FALSE
        /\ waitSet = {}
        /\ wpc = "decode" /\ rpc = "idle" /\ apc = "open"
        /\ held = {}
        /\ produced = 0 /\ taken = 0

------------------------------------------------------------------------------
(* Faulty variants of the steps below, each a plausible slip in the code:  *)
(* with it in place of the step the properties at the end must fail.       *)

PeekWritable_OffByOne ==
    /\ wpc = "peek" /\ Writer \notin waitSet
    /\ IF size > MaxSize /\ ~abort_request
       THEN /\ waitSet' = waitSet \cup {Writer}
            /\ UNCHANGED wpc
       ELSE /\ wpc' = "writable"
            /\ UNCHANGED waitSet
    /\ UNCHANGED <<ring, abort_request, rpc, apc, held, history>>

PeekFrames_NextUnchecked ==
    /\ ~ReaderBlocks
    /\ rpc = "idle" /\ apc = "open"
    /\ NbRemaining > 0
    /\ held' = {rindex, SlotAt(rindex_shown), SlotAt(rindex_shown + 1)}
    /\ rpc' = "peeked"
    /\ UNCHANGED <<ring, abort_request, waitSet, wpc, apc, history>>

PeekReadable_IgnoresAbort ==
    /\ ReaderBlocks
    /\ rpc \in {"idle", "peek"} /\ (rpc = "idle" => apc \notin {"closing", "closed"})
    /\ Reader \notin waitSet
    /\ IF NbRemaining <= 0
       THEN /\ waitSet' = waitSet \cup {Reader}
            /\ rpc' = "peek"
       ELSE /\ rpc' = "readable"
            /\ UNCHANGED waitSet
    /\ UNCHANGED <<ring, abort_request, wpc, apc, held, history>>

NextShown_FreesSlot ==
    /\ rpc = "peeked"
    /\ KeepLast /\ rindex_shown = 0
    /\ rindex_shown' = 1
    /\ size' = size - 1
    /\ taken' = queue[SlotAt(rindex_shown)]
    /\ held' = {rindex}
    /\ rpc' = "idle"
    /\ UNCHANGED <<queue, rindex, windex, abort_request, waitSet, wpc, apc, produced>>

NextUnref_FreesNext ==
    /\ rpc = "peeked"
    /\ ~(KeepLast /\ rindex_shown = 0)
    /\ taken' = queue[SlotAt(rindex_shown)]
    /\ queue' = [queue EXCEPT ![SlotAt(rindex_shown)] = NoFrame]
    /\ held' = held \ {SlotAt(rindex_shown)}
    /\ rpc' = "unreffed"
    /\ UNCHANGED <<rindex, windex, size, rindex_shown, abort_request, waitSet,
                   wpc, apc, produced>>

NextSize_NoSignal ==
    /\ rpc = "advanced"
    /\ size' = size - 1
    /\ held' = ShownSlot
    /\ rpc' = "idle"
    /\ UNCHANGED <<queue, rindex, windex, rindex_shown, abort_request, waitSet,
                   wpc, apc, history>>

------------------------------------------------------------------------------
(* The writer: decoder_decode_frame, then frame_queue_peek_writable, the   *)
(* assignments to *vp, frame_queue_push.                                   *)

(* The decoder has a frame for the queue. *)
Decoded == /\ wpc = "decode"
           /\ produced < MaxFrames
           /\ wpc' = "peek"
           /\ UNCHANGED <<ring, abort_request, waitSet, rpc, apc, held, history>>

(* decoder_decode_frame returns -1 once its packet queue is aborted. *)
DecodeAborted == /\ wpc = "decode"
                 /\ abort_request
                 /\ wpc' = "exited"
                 /\ UNCHANGED <<ring, abort_request, waitSet, rpc, apc, held, history>>

(* The loop of frame_queue_peek_writable, under f->mutex: sleep while the  *)
(* ring is full and nobody asked for the end.                              *)
PeekWritable ==
    /\ wpc = "peek" /\ Writer \notin waitSet
    /\ IF size >= MaxSize /\ ~abort_request
       THEN /\ waitSet' = waitSet \cup {Writer}
            /\ UNCHANGED wpc
       ELSE /\ wpc' = "writable"
            /\ UNCHANGED waitSet
    /\ UNCHANGED <<ring, abort_request, rpc, apc, held, history>>

(* After the unlock abort_request is read again: NULL ends the thread,     *)
(* otherwise the caller gets &queue[windex] and starts to fill it.         *)
GetWritable == /\ wpc = "writable"
               /\ wpc' = IF abort_request THEN "exited" ELSE "fill"
               /\ UNCHANGED <<ring, abort_request, waitSet, rpc, apc, held, history>>

(* av_frame_move_ref into the slot: the last write to it. *)
Fill == /\ wpc = "fill"
        /\ queue' = [queue EXCEPT ![windex] = produced + 1]
        /\ wpc' = "push"
        /\ UNCHANGED <<rindex, windex, size, rindex_shown, abort_request, waitSet,
                       rpc, apc, held, history>>

(* frame_queue_push, before the lock *)
PushIndex == /\ wpc = "push"
             /\ windex' = NextIndex(windex)
             /\ wpc' = "pushed"
             /\ UNCHANGED <<queue, rindex, size, rindex_shown, abort_request, waitSet,
                            rpc, apc, held, history>>

(* frame_queue_push, under the lock *)
PushSize == /\ wpc = "pushed"
            /\ size' = size + 1
            /\ CondSignal
            /\ produced' = produced + 1
            /\ wpc' = "decode"
            /\ UNCHANGED <<queue, rindex, windex, rindex_shown, abort_request,
                           rpc, apc, held, taken>>

------------------------------------------------------------------------------
(* The reader.  The refresh loop runs in the thread that also closes the   *)
(* streams, so it takes no step while the closer is at work; the audio     *)
(* device goes on calling back until SDL_CloseAudioDevice.                 *)
ReaderRuns == apc = "open" \/ (ReaderBlocks /\ apc \notin {"closing", "closed"})

(* video_refresh: a frame remains, so it takes pointers to the last one    *)
(* shown, to the next one to show and, with two remaining, to the one      *)
(* after it.  Without rindex_shown the first two are the same slot.        *)
PeekFrames == /\ ~ReaderBlocks
              /\ rpc = "idle" /\ ReaderRuns
              /\ NbRemaining > 0
              /\ held' = {rindex, SlotAt(rindex_shown)}
                            \cup (IF NbRemaining > 1 THEN {SlotAt(rindex_shown + 1)} ELSE {})
              /\ rpc' = "peeked"
              /\ UNCHANGED <<ring, abort_request, waitSet, wpc, apc, history>>

(* video_refresh shows the last frame a little longer. *)
ShowLonger == /\ ~ReaderBlocks
              /\ rpc = "peeked"
              /\ held' = ShownSlot
              /\ rpc' = "idle"
              /\ UNCHANGED <<ring, abort_request, waitSet, wpc, apc, history>>

(* audio_decode_frame returns -1 when paused, or when no frame came in     *)
(* time; the callback drops is->audio_buf and plays silence.               *)
Silence == /\ ReaderBlocks
           /\ rpc = "idle" /\ ReaderRuns
           /\ held # {}
           /\ held' = {}
           /\ UNCHANGED <<ring, abort_request, waitSet, wpc, rpc, apc, history>>

(* frame_queue_peek_readable, under f->mutex.  The frame whose data        *)
(* is->audio_buf points into stays held meanwhile.                         *)
PeekReadable ==
    /\ ReaderBlocks
    /\ \/ rpc = "idle" /\ ReaderRuns
       \/ rpc = "peek"
    /\ Reader \notin waitSet
    /\ IF NbRemaining <= 0 /\ ~abort_request
       THEN /\ waitSet' = waitSet \cup {Reader}
            /\ rpc' = "peek"
       ELSE /\ rpc' = "readable"
            /\ UNCHANGED waitSet
    /\ UNCHANGED <<ring, abort_request, wpc, apc, held, history>>

(* ... and after the unlock: NULL when aborted (again silence), else the   *)
(* slot to read.                                                           *)
GetReadable ==
    /\ rpc = "readable"
    /\ IF abort_request
       THEN rpc' = "idle" /\ held' = {}
       ELSE rpc' = "peeked" /\ held' = held \cup {SlotAt(rindex_shown)}
    /\ UNCHANGED <<ring, abort_request, waitSet, wpc, apc, history>>

(* frame_queue_next for a queue that keeps its last frame, first call: the *)
(* frame becomes the shown one and stays in its slot.                      *)
NextShown == /\ rpc = "peeked"
             /\ KeepLast /\ rindex_shown = 0
             /\ rindex_shown' = 1
             /\ taken' = queue[SlotAt(rindex_shown)]
             /\ held' = {rindex}
             /\ rpc' = "idle"
             /\ UNCHANGED <<queue, rindex, windex, size, abort_request, waitSet,
                            wpc, apc, produced>>

(* frame_queue_next, later calls: frame_queue_unref_item(&queue[rindex]).  *)
NextUnref == /\ rpc = "peeked"
             /\ ~(KeepLast /\ rindex_shown = 0)
             /\ taken' = queue[SlotAt(rindex_shown)]
             /\ queue' = [queue EXCEPT ![rindex] = NoFrame]
             /\ held' = held \ {rindex}
             /\ rpc' = "unreffed"
             /\ UNCHANGED <<rindex, windex, size, rindex_shown, abort_request, waitSet,
                            wpc, apc, produced>>

(* ++rindex, still with no lock *)
NextRindex == /\ rpc = "unreffed"
              /\ rindex' = NextIndex(rindex)
              /\ rpc' = "advanced"
              /\ UNCHANGED <<queue, windex, size, rindex_shown, abort_request, waitSet,
                             wpc, apc, held, history>>

(* size--, under the lock.  The reader goes on holding the frame it has    *)
(* taken when the queue keeps it (audio_buf, video_image_display).         *)
NextSize == /\ rpc = "advanced"
            /\ size' = size - 1
            /\ CondSignal
            /\ held' = ShownSlot
            /\ rpc' = "idle"
            /\ UNCHANGED <<queue, rindex, windex, rindex_shown, abort_request,
                           wpc, apc, history>>

------------------------------------------------------------------------------
(* The closer: stream_component_close, and the decoder_start of a later    *)
(* stream_component_open on the same queues.                               *)

(* packet_queue_abort: under the mutex of the packet queue, not this one.  *)
AbortQueue == /\ apc = "open"
              /\ ReaderBlocks \/ rpc = "idle"
              /\ abort_request' = TRUE
              /\ apc' = "aborted"
              /\ UNCHANGED <<ring, waitSet, wpc, rpc, held, history>>

(* frame_queue_signal *)
SignalFrames == /\ apc = "aborted"
                /\ CondSignal
                /\ apc' = "signalled"
                /\ UNCHANGED <<ring, abort_request, wpc, rpc, held, history>>

(* SDL_WaitThread returns once the decoder thread has ended. *)
JoinWriter == /\ apc = "signalled"
              /\ wpc = "exited"
              /\ apc' = "joined"
              /\ UNCHANGED <<ring, abort_request, waitSet, wpc, rpc, held, history>>

(* SDL_CloseAudioDevice: no new callback starts ... *)
StopCallbacks == /\ apc = "joined"
                 /\ apc' = "closing"
                 /\ UNCHANGED <<ring, abort_request, waitSet, wpc, rpc, held, history>>

(* ... and the one that runs has returned; audio_buf is dropped.  For the  *)
(* other queues the reader is the closing thread itself.                   *)
CloseReader == /\ apc = "closing"
               /\ rpc = "idle"
               /\ apc' = "closed"
               /\ held' = {}
               /\ UNCHANGED <<ring, abort_request, waitSet, wpc, rpc, history>>

(* stream_component_open for another stream: packet_queue_start clears     *)
(* abort_request, a new decoder thread starts; the ring is as it was.      *)
Reopen == /\ apc = "closed"
          /\ abort_request' = FALSE
          /\ apc' = "open"
          /\ wpc' = "decode"
          /\ held' = IF ReaderBlocks THEN {} ELSE ShownSlot
          /\ UNCHANGED <<ring, waitSet, rpc, history>>

------------------------------------------------------------------------------
WriterStep == Decoded \/ DecodeAborted \/ PeekWritable \/ GetWritable \/ Fill
                \/ PushIndex \/ PushSize
ReaderStep == PeekFrames \/ ShowLonger \/ Silence \/ PeekReadable \/ GetReadable
                \/ NextShown \/ NextUnref \/ NextRindex \/ NextSize
CloserStep == AbortQueue \/ SignalFrames \/ JoinWriter \/ StopCallbacks \/ CloseReader
                \/ Reopen

Next == WriterStep \/ ReaderStep \/ CloserStep

Spec == Init /\ [][Next]_vars

(* Every thread that can run does run.  Nothing obliges the user to close  *)
(* a stream (AbortQueue) or to open another one (Reopen), the stream to    *)
(* have more frames (Decoded), or the refresh loop to show a frame.        *)
Decodes == DecodeAborted \/ PeekWritable \/ GetWritable \/ Fill \/ PushIndex \/ PushSize
Closes  == SignalFrames \/ JoinWriter \/ StopCallbacks \/ CloseReader

Fairness == WF_vars(Decodes) /\ WF_vars(rpc # "idle" /\ ReaderStep) /\ WF_vars(Closes)

FairSpec == Spec /\ Fairness

------------------------------------------------------------------------------
(* Properties *)

(* Every variable of the ring has its type; in particular the indices stay *)
(* in the array and size between 0 and max_size.                           *)
TypeOK == /\ queue \in [Slots -> 0 .. MaxFrames]
          /\ rindex \in Slots /\ windex \in Slots
          /\ size \in 0 .. MaxSize
          /\ rindex_shown \in 0 .. 1
          /\ abort_request \in BOOLEAN
          /\ waitSet \subseteq {Writer, Reader}
          /\ wpc \in {"decode", "peek", "writable", "fill", "push", "pushed", "exited"}
          /\ rpc \in {"idle", "peek", "readable", "peeked", "unreffed", "advanced"}
          /\ apc \in {"open", "aborted", "signalled", "joined", "closing", "closed"}
          /\ held \subseteq Slots
          /\ produced \in 0 .. MaxFrames /\ taken \in 0 .. MaxFrames

(* The slot a decoder thread fills, without any lock, is never one that    *)
(* the consumer still reads: not the frame being shown (or played out of   *)
(* audio_buf), nor the next one, nor the one after it.                     *)
NoOverwrite == wpc \in {"fill", "push"} => windex \notin held

(* A slot the consumer has a pointer to holds a frame: frame_queue_next    *)
(* unreferences no slot that is still going to be read.                    *)
HeldSlotsFilled == \A i \in held : queue[i] # NoFrame

(* A thread asleep on f->cond has a reason to be: the ring is full for the *)
(* writer, empty for the reader, and no abort has been signalled.  So the  *)
(* one SDL_CondSignal of each change, which may wake either thread, never  *)
(* wakes the wrong one.                                                    *)
NoLostWakeup == /\ Writer \in waitSet => size = MaxSize
                /\ Reader \in waitSet => NbRemaining = 0
                /\ waitSet # {} /\ abort_request => apc = "aborted"

(* frame_queue_peek_last (854) gives the frame taken last, whatever the    *)
(* decoder has put into the ring since: it is what is painted again at     *)
(* every expose, what vp_duration measures from and what the sound plays   *)
(* out of.  Only while frame_queue_next replaces it is there none.         *)
LastShown == rindex_shown = 1 /\ rpc # "unreffed" => queue[rindex] = taken

(* The ring implements the queue of FrameFifo: the frames waiting are      *)
(* those from the first not taken yet on, and the frame kept is the last   *)
(* taken.  A push counts when size grows, a take when frame_queue_next     *)
(* gives up the frame before.                                              *)
FirstWaiting == IF rpc = "unreffed" THEN rindex_shown + 1 ELSE rindex_shown
NbWaiting == IF rpc \in {"unreffed", "advanced"} THEN NbRemaining - 1 ELSE NbRemaining
Waiting == [k \in 1 .. NbWaiting |-> queue[SlotAt(FirstWaiting + k - 1)]]

Fifo == INSTANCE FrameFifo WITH Capacity <- MaxSize, waiting <- Waiting,
                                last <- IF KeepLast THEN taken ELSE 0

ImplementsFifo == Fifo!Spec

(* decoder_abort gets both sleepers out: once the queue is aborted the     *)
(* decoder thread ends, the callback returns and the stream is closed.     *)
AbortTerminates == apc = "aborted" ~> apc = "closed"
=============================================================================
