------------------------------ MODULE Control ------------------------------
(***************************************************************************)
(* Pause, single step and seek requests in ffplay/ffplay.c.  Two threads   *)
(* act on the same plain variables of VideoState with no lock: the main    *)
(* thread, which handles the keys and refreshes the picture, and           *)
(* read_thread, which carries out seeks, steps to the next frame after a   *)
(* seek while paused, seeks itself to play in a loop, and tells the        *)
(* demuxer when pausing begins and ends.                                   *)
(*                                                                         *)
(* A step is one read or one write of a variable that the other thread     *)
(* writes, in the order of the source.  Of the packets and decoders only   *)
(* the serial number is left: a seek raises it and outdates the frame that *)
(* waits to be shown (Playback.tla has the rest).                          *)
(***************************************************************************)
EXTENDS Naturals

CONSTANTS
    MaxToggles, \* bound: presses of the pause key
    MaxSteps,   \* bound: presses of the step key
    MaxSeeks,   \* bound: seeks of the user
    MaxLoops    \* bound: restarts by the option -loop, 0 without it

ASSUME BoundsAssumption == /\ MaxToggles \in Nat /\ MaxSteps \in Nat
                           /\ MaxSeeks \in Nat /\ MaxLoops \in Nat

Main    == "main"
Reader  == "read_thread"
Threads == {Main, Reader}

VARIABLES
    paused,             \* is->paused
    step,               \* is->step
    seek_req,           \* is->seek_req
    seek_pos, seek_rel, \* is->seek_pos; is->seek_rel with seek_flags: the request they come from
    last_paused,        \* is->last_paused
    demuxPaused,        \* what av_read_pause, av_read_play told the demuxer last
    serial,             \* videoq.serial
    waiting,            \* serial of the frame that waits in pictq, 0 for none
    shown,              \* serial of the frame on the screen
    pc,                 \* where each thread is
    then,               \* where it goes on after stream_toggle_pause or stream_seek
    value,              \* the local value of !is->paused in stream_toggle_pause
    request,            \* the number of the request a call of stream_seek makes
    served,             \* the position and the interval read_thread seeks with
    accepted,           \* history: the last request stream_seek did not ignore
    requests, toggles, steps, loops  \* counters for the bounds

pauseVars == <<paused, step, then, value>>
seekVars  == <<seek_req, seek_pos, seek_rel, request, served, accepted>>
showVars  == <<serial, waiting, shown>>
pollVars  == <<last_paused, demuxPaused>>
counters  == <<requests, toggles, steps, loops>>
vars == <<pauseVars, seekVars, showVars, pollVars, counters, pc>>

At(t, place)   == pc[t] = place
Goto(t, place) == pc' = [pc EXCEPT ![t] = place]

\* Locals that are used no more have their first value again.
Unserved == [pos |-> 0, rel |-> 0]

Init == /\ paused = FALSE /\ step = FALSE
        /\ seek_req = FALSE /\ seek_pos = 0 /\ seek_rel = 0
        /\ last_paused = FALSE /\ demuxPaused = FALSE
        /\ serial = 1 /\ waiting = 0 /\ shown = 0
        /\ pc = [t \in Threads |-> IF t = Main THEN "loop" ELSE "pause?"]
        /\ then = [t \in Threads |-> "loop"]
        /\ value = [t \in Threads |-> FALSE]
        /\ request = [t \in Threads |-> 0]
        /\ served = Unserved
        /\ accepted = 0
        /\ requests = 0 /\ toggles = 0 /\ steps = 0 /\ loops = 0

------------------------------------------------------------------------------
(* Faulty variants of the steps below, each a plausible slip in the code:  *)
(* with it in place of the step the properties at the end must fail.       *)

(* the request is over, for the user, before its interval has been copied *)
ServeTest_ClearsEarly ==
    /\ At(Reader, "seek?")
    /\ seek_req' = FALSE
    /\ IF seek_req THEN Goto(Reader, "serve rel") /\ served' = [served EXCEPT !.pos = seek_pos]
                   ELSE Goto(Reader, "played?") /\ UNCHANGED served
    /\ UNCHANGED <<seek_pos, seek_rel, request, accepted, pauseVars, showVars, pollVars, counters>>

(* the new position is added to the one of the request before *)
SeekPos_Accumulates(t) ==
    /\ At(t, "seek pos")
    /\ seek_pos' = seek_pos + request[t]
    /\ Goto(t, "seek rel")
    /\ UNCHANGED <<seek_req, seek_rel, request, served, accepted, pauseVars, showVars, pollVars,
                   counters>>

(* the player is not paused again after the frame *)
RefreshStep_StaysOn ==
    /\ At(Main, "shown")
    /\ Goto(Main, "loop")
    /\ UNCHANGED <<then, paused, step, value, seekVars, showVars, pollVars, counters>>

------------------------------------------------------------------------------
(* stream_toggle_pause, by either thread: !is->paused is computed, stored  *)
(* into the three clocks (left out here) and then into is->paused.         *)
ToggleRead(t) ==
    /\ At(t, "toggle")
    /\ value' = [value EXCEPT ![t] = ~paused]
    /\ Goto(t, "toggle paused")
    /\ UNCHANGED <<paused, step, then, seekVars, showVars, pollVars, counters>>

ToggleWrite(t) ==
    /\ At(t, "toggle paused")
    /\ paused' = value[t]
    /\ value' = [value EXCEPT ![t] = FALSE]
    /\ Goto(t, then[t])
    /\ UNCHANGED <<step, then, seekVars, showVars, pollVars, counters>>

(* step_to_next_frame: unpause if paused, then ask for one frame. *)
StepTest(t) ==
    /\ At(t, "step?")
    /\ IF paused THEN Goto(t, "toggle") /\ then' = [then EXCEPT ![t] = "set step"]
                 ELSE Goto(t, "set step") /\ UNCHANGED then
    /\ UNCHANGED <<paused, step, value, seekVars, showVars, pollVars, counters>>

SetStep(t) ==
    /\ At(t, "set step")
    /\ step' = TRUE
    /\ Goto(t, IF t = Main THEN "loop" ELSE "played?")
    /\ UNCHANGED <<paused, then, value, seekVars, showVars, pollVars, counters>>

(* stream_seek: ignored while a request is pending; seek_req comes last. *)
SeekTest(t) ==
    /\ At(t, "seek test")
    /\ IF seek_req
       THEN Goto(t, then[t]) /\ UNCHANGED accepted
       ELSE Goto(t, "seek pos") /\ accepted' = request[t]
    /\ UNCHANGED <<seek_req, seek_pos, seek_rel, request, served, pauseVars, showVars, pollVars,
                   counters>>

SeekPos(t) ==
    /\ At(t, "seek pos")
    /\ seek_pos' = request[t]
    /\ Goto(t, "seek rel")
    /\ UNCHANGED <<seek_req, seek_rel, request, served, accepted, pauseVars, showVars, pollVars,
                   counters>>

SeekRel(t) ==
    /\ At(t, "seek rel")
    /\ seek_rel' = request[t]
    /\ Goto(t, "seek req")
    /\ UNCHANGED <<seek_req, seek_pos, request, served, accepted, pauseVars, showVars, pollVars,
                   counters>>

SeekReq(t) ==
    /\ At(t, "seek req")
    /\ seek_req' = TRUE
    /\ Goto(t, then[t])
    /\ UNCHANGED <<seek_pos, seek_rel, request, served, accepted, pauseVars, showVars, pollVars,
                   counters>>

------------------------------------------------------------------------------
(* The main thread *)

(* toggle_pause: after the toggle step is cleared. *)
KeyPause ==
    /\ At(Main, "loop") /\ toggles < MaxToggles
    /\ toggles' = toggles + 1
    /\ then' = [then EXCEPT ![Main] = "clear step"]
    /\ Goto(Main, "toggle")
    /\ UNCHANGED <<paused, step, value, seekVars, showVars, pollVars, requests, steps,
                   loops>>

ClearStep ==
    /\ At(Main, "clear step")
    /\ step' = FALSE
    /\ Goto(Main, "loop")
    /\ UNCHANGED <<paused, then, value, seekVars, showVars, pollVars, counters>>

KeyStep ==
    /\ At(Main, "loop") /\ steps < MaxSteps
    /\ steps' = steps + 1
    /\ Goto(Main, "step?")
    /\ UNCHANGED <<pauseVars, seekVars, showVars, pollVars, requests, toggles, loops>>

KeySeek ==
    /\ At(Main, "loop") /\ requests < MaxSeeks
    /\ requests' = requests + 1
    /\ request' = [request EXCEPT ![Main] = requests + 1]
    /\ then' = [then EXCEPT ![Main] = "loop"]
    /\ Goto(Main, "seek test")
    /\ UNCHANGED <<seek_req, seek_pos, seek_rel, served, accepted, paused, step, value,
                   showVars, pollVars, toggles, steps, loops>>

(* video_refresh, called while not paused and, after an event of the       *)
(* window, while paused: a frame of an older serial is skipped, and        *)
(* pausing is tested before a frame is shown.                              *)
RefreshSkip ==
    /\ At(Main, "loop")
    /\ waiting # 0 /\ waiting # serial
    /\ waiting' = 0
    /\ UNCHANGED <<serial, shown, pauseVars, seekVars, pollVars, counters, pc>>

RefreshCheck ==
    /\ At(Main, "loop")
    /\ waiting = serial
    /\ Goto(Main, "show?")
    /\ UNCHANGED <<pauseVars, seekVars, showVars, pollVars, counters>>

RefreshTake ==
    /\ At(Main, "show?")
    /\ IF paused THEN Goto(Main, "loop") /\ UNCHANGED <<shown, waiting>>
                 ELSE Goto(Main, "shown") /\ shown' = waiting /\ waiting' = 0
    /\ UNCHANGED <<serial, pauseVars, seekVars, pollVars, counters>>

(* When stepping, one frame is enough: pause again. *)
RefreshStep ==
    /\ At(Main, "shown")
    /\ IF step /\ ~paused THEN Goto(Main, "toggle") /\ then' = [then EXCEPT ![Main] = "loop"]
                          ELSE Goto(Main, "loop") /\ UNCHANGED then
    /\ UNCHANGED <<paused, step, value, seekVars, showVars, pollVars, counters>>

------------------------------------------------------------------------------
(* read_thread *)

(* Tell the demuxer of a pause, or of its end: is->paused is read thrice. *)
PauseTest ==
    /\ At(Reader, "pause?")
    /\ Goto(Reader, IF paused # last_paused THEN "pause noted" ELSE "seek?")
    /\ UNCHANGED <<pauseVars, seekVars, showVars, pollVars, counters>>

PauseNote ==
    /\ At(Reader, "pause noted")
    /\ last_paused' = paused
    /\ Goto(Reader, "pause told")
    /\ UNCHANGED <<pauseVars, seekVars, showVars, demuxPaused, counters>>

PauseTell ==
    /\ At(Reader, "pause told")
    /\ demuxPaused' = paused
    /\ Goto(Reader, "seek?")
    /\ UNCHANGED <<pauseVars, seekVars, showVars, last_paused, counters>>

(* Is there a request?  Its position is read first, then the interval and  *)
(* the flags.                                                              *)
ServeTest ==
    /\ At(Reader, "seek?")
    /\ IF seek_req THEN Goto(Reader, "serve rel") /\ served' = [served EXCEPT !.pos = seek_pos]
                   ELSE Goto(Reader, "played?") /\ UNCHANGED served
    /\ UNCHANGED <<seek_req, seek_pos, seek_rel, request, accepted, pauseVars, showVars, pollVars,
                   counters>>

ServeRel ==
    /\ At(Reader, "serve rel")
    /\ served' = [served EXCEPT !.rel = seek_rel]
    /\ Goto(Reader, "serve")
    /\ UNCHANGED <<seek_req, seek_pos, seek_rel, request, accepted, pauseVars, showVars, pollVars,
                   counters>>

(* avformat_seek_file and the flush packets, or an error *)
Serve ==
    /\ At(Reader, "serve")
    /\ serial' \in {serial, serial + 1}
    /\ Goto(Reader, "serve done")
    /\ UNCHANGED <<waiting, shown, pauseVars, seekVars, pollVars, counters>>

ServeDone ==
    /\ At(Reader, "serve done")
    /\ seek_req' = FALSE
    /\ served' = Unserved
    /\ Goto(Reader, "serve step")
    /\ UNCHANGED <<seek_pos, seek_rel, request, accepted, pauseVars, showVars, pollVars, counters>>

(* While paused, the first frame after the seek is to be shown. *)
ServeStep ==
    /\ At(Reader, "serve step")
    /\ Goto(Reader, IF paused THEN "step?" ELSE "played?")
    /\ UNCHANGED <<pauseVars, seekVars, showVars, pollVars, counters>>

(* All has been played and is to be played again: a seek to the start;     *)
(* the demuxer, at its end, gives nothing before it is carried out.        *)
PlayAgain ==
    /\ At(Reader, "played?") /\ ~paused /\ waiting = 0 /\ loops < MaxLoops
    /\ loops' = loops + 1
    /\ request' = [request EXCEPT ![Reader] = MaxSeeks + loops + 1]
    /\ then' = [then EXCEPT ![Reader] = "pause?"]
    /\ Goto(Reader, "seek test")
    /\ UNCHANGED <<seek_req, seek_pos, seek_rel, served, accepted, paused, step, value,
                   showVars, pollVars, requests, toggles, steps>>

(* Read on; the decoder, which reads no control, gets a frame of the       *)
(* current serial ready.                                                   *)
ReadOn ==
    /\ At(Reader, "played?")
    /\ waiting' = IF waiting = 0 THEN serial ELSE waiting
    /\ Goto(Reader, "pause?")
    /\ UNCHANGED <<serial, shown, pauseVars, seekVars, pollVars, counters>>

------------------------------------------------------------------------------
Call(t) == \/ ToggleRead(t) \/ ToggleWrite(t)
           \/ StepTest(t) \/ SetStep(t)
           \/ SeekTest(t) \/ SeekPos(t) \/ SeekRel(t) \/ SeekReq(t)
Keys    == KeyPause \/ KeyStep \/ KeySeek
Refresh == ClearStep \/ RefreshSkip \/ RefreshCheck \/ RefreshTake \/ RefreshStep
Read    == \/ PauseTest \/ PauseNote \/ PauseTell
           \/ ServeTest \/ ServeRel \/ Serve \/ ServeDone \/ ServeStep
           \/ PlayAgain \/ ReadOn

Next == Keys \/ Refresh \/ Read \/ \E t \in Threads : Call(t)

Spec == Init /\ [][Next]_vars

(* Both threads run, and the file has frames to give; nothing obliges the  *)
(* user to press a key, or the window to ask for the picture while paused. *)
DueRefresh == Refresh /\ (paused => ~At(Main, "loop"))
Fairness == WF_vars(DueRefresh \/ Call(Main)) /\ WF_vars(Read \/ Call(Reader))

FairSpec == Spec /\ Fairness

------------------------------------------------------------------------------
(* Properties *)

Requests == 0 .. MaxSeeks + MaxLoops
Places == {"loop", "toggle", "toggle paused", "step?", "set step",
           "seek test", "seek pos", "seek rel", "seek req", "clear step", "show?", "shown",
           "pause?", "pause noted", "pause told", "seek?", "serve rel", "serve", "serve done",
           "serve step", "played?"}

TypeOK ==
    /\ paused \in BOOLEAN /\ step \in BOOLEAN
    /\ seek_req \in BOOLEAN /\ seek_pos \in Requests /\ seek_rel \in Requests
    /\ last_paused \in BOOLEAN /\ demuxPaused \in BOOLEAN
    /\ serial \in Nat /\ waiting \in Nat /\ shown \in Nat
    /\ pc \in [Threads -> Places] /\ then \in [Threads -> Places]
    /\ value \in [Threads -> BOOLEAN]
    /\ request \in [Threads -> Requests]
    /\ served \in [pos : Requests, rel : Requests]
    /\ accepted \in Requests
    /\ requests \in 0 .. MaxSeeks /\ toggles \in 0 .. MaxToggles
    /\ steps \in 0 .. MaxSteps /\ loops \in 0 .. MaxLoops

(* read_thread seeks to what was asked: the position and the interval it   *)
(* uses are of one request, and of the last one stream_seek took, though   *)
(* the user may ask again at any moment.  That is so until the option      *)
(* -loop makes read_thread call stream_seek as well.                       *)
SeekAsRequested ==
    At(Reader, "serve") /\ loops = 0 => served.pos = served.rel /\ served.rel = accepted

(* Single stepping stops by itself: a player that runs with step set gets  *)
(* to a pause, unless the pause key clears step.                           *)
StepEnds == (step /\ ~paused) ~> (paused \/ ~step)

(* After a seek while paused the first frame after the seek is shown, as   *)
(* the comment at the call of step_to_next_frame in read_thread says.      *)
PausedSeekShown == (paused /\ seek_req) ~> (shown = serial)
=============================================================================
