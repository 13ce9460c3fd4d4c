--------------------------- MODULE ControlProofs ---------------------------
(***************************************************************************)
(* Proofs about Control.tla: its types, and that seeks are carried out as  *)
(* they were asked for, however the two threads interleave.                *)
(***************************************************************************)
EXTENDS Control, TLAPS

(* Where each thread can be, and where its calls return to. *)
CallPlaces   == {"toggle", "toggle paused", "step?", "set step"}
SeekPlaces   == {"seek test", "seek pos", "seek rel", "seek req"}
MainPlaces   == {"loop", "clear step", "show?", "shown"} \cup CallPlaces \cup SeekPlaces
ReaderPlaces == {"pause?", "pause noted", "pause told", "seek?", "serve rel", "serve",
                 "serve done", "serve step", "played?"} \cup CallPlaces \cup SeekPlaces

PlaceInv == /\ pc[Main] \in MainPlaces
            /\ then[Main] \in {"loop", "clear step", "set step"}
            /\ pc[Reader] \in ReaderPlaces
            /\ then[Reader] \in {"loop", "pause?", "set step"}
            /\ pc[Reader] \in {"toggle", "toggle paused"} => then[Reader] = "set step"
            /\ pc[Reader] \in SeekPlaces => then[Reader] = "pause?"

(* The request on its way: main has the variables to itself until it       *)
(* raises seek_req, read_thread from then on until it clears it.           *)
RequestInv == loops = 0 =>
    /\ pc[Reader] \notin SeekPlaces
    /\ pc[Main] \in {"seek pos", "seek rel", "seek req"} => ~seek_req /\ accepted = request[Main]
    /\ pc[Main] \in {"seek rel", "seek req"} => seek_pos = request[Main]
    /\ pc[Main] = "seek req" => seek_rel = request[Main]
    /\ seek_req => seek_pos = accepted /\ seek_rel = accepted
    /\ pc[Reader] \in {"serve rel", "serve", "serve done"} => seek_req /\ served.pos = accepted
    /\ pc[Reader] \in {"serve", "serve done"} => served.rel = accepted

IInv == TypeOK /\ PlaceInv /\ RequestInv

------------------------------------------------------------------------------
(* Types *)

(* The two numbers a new request can get. *)
LEMMA RequestNumbers ==
    ASSUME TypeOK
    PROVE  /\ requests < MaxSeeks => requests + 1 \in 0 .. MaxSeeks /\ requests + 1 \in Requests
           /\ loops < MaxLoops => loops + 1 \in 0 .. MaxLoops /\ MaxSeeks + loops + 1 \in Requests
           /\ toggles < MaxToggles => toggles + 1 \in 0 .. MaxToggles
           /\ steps < MaxSteps => steps + 1 \in 0 .. MaxSteps
BY BoundsAssumption DEF TypeOK, Requests

(* No request at all is one of the values of a request. *)
LEMMA NoRequest == 0 \in Requests
BY BoundsAssumption DEF Requests

(* The calls that both threads make keep the types. *)
LEMMA CallType == ASSUME TypeOK, PlaceInv, NEW t \in Threads, Call(t) PROVE TypeOK'
<1>1. CASE ToggleRead(t)
  BY <1>1
     DEF TypeOK, ToggleRead, At, Goto, Places, Main, Reader, Threads, seekVars, showVars, pollVars, counters, pauseVars
<1>2. CASE ToggleWrite(t)
  BY <1>2
     DEF TypeOK, ToggleWrite, At, Goto, Places, Main, Reader, Threads, seekVars, showVars, pollVars, counters, pauseVars
<1>3. CASE StepTest(t)
  <2>1. CASE paused
    <3>1. /\ pc' = [pc EXCEPT ![t] = "toggle"] /\ then' = [then EXCEPT ![t] = "set step"]
          /\ UNCHANGED <<paused, step, value, seekVars, showVars, pollVars, counters>>
      BY <1>3, <2>1 DEF StepTest, Goto
    <3>2. pc' \in [Threads -> Places] /\ then' \in [Threads -> Places]
      BY <3>1 DEF TypeOK, Places
    <3> QED BY <3>1, <3>2 DEF TypeOK, seekVars, showVars, pollVars, counters, pauseVars
  <2>2. CASE ~paused
    BY <1>3, <2>2
       DEF TypeOK, StepTest, At, Goto, Places, Main, Reader, Threads, seekVars, showVars, pollVars, counters, pauseVars
  <2> QED BY <2>1, <2>2
<1>4. CASE SetStep(t)
  BY <1>4
     DEF TypeOK, SetStep, At, Goto, Places, Main, Reader, Threads, seekVars, showVars, pollVars, counters, pauseVars
<1>5. CASE SeekTest(t)
  <2>1. CASE seek_req
    BY <1>5, <2>1
       DEF TypeOK, SeekTest, At, Goto, Places, Main, Reader, Threads, seekVars, showVars, pollVars, counters, pauseVars
  <2>2. CASE ~seek_req
    BY <1>5, <2>2
       DEF TypeOK, SeekTest, At, Goto, Places, Main, Reader, Threads, seekVars, showVars, pollVars, counters, pauseVars
  <2> QED BY <2>1, <2>2
<1>6. CASE SeekPos(t)
  BY <1>6
     DEF TypeOK, SeekPos, At, Goto, Places, Main, Reader, Threads, seekVars, showVars, pollVars, counters, pauseVars
<1>7. CASE SeekRel(t)
  BY <1>7
     DEF TypeOK, SeekRel, At, Goto, Places, Main, Reader, Threads, seekVars, showVars, pollVars, counters, pauseVars
<1>8. CASE SeekReq(t)
  BY <1>8
     DEF TypeOK, SeekReq, At, Goto, Places, Main, Reader, Threads, seekVars, showVars, pollVars, counters, pauseVars
<1> QED BY <1>1, <1>2, <1>3, <1>4, <1>5, <1>6, <1>7, <1>8 DEF Call

(* The keys keep the types. *)
LEMMA KeysType == ASSUME TypeOK, Keys PROVE TypeOK'
<1>1. CASE KeyPause
  BY <1>1, RequestNumbers
     DEF TypeOK, KeyPause, At, Goto, Places, Main, Reader, Threads, seekVars, showVars, pollVars, counters, pauseVars
<1>2. CASE KeyStep
  BY <1>2, RequestNumbers
     DEF TypeOK, KeyStep, At, Goto, Places, Main, Reader, Threads, seekVars, showVars, pollVars, counters, pauseVars
<1>3. CASE KeySeek
  BY <1>3, RequestNumbers
     DEF TypeOK, KeySeek, At, Goto, Places, Main, Reader, Threads, seekVars, showVars, pollVars, counters, pauseVars
<1> QED BY <1>1, <1>2, <1>3 DEF Keys

(* So does the refresh of the picture. *)
LEMMA RefreshType == ASSUME TypeOK, Refresh PROVE TypeOK'
<1>1. CASE ClearStep
  BY <1>1
     DEF TypeOK, ClearStep, At, Goto, Places, Main, Reader, Threads, seekVars, showVars, pollVars, counters, pauseVars
<1>2. CASE RefreshSkip
  BY <1>2
     DEF TypeOK, RefreshSkip, At, Goto, Places, Main, Reader, Threads, seekVars, showVars, pollVars, counters, pauseVars
<1>3. CASE RefreshCheck
  BY <1>3
     DEF TypeOK, RefreshCheck, At, Goto, Places, Main, Reader, Threads, seekVars, showVars, pollVars, counters, pauseVars
<1>4. CASE RefreshTake
  <2>1. CASE paused
    BY <1>4, <2>1
       DEF TypeOK, RefreshTake, At, Goto, Places, Main, Reader, Threads, seekVars, showVars, pollVars, counters, pauseVars
  <2>2. CASE ~paused
    <3>1. /\ pc' = [pc EXCEPT ![Main] = "shown"] /\ shown' = waiting /\ waiting' = 0
          /\ UNCHANGED <<serial, pauseVars, seekVars, pollVars, counters>>
      BY <1>4, <2>2 DEF RefreshTake, Goto
    <3>2. pc' \in [Threads -> Places] /\ shown' \in Nat /\ waiting' \in Nat
      BY <3>1 DEF TypeOK, Places, Main, Threads
    <3> QED BY <3>1, <3>2 DEF TypeOK, seekVars, showVars, pollVars, counters, pauseVars
  <2> QED BY <2>1, <2>2
<1>5. CASE RefreshStep
  BY <1>5
     DEF TypeOK, RefreshStep, At, Goto, Places, Main, Reader, Threads, seekVars, showVars, pollVars, counters, pauseVars
<1> QED BY <1>1, <1>2, <1>3, <1>4, <1>5 DEF Refresh

(* And read_thread. *)
LEMMA ReadType == ASSUME TypeOK, Read PROVE TypeOK'
<1>1. CASE PauseTest
  BY <1>1
     DEF TypeOK, PauseTest, At, Goto, Places, Main, Reader, Threads, seekVars, showVars, pollVars, counters, pauseVars
<1>2. CASE PauseNote
  BY <1>2
     DEF TypeOK, PauseNote, At, Goto, Places, Main, Reader, Threads, seekVars, showVars, pollVars, counters, pauseVars
<1>3. CASE PauseTell
  BY <1>3
     DEF TypeOK, PauseTell, At, Goto, Places, Main, Reader, Threads, seekVars, showVars, pollVars, counters, pauseVars
<1>4. CASE ServeTest
  BY <1>4
     DEF TypeOK, ServeTest, At, Goto, Places, Main, Reader, Threads, seekVars, showVars, pollVars, counters, pauseVars
<1>5. CASE ServeRel
  BY <1>5
     DEF TypeOK, ServeRel, At, Goto, Places, Main, Reader, Threads, seekVars, showVars, pollVars, counters, pauseVars
<1>6. CASE Serve
  <2>1. serial' \in Nat
    <3>1. serial \in Nat
      BY DEF TypeOK
    <3>2. serial' = serial \/ serial' = serial + 1
      BY <1>6 DEF Serve
    <3> QED BY <3>1, <3>2
  <2>2. pc' \in [Threads -> Places] /\ UNCHANGED <<waiting, shown, pauseVars, seekVars, pollVars, counters>>
    BY <1>6 DEF TypeOK, Serve, At, Goto, Places
  <2> QED BY <2>1, <2>2 DEF TypeOK, seekVars, showVars, pollVars, counters, pauseVars
<1>7. CASE ServeDone
  BY <1>7, NoRequest
     DEF TypeOK, ServeDone, Unserved, At, Goto, Places, Main, Reader, Threads, seekVars, showVars, pollVars, counters, pauseVars
<1>8. CASE ServeStep
  BY <1>8
     DEF TypeOK, ServeStep, At, Goto, Places, Main, Reader, Threads, seekVars, showVars, pollVars, counters, pauseVars
<1>9. CASE PlayAgain
  BY <1>9, RequestNumbers
     DEF TypeOK, PlayAgain, At, Goto, Places, Main, Reader, Threads, seekVars, showVars, pollVars, counters, pauseVars
<1>10. CASE ReadOn
  BY <1>10
     DEF TypeOK, ReadOn, At, Goto, Places, Main, Reader, Threads, seekVars, showVars, pollVars, counters, pauseVars
<1> QED BY <1>1, <1>2, <1>3, <1>4, <1>5, <1>6, <1>7, <1>8, <1>9, <1>10 DEF Read

------------------------------------------------------------------------------
(* Places and the request *)

(* A call of one thread leaves the other where it is and, in a seek, the   *)
(* variables of the request are those of the thread that makes it.         *)
LEMMA CallKeeps ==
    ASSUME IInv, NEW t \in Threads, Call(t)
    PROVE  PlaceInv' /\ RequestInv'
<1> USE DEF IInv, PlaceInv, RequestInv, TypeOK, Main, Reader, Threads, CallPlaces, SeekPlaces,
            MainPlaces, ReaderPlaces, At, Goto
<1>1. CASE ToggleRead(t)
  BY <1>1 DEF ToggleRead, seekVars, showVars, pollVars, counters, pauseVars
<1>2. CASE ToggleWrite(t)
  BY <1>2 DEF ToggleWrite, seekVars, showVars, pollVars, counters, pauseVars
<1>3. CASE StepTest(t)
  <2>1. CASE paused
    <3>1. /\ pc[t] = "step?"
          /\ pc' = [pc EXCEPT ![t] = "toggle"] /\ then' = [then EXCEPT ![t] = "set step"]
          /\ UNCHANGED <<seekVars, loops>>
      BY <1>3, <2>1 DEF StepTest, seekVars, showVars, pollVars, counters, pauseVars
    <3>2. PlaceInv'
      BY <3>1
    <3>3. RequestInv'
      BY <3>1 DEF seekVars
    <3> QED BY <3>2, <3>3
  <2>2. CASE ~paused
    BY <1>3, <2>2 DEF StepTest, seekVars, showVars, pollVars, counters, pauseVars
  <2> QED BY <2>1, <2>2
<1>4. CASE SetStep(t)
  BY <1>4 DEF SetStep, seekVars, showVars, pollVars, counters, pauseVars
<1>5. CASE SeekTest(t)
  <2>1. CASE seek_req
    BY <1>5, <2>1 DEF SeekTest, seekVars, showVars, pollVars, counters, pauseVars
  <2>2. CASE ~seek_req
    BY <1>5, <2>2 DEF SeekTest, seekVars, showVars, pollVars, counters, pauseVars
  <2> QED BY <2>1, <2>2
<1>6. CASE SeekPos(t)
  BY <1>6 DEF SeekPos, seekVars, showVars, pollVars, counters, pauseVars
<1>7. CASE SeekRel(t)
  BY <1>7 DEF SeekRel, seekVars, showVars, pollVars, counters, pauseVars
<1>8. CASE SeekReq(t)
  BY <1>8 DEF SeekReq, seekVars, showVars, pollVars, counters, pauseVars
<1> QED BY <1>1, <1>2, <1>3, <1>4, <1>5, <1>6, <1>7, <1>8 DEF Call

(* Outside stream_seek the main thread can go where it likes.              *)
LEMMA MainMoves ==
    ASSUME IInv, NEW p \in MainPlaces \ SeekPlaces, NEW q \in {"loop", "clear step", "set step"},
           pc' = [pc EXCEPT ![Main] = p], then' = [then EXCEPT ![Main] = q],
           UNCHANGED <<seekVars, loops>>
    PROVE  PlaceInv' /\ RequestInv'
<1>1. /\ pc'[Main] = p /\ pc'[Reader] = pc[Reader]
      /\ then'[Main] = q /\ then'[Reader] = then[Reader]
  BY DEF IInv, TypeOK, Main, Reader, Threads
<1>2. PlaceInv'
  BY <1>1 DEF IInv, PlaceInv
<1>3. RequestInv'
  <2>1. pc'[Main] \notin {"seek pos", "seek rel", "seek req"}
    BY <1>1 DEF SeekPlaces
  <2>2. UNCHANGED <<seek_req, seek_pos, seek_rel, served, accepted, loops>>
    BY DEF seekVars
  <2> QED BY <1>1, <2>1, <2>2 DEF IInv, RequestInv
<1> QED BY <1>2, <1>3

(* A key starts a call of the main thread, which has no request on its way *)
(* then.                                                                   *)
LEMMA KeysKeep == ASSUME IInv, Keys PROVE PlaceInv' /\ RequestInv'
<1>0. then[Main] \in {"loop", "clear step", "set step"} /\ then = [then EXCEPT ![Main] = then[Main]]
  BY DEF IInv, TypeOK, PlaceInv, Threads
<1>1. CASE KeyPause
  <2>1. "toggle" \in MainPlaces \ SeekPlaces
    BY DEF MainPlaces, CallPlaces, SeekPlaces
  <2> QED BY <1>1, <2>1, MainMoves DEF KeyPause, Goto, pauseVars, seekVars
<1>2. CASE KeyStep
  <2>1. "step?" \in MainPlaces \ SeekPlaces
    BY DEF MainPlaces, CallPlaces, SeekPlaces
  <2> QED BY <1>0, <1>2, <2>1, MainMoves DEF KeyStep, Goto, pauseVars, seekVars
<1>3. CASE KeySeek
  BY <1>3
     DEF KeySeek, IInv, PlaceInv, RequestInv, TypeOK, Main, Reader, Threads, CallPlaces, SeekPlaces,
         MainPlaces, ReaderPlaces, At, Goto, seekVars, showVars, pollVars, counters, pauseVars
<1> QED BY <1>1, <1>2, <1>3 DEF Keys

(* The refresh of the picture leaves the request alone. *)
LEMMA RefreshKeeps == ASSUME IInv, Refresh PROVE PlaceInv' /\ RequestInv'
<1>0. then[Main] \in {"loop", "clear step", "set step"} /\ then = [then EXCEPT ![Main] = then[Main]]
  BY DEF IInv, TypeOK, PlaceInv, Threads
<1>1. /\ "loop" \in MainPlaces \ SeekPlaces /\ "show?" \in MainPlaces \ SeekPlaces
      /\ "shown" \in MainPlaces \ SeekPlaces /\ "toggle" \in MainPlaces \ SeekPlaces
  BY DEF MainPlaces, CallPlaces, SeekPlaces
<1>2. CASE ClearStep
  BY <1>0, <1>1, <1>2, MainMoves DEF ClearStep, Goto, counters
<1>3. CASE RefreshSkip
  BY <1>3 DEF RefreshSkip, IInv, PlaceInv, RequestInv, pauseVars, seekVars, counters
<1>4. CASE RefreshCheck
  BY <1>0, <1>1, <1>4, MainMoves DEF RefreshCheck, Goto, pauseVars, counters
<1>5. CASE RefreshTake
  <2>1. UNCHANGED <<then, seekVars, loops>>
    BY <1>5 DEF RefreshTake, pauseVars, counters
  <2>2. \/ pc' = [pc EXCEPT ![Main] = "loop"]
        \/ pc' = [pc EXCEPT ![Main] = "shown"]
    BY <1>5 DEF RefreshTake, Goto
  <2> QED BY <1>0, <1>1, <2>1, <2>2, MainMoves
<1>6. CASE RefreshStep
  <2>1. UNCHANGED <<seekVars, loops>>
    BY <1>6 DEF RefreshStep, counters
  <2>2. \/ pc' = [pc EXCEPT ![Main] = "loop"] /\ then' = then
        \/ pc' = [pc EXCEPT ![Main] = "toggle"] /\ then' = [then EXCEPT ![Main] = "loop"]
    BY <1>6 DEF RefreshStep, Goto
  <2> QED BY <1>0, <1>1, <2>1, <2>2, MainMoves
<1> QED BY <1>2, <1>3, <1>4, <1>5, <1>6 DEF Refresh

(* read_thread copies a request that is raised, hence complete, and keeps  *)
(* it raised until it has seeked.                                          *)
LEMMA ReadKeeps == ASSUME IInv, Read PROVE PlaceInv' /\ RequestInv'
<1> USE DEF IInv, PlaceInv, RequestInv, TypeOK, Main, Reader, Threads, CallPlaces, SeekPlaces,
            MainPlaces, ReaderPlaces, At, Goto
<1>1. CASE PauseTest
  BY <1>1 DEF PauseTest, seekVars, showVars, pollVars, counters, pauseVars
<1>2. CASE PauseNote
  BY <1>2 DEF PauseNote, seekVars, showVars, pollVars, counters, pauseVars
<1>3. CASE PauseTell
  BY <1>3 DEF PauseTell, seekVars, showVars, pollVars, counters, pauseVars
<1>4. CASE ServeTest
  <2>1. CASE seek_req
    BY <1>4, <2>1 DEF ServeTest, seekVars, showVars, pollVars, counters, pauseVars
  <2>2. CASE ~seek_req
    BY <1>4, <2>2 DEF ServeTest, seekVars, showVars, pollVars, counters, pauseVars
  <2> QED BY <2>1, <2>2
<1>5. CASE ServeRel
  BY <1>5 DEF ServeRel, seekVars, showVars, pollVars, counters, pauseVars
<1>6. CASE Serve
  BY <1>6 DEF Serve, seekVars, showVars, pollVars, counters, pauseVars
<1>7. CASE ServeDone
  BY <1>7 DEF ServeDone, seekVars, showVars, pollVars, counters, pauseVars
<1>8. CASE ServeStep
  BY <1>8 DEF ServeStep, seekVars, showVars, pollVars, counters, pauseVars
<1>9. CASE PlayAgain
  <2>1. loops' # 0
    <3> HIDE DEF PlaceInv, RequestInv, IInv, TypeOK
    <3>1. loops \in 0 .. MaxLoops
      BY Zenon DEF IInv, TypeOK
    <3>2. loops' = loops + 1
      BY <1>9 DEF PlayAgain
    <3> QED BY <3>1, <3>2, BoundsAssumption
  <2>2. /\ pc' = [pc EXCEPT ![Reader] = "seek test"]
        /\ then' = [then EXCEPT ![Reader] = "pause?"]
    BY <1>9 DEF PlayAgain
  <2>3. PlaceInv'
    BY <2>2
  <2> QED BY <2>1, <2>3
<1>10. CASE ReadOn
  BY <1>10 DEF ReadOn, seekVars, showVars, pollVars, counters, pauseVars
<1> QED BY <1>1, <1>2, <1>3, <1>4, <1>5, <1>6, <1>7, <1>8, <1>9, <1>10 DEF Read

------------------------------------------------------------------------------
(* The invariant holds at the start: nobody is in a call. *)
LEMMA InitIInv == Init => IInv
<1> SUFFICES ASSUME Init PROVE IInv
  OBVIOUS
<1>1. TypeOK
  <2>1. 0 \in Requests /\ 0 \in 0 .. MaxSeeks /\ 0 \in 0 .. MaxToggles /\ 0 \in 0 .. MaxSteps
        /\ 0 \in 0 .. MaxLoops
    BY BoundsAssumption DEF Requests
  <2>2. pc \in [Threads -> Places] /\ then \in [Threads -> Places] /\ value \in [Threads -> BOOLEAN]
    BY DEF Init, Places
  <2>3. request \in [Threads -> Requests] /\ served \in [pos : Requests, rel : Requests]
    BY <2>1 DEF Init, Unserved
  <2> QED BY <2>1, <2>2, <2>3 DEF Init, TypeOK
<1>2. PlaceInv /\ RequestInv
  BY DEF Init, PlaceInv, RequestInv, Threads, Main, Reader, MainPlaces, ReaderPlaces, SeekPlaces
<1> QED BY <1>1, <1>2 DEF IInv

(* Every step keeps it. *)
LEMMA NextIInv == ASSUME IInv, [Next]_vars PROVE IInv'
<1>1. CASE \E t \in Threads : Call(t)
  BY <1>1, CallType, CallKeeps DEF IInv
<1>2. CASE Keys
  BY <1>2, KeysType, KeysKeep DEF IInv
<1>3. CASE Refresh
  BY <1>3, RefreshType, RefreshKeeps DEF IInv
<1>4. CASE Read
  BY <1>4, ReadType, ReadKeeps DEF IInv
<1>5. CASE UNCHANGED vars
  <2>1. /\ UNCHANGED <<pc, paused, step, then, value, serial, waiting, shown, last_paused, demuxPaused>>
        /\ UNCHANGED <<seek_req, seek_pos, seek_rel, request, served, accepted>>
        /\ UNCHANGED <<requests, toggles, steps, loops>>
    BY <1>5 DEF vars, pauseVars, seekVars, showVars, pollVars, counters
  <2>2. TypeOK'
    BY <2>1 DEF IInv, TypeOK
  <2>3. PlaceInv'
    BY <2>1 DEF IInv, PlaceInv
  <2>4. RequestInv'
    BY <2>1 DEF IInv, RequestInv
  <2> QED BY <2>2, <2>3, <2>4 DEF IInv
<1> QED BY <1>1, <1>2, <1>3, <1>4, <1>5 DEF Next

(* It holds in every reachable state. *)
LEMMA SpecIInv == Spec => []IInv
BY InitIInv, NextIInv, PTL DEF Spec

(* Every variable keeps its type, whatever keys are pressed. *)
THEOREM TypeCorrect == Spec => []TypeOK
<1>1. IInv => TypeOK
  BY DEF IInv
<1> QED BY <1>1, SpecIInv, PTL

(* read_thread seeks to what was asked last, in one piece, for any number  *)
(* of seeks, pauses and steps, until -loop makes it call stream_seek too.  *)
THEOREM SeeksAsRequested == Spec => []SeekAsRequested
<1>1. IInv => SeekAsRequested
  BY DEF IInv, RequestInv, SeekAsRequested, At
<1> QED BY <1>1, SpecIInv, PTL
=============================================================================
