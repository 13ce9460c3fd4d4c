--------------------------- MODULE LifecycleProofs ---------------------------
(***************************************************************************)
(* Proofs about Lifecycle.tla, for any file, any number of packets and any *)
(* number of switches: nothing is used before it is created or after it is *)
(* destroyed, one thread at most opens or closes a type, a decoder starts  *)
(* with the flush packet, and only switching makes read_thread crash.      *)
(***************************************************************************)
EXTENDS Lifecycle, TLAPS, SequenceTheorems, FiniteSetTheorems,
        WellFoundedInduction

------------------------------------------------------------------------------
(* The invariant *)

(* Where each thread can be *)
MainPlaces == OpenPlaces \cup ClosePlaces \cup
              {"create", "create thread", "loop", "close", "wait", "close next", "destroy",
               "exited"}
TypePlaces == {"enough pointer", "enough index", "enough queue", "finished?", "match",
               "disposition", "put", "drain?", "drain"}
LoopPlaces == TypePlaces \cup {"top", "all played", "read", "set eof", "failed?"}
Before     == {"none", "mutex", "input"}
ReadPlaces == Before \cup {"open next", "ended"} \cup OpenPlaces \cup LoopPlaces

(* A type of which nothing runs, and one that can be opened *)
Closed(t) == decoder[t] = "none" /\ (t = "audio" => ~device)
Unused(t) == Closed(t) /\ qabort[t]

(* The types that are still to come, in the order of the code *)
Coming(s) == CASE s = <<"audio", "video">> -> Types
               [] s = <<"video">>          -> {"video"}
               [] s = <<>>                 -> {}
Orders == {<<"audio", "video">>, <<"video">>, <<>>}
After(t) == IF t = "audio" THEN <<"video">> ELSE <<>>

(* The two threads keep out of each other's way: before read_thread is     *)
(* created and after it has ended the main thread is alone; in between it  *)
(* opens or closes a stream only when a key switches it, which needs the   *)
(* window, and there is one only after read_thread has opened its streams. *)
PlaceInv ==
    /\ pc[Main] \in MainPlaces /\ pc[Reader] \in ReadPlaces
    /\ pc[Main] \in {"create", "create thread"} => pc[Reader] = "none"
    /\ pc[Main] \in {"close next", "destroy", "exited"} => pc[Reader] \in {"none", "ended"}
    /\ pc[Main] \in {"close next", "destroy", "exited", "wait"} => abort_request
    /\ abort_request =>
          pc[Main] \in {"wait", "close next", "destroy", "exited"} \cup ClosePlaces
    /\ pc[Main] \in ClosePlaces =>
          IF abort_request THEN pc[Reader] \in {"none", "ended"} ELSE width /\ switches > 0
    /\ pc[Main] \in OpenPlaces => width /\ switches > 0
    /\ width => show_mode
    /\ show_mode => pc[Reader] \in LoopPlaces \cup {"ended"}

(* What is created, and what is closed *)
ResInv ==
    /\ pc[Main] = "create thread" => up = Resources
    /\ pc[Reader] # "none" /\ pc[Main] # "exited" => up = Resources
    /\ pc[Main] \in {"destroy", "exited"} => \A t \in Types : Closed(t)
    /\ ic = "closed" => pc[Main] \in {"destroy", "exited"}
    /\ pc[Reader] \in {"open next"} \cup OpenPlaces \cup LoopPlaces => ic = "open"

(* What runs of a type, or may, has its index and its pointer; what is     *)
(* being opened or closed runs not.                                        *)
StreamInv ==
    /\ \A t \in Types : decoder[t] # "none" \/ ~qabort[t] => stream[t] # None /\ st[t] # None
    /\ device => stream["audio"] # None
    /\ pc[Reader] \in Before => \A t \in Types : Unused(t)

(* The stream that a thread opens *)
OpenInv(th) == LET t == job[th].type IN
    /\ pc[th] \in OpenPlaces => job[th].index \in Indexes /\ decoder[t] = "none"
    /\ pc[th] \in OpenPlaces \ {"start decoder"} => qabort[t]
    /\ pc[th] \in {"set pointer", "start queue", "start decoder"} => stream[t] # None
    /\ pc[th] \in {"start queue", "start decoder"} => st[t] # None

(* The streams that read_thread has not opened yet *)
ReaderInv ==
    /\ pc[Reader] \in TypePlaces => todo[Reader] # <<>>
    /\ pc[Reader] = "open next" =>
          todo[Reader] \in Orders /\ \A t \in Coming(todo[Reader]) : Unused(t)
    /\ pc[Reader] \in OpenPlaces =>
          /\ todo[Reader] = After(job[Reader].type)
          /\ \A t \in Coming(todo[Reader]) : Unused(t)
    /\ pc[Reader] \in {"match", "disposition", "put"} => pkt \in Indexes

(* The streams that the main thread has closed, and how far it is with one *)
CloseInv ==
    /\ pc[Main] = "close next" =>
          todo[Main] \in Orders /\ \A t \in Types \ Coming(todo[Main]) : Closed(t)
    /\ pc[Main] \in ClosePlaces =>
          IF abort_request
          THEN /\ todo[Main] = After(job[Main].type)
               /\ \A t \in Types : t \notin Coming(todo[Main]) /\ t # job[Main].type => Closed(t)
          ELSE job[Main].index \in Indexes
    /\ pc[Main] \in {"join", "clear pointer", "clear index"} => qabort[job[Main].type]
    /\ pc[Main] \in {"clear pointer", "clear index"} => Closed(job[Main].type)

(* An aborted queue whose thread has ended is empty, once it is flushed,   *)
(* and one that works begins with the flush packet until it is taken.      *)
FlushInv == \A t \in Types :
    IF qabort[t]
    THEN \/ decoder[t] # "none" \/ packets[t] = <<>>
         \/ pc[Main] = "join" /\ job[Main].type = t
    ELSE fresh[t] => packets[t] # <<>> /\ Head(packets[t]) = Flush

(* As long as no stream is switched, what read_thread read is still so. *)
UnswitchedInv == switches = 0 =>
    /\ fault # "no stream"
    /\ pc[Reader] \in {"enough index", "enough queue"} => arg = st[Type]
    /\ pc[Reader] \notin {"none", "mutex", "ended"} =>
          \A t \in Types : \/ stream[t] = None \/ st[t] # None
                           \/ pc[Reader] = "set pointer" /\ job[Reader].type = t
    /\ pc[Reader] = "disposition" => st["video"] # None

Placed == PlaceInv /\ ResInv /\ StreamInv /\ ReaderInv /\ CloseInv
Safe   == Placed /\ OpenInv(Main) /\ OpenInv(Reader) /\ FlushInv /\ UnswitchedInv
IInv   == TypeOK /\ Safe

------------------------------------------------------------------------------
(* Constants and operators *)

(* Streams are numbered from 0. *)
LEMMA IndexNumbers == Indexes \subseteq Nat
<1>1. Cardinality(Indexes) \in Nat
  BY FileAssumption, FS_CardinalityType DEF FileAssumption
<1> QED
  BY <1>1, FileAssumption DEF FileAssumption

(* A set of streams that is not empty has a first one. *)
Less == {ss \in Nat \X Nat : ss[1] < ss[2]}

LEMMA MinIn == ASSUME NEW S, \E m \in S : \A y \in S : m =< y PROVE Min(S) \in S
BY Zenon DEF Min

LEMMA MinOf == ASSUME NEW S \in SUBSET Nat, S # {} PROVE Min(S) \in S
<1>1. OpToRel(<, Nat) = Less
  BY Zenon DEF OpToRel, Less
<1>2. IsWellFoundedOn(Less, Nat)
  BY <1>1, NatLessThanWellFounded
<1>3. PICK x \in S : \A y \in S : <<y, x>> \notin Less
  BY <1>2, WFMin
<1>4. ASSUME NEW y \in S PROVE x =< y
  <2>1. x \in Nat /\ y \in Nat /\ ~ (y < x)
    BY <1>3 DEF Less
  <2> QED
    BY <2>1
<1> QED
  BY <1>4, MinIn

(* The streams that are opened are streams of the file, of the right type. *)
LEMMA FirstOfType == ASSUME NEW t, OfType(t) # {} PROVE Min(OfType(t)) \in Indexes
BY MinOf, IndexNumbers DEF OfType

LEMMA CycledType == ASSUME NEW t, Cycled(t) # last[t] PROVE Cycled(t) \in Indexes
<1> DEFINE later == {i \in OfType(t) : i > last[t]}
<1>1. later \in SUBSET Nat /\ later \subseteq Indexes
  BY IndexNumbers DEF OfType
<1>2. CASE later # {}
  BY <1>1, <1>2, MinOf DEF Cycled
<1>3. CASE later = {}
  BY <1>3, FirstOfType DEF Cycled
<1> QED
  BY <1>2, <1>3

LEMMA AppendType ==
    ASSUME NEW T, NEW q \in Seq(T), NEW e \in T
    PROVE  /\ Append(q, e) \in Seq(T) /\ Append(q, e) # <<>>
           /\ q # <<>> => Head(Append(q, e)) = Head(q)
           /\ (q = <<>> => Head(Append(q, e)) = e)
OBVIOUS

LEMMA TakeType ==
    ASSUME NEW T, NEW q \in Seq(T), q # <<>>
    PROVE  Head(q) \in T /\ Tail(q) \in Seq(T)
OBVIOUS

LEMMA Order ==
    /\ <<"audio", "video">> \in Seq(Types) /\ <<"video", "audio">> \in Seq(Types)
    /\ <<>> \in Seq(Types)
    /\ <<"audio", "video">> # <<>> /\ <<"video", "audio">> # <<>>
    /\ \A s \in Orders : s # <<>> => /\ Head(s) \in Types /\ Head(s) \in Coming(s)
                                    /\ Tail(s) = After(Head(s))
                                    /\ Tail(s) \in Orders
                                    /\ Coming(Tail(s)) = Coming(s) \ {Head(s)}
    /\ \A s \in Orders : Coming(s) \subseteq Types
    /\ Coming(<<"audio", "video">>) = Types /\ Coming(<<>>) = {}
    /\ \A t \in Types : After(t) \in Orders /\ t \notin Coming(After(t))
BY DEF Types, Orders, After, Coming

------------------------------------------------------------------------------
(* Types.  An action changes some of these groups of variables and leaves  *)
(* the others as they are.                                                 *)
Packets == Indexes \cup {Flush, Null}

ResType    == up \subseteq Resources /\ ic \in {"NULL", "open", "closed"}
StreamType == /\ stream \in [Types -> Indexes \cup {0, None}]
              /\ last \in [Types -> Indexes \cup {0, None}]
              /\ st \in [Types -> Indexes \cup {None}]
FlagType   == /\ abort_request \in BOOLEAN /\ eof \in BOOLEAN /\ show_mode \in BOOLEAN
              /\ width \in BOOLEAN /\ quit \in BOOLEAN
QueueType  == qabort \in [Types -> BOOLEAN] /\ packets \in [Types -> Seq(Packets)]
DecType    == /\ decoder \in [Types -> {"none", "running", "exited"}] /\ device \in BOOLEAN
              /\ fresh \in [Types -> BOOLEAN] /\ finished \in [Types -> BOOLEAN]
FileType   == /\ left \in [Indexes -> 0 .. MaxPackets]
              /\ pkt \in Indexes \cup {None} /\ arg \in Indexes \cup {None}
FaultType  == fault \in {"none", "no context", "no stream"}
PcType     == pc \in [Threads -> Places]
TodoType   == todo \in [Threads -> Seq(Types)]
JobType    == job \in [Threads -> [type : Types, index : Indexes \cup {0, None}]]
CountType  == switches \in 0 .. MaxSwitches

Typed == /\ ResType /\ StreamType /\ FlagType /\ QueueType /\ DecType /\ FileType
         /\ FaultType /\ PcType /\ TodoType /\ JobType /\ CountType

LEMMA TypeParts == (TypeOK <=> Typed) /\ (TypeOK' <=> Typed')
BY DEF TypeOK, Typed, ResType, StreamType, FlagType, QueueType, DecType, FileType, FaultType,
       PcType, TodoType, JobType, CountType, Packets

LEMMA Kept ==
    /\ ResType /\ UNCHANGED resVars => ResType'
    /\ StreamType /\ UNCHANGED streamVars => StreamType'
    /\ FlagType /\ UNCHANGED flagVars => FlagType'
    /\ QueueType /\ UNCHANGED queueVars => QueueType'
    /\ DecType /\ UNCHANGED decVars => DecType'
    /\ FileType /\ UNCHANGED fileVars => FileType'
    /\ FaultType /\ UNCHANGED fault => FaultType'
    /\ PcType /\ UNCHANGED pc => PcType'
    /\ TodoType /\ UNCHANGED todo => TodoType'
    /\ JobType /\ UNCHANGED job => JobType'
    /\ CountType /\ UNCHANGED switches => CountType'
<1>1. /\ ResType /\ UNCHANGED resVars => ResType'
      /\ StreamType /\ UNCHANGED streamVars => StreamType'
      /\ FlagType /\ UNCHANGED flagVars => FlagType'
      /\ QueueType /\ UNCHANGED queueVars => QueueType'
  BY DEF ResType, resVars, StreamType, streamVars, FlagType, flagVars, QueueType, queueVars
<1>2. /\ DecType /\ UNCHANGED decVars => DecType'
      /\ FileType /\ UNCHANGED fileVars => FileType'
      /\ FaultType /\ UNCHANGED fault => FaultType'
      /\ PcType /\ UNCHANGED pc => PcType'
  BY DEF DecType, decVars, FileType, fileVars, FaultType, PcType
<1>3. /\ TodoType /\ UNCHANGED todo => TodoType'
      /\ JobType /\ UNCHANGED job => JobType'
      /\ CountType /\ UNCHANGED switches => CountType'
  BY DEF TodoType, JobType, CountType
<1> QED
  BY <1>1, <1>2, <1>3

(* What is at hand in a job or at the head of the types to treat *)
LEMMA JobParts ==
    ASSUME Typed, NEW th \in Threads
    PROVE  job[th].type \in Types /\ job[th].index \in Indexes \cup {0, None}
BY DEF Typed, JobType

LEMMA TodoHead ==
    ASSUME Typed, NEW th \in Threads, todo[th] # <<>>
    PROVE  Head(todo[th]) \in Types /\ Tail(todo[th]) \in Seq(Types)
BY TakeType DEF Typed, TodoType

LEMMA PutType ==
    ASSUME Typed, NEW t \in Types, NEW p \in Packets,
           packets' = [packets EXCEPT ![t] = Append(@, p)]
    PROVE  packets' \in [Types -> Seq(Packets)]
<1>1. packets \in [Types -> Seq(Packets)]
  BY DEF Typed, QueueType
<1>2. Append(packets[t], p) \in Seq(Packets)
  BY <1>1, AppendType
<1> QED
  BY <1>1, <1>2

LEMMA NewJob ==
    ASSUME Typed, NEW th \in Threads, NEW t \in Types, NEW i \in Indexes \cup {0, None},
           job' = [job EXCEPT ![th] = [type |-> t, index |-> i]]
    PROVE  JobType'
BY DEF Typed, JobType

LEMMA TwoThreads == Threads = {Main, Reader} /\ Main # Reader
BY DEF Threads, Main, Reader

LEMMA PlaceNames == /\ OpenPlaces \subseteq Places /\ ClosePlaces \subseteq Places
                    /\ LoopPlaces \subseteq Places
                    /\ {"create", "create thread", "loop", "close", "wait"} \subseteq Places
                    /\ {"close next", "destroy", "exited", "none"} \subseteq Places
                    /\ {"mutex", "input", "open next", "ended"} \subseteq Places
BY DEF Places, LoopPlaces, TypePlaces

(* Opening a stream *)
LEMMA OpenType == ASSUME Typed, NEW th \in Threads, OpenInv(th), Open(th) PROVE Typed'
<1>1. CASE OpenCodec(th)
  <2>1. PcType'
    BY <1>1, TwoThreads DEF Typed, PcType, OpenCodec, Goto, Places, OpenPlaces, ClosePlaces, Done
  <2>2. StreamType'
    BY <1>1, JobParts DEF Typed, StreamType, OpenCodec
  <2> QED
    BY <1>1, <2>1, <2>2, Kept DEF Typed, OpenCodec
<1>2. CASE ClearEof(th)
  <2>1. PcType'
    BY <1>2, TwoThreads DEF Typed, PcType, ClearEof, Goto, Places, OpenPlaces, ClosePlaces, Done
  <2>2. FlagType'
    BY <1>2 DEF Typed, FlagType, ClearEof
  <2> QED
    BY <1>2, <2>1, <2>2, Kept DEF Typed, ClearEof
<1>3. CASE SetIndex(th)
  <2>1. PcType'
    BY <1>3, TwoThreads DEF Typed, PcType, SetIndex, Goto, Places, OpenPlaces, ClosePlaces
  <2>2. StreamType'
    BY <1>3, JobParts DEF Typed, StreamType, SetIndex
  <2> QED
    BY <1>3, <2>1, <2>2, Kept DEF Typed, SetIndex
<1>4. CASE SetPointer(th)
  <2>1. PcType'
    BY <1>4, TwoThreads DEF Typed, PcType, SetPointer, Goto, Places, OpenPlaces, ClosePlaces
  <2>2. StreamType'
    BY <1>4, JobParts DEF Typed, StreamType, SetPointer, OpenInv, At, OpenPlaces
  <2> QED
    BY <1>4, <2>1, <2>2, Kept DEF Typed, SetPointer
<1>5. CASE StartQueue(th)
  <2>1. PcType'
    BY <1>5, TwoThreads DEF Typed, PcType, StartQueue, Goto, Places, OpenPlaces, ClosePlaces
  <2>2. QueueType'
    BY <1>5, PutType, JobParts DEF Typed, QueueType, StartQueue, Packets
  <2>3. DecType'
    BY <1>5, JobParts DEF Typed, DecType, StartQueue
  <2> QED
    BY <1>5, <2>1, <2>2, <2>3, Kept DEF Typed, StartQueue
<1>6. CASE StartDecoder(th)
  <2>1. PcType'
    BY <1>6, TwoThreads DEF Typed, PcType, StartDecoder, Goto, Places, OpenPlaces, ClosePlaces,
       Done
  <2>2. DecType'
    BY <1>6, JobParts DEF Typed, DecType, StartDecoder
  <2> QED
    BY <1>6, <2>1, <2>2, Kept DEF Typed, StartDecoder
<1> QED
  BY <1>1, <1>2, <1>3, <1>4, <1>5, <1>6 DEF Open

(* Closing one *)
LEMMA CloseType == ASSUME Typed, Close PROVE Typed'
<1>1. CASE AbortQueue
  <2>1. PcType'
    BY <1>1, TwoThreads DEF Typed, PcType, AbortQueue, Goto, Places, OpenPlaces, ClosePlaces
  <2>2. QueueType'
    BY <1>1, JobParts, TwoThreads DEF Typed, QueueType, AbortQueue
  <2>3. FaultType'
    BY <1>1 DEF Typed, FaultType, AbortQueue
  <2> QED
    BY <1>1, <2>1, <2>2, <2>3, Kept DEF Typed, AbortQueue
<1>2. CASE JoinDecoder
  <2>1. PcType'
    BY <1>2, TwoThreads DEF Typed, PcType, JoinDecoder, Goto, Places, OpenPlaces, ClosePlaces
  <2>2. QueueType'
    BY <1>2, JobParts, TwoThreads, EmptySeq DEF Typed, QueueType, JoinDecoder
  <2>3. DecType'
    BY <1>2, JobParts, TwoThreads DEF Typed, DecType, JoinDecoder
  <2> QED
    BY <1>2, <2>1, <2>2, <2>3, Kept DEF Typed, JoinDecoder
<1>3. CASE ClearPointer
  <2>1. PcType'
    BY <1>3, TwoThreads DEF Typed, PcType, ClearPointer, Goto, Places, OpenPlaces, ClosePlaces
  <2>2. StreamType'
    BY <1>3, JobParts, TwoThreads DEF Typed, StreamType, ClearPointer
  <2> QED
    BY <1>3, <2>1, <2>2, Kept DEF Typed, ClearPointer
<1>4. CASE ClearIndex
  <2>1. PcType'
    BY <1>4, TwoThreads DEF Typed, PcType, ClearIndex, Goto, Places, OpenPlaces, ClosePlaces
  <2>2. StreamType'
    BY <1>4, JobParts, TwoThreads DEF Typed, StreamType, ClearIndex
  <2> QED
    BY <1>4, <2>1, <2>2, Kept DEF Typed, ClearIndex
<1> QED
  BY <1>1, <1>2, <1>3, <1>4 DEF Close

(* Creating and closing the player *)
LEMMA PlayerType == ASSUME Typed,
Create \/ CreateThread \/ Show \/ KeyQuit \/ StreamClose PROVE Typed'
<1>1. CASE Create
  <2>1. PcType'
    BY <1>1, TwoThreads DEF Typed, PcType, Create, Goto, Places, OpenPlaces, ClosePlaces
  <2>2. ResType'
    BY <1>1 DEF Typed, ResType, Create, Resources
  <2> QED
    BY <1>1, <2>1, <2>2, Kept DEF Typed, Create
<1>2. CASE CreateThread
  <2>1. PcType'
    BY <1>2, TwoThreads DEF Typed, PcType, CreateThread, Goto, Places, OpenPlaces, ClosePlaces
  <2> QED
    BY <1>2, <2>1, Kept DEF Typed, CreateThread
<1>3. CASE Show
  <2>1. FlagType'
    BY <1>3 DEF Typed, FlagType, Show
  <2> QED
    BY <1>3, <2>1, Kept DEF Typed, Show
<1>4. CASE KeyQuit
  <2>1. PcType'
    BY <1>4, TwoThreads DEF Typed, PcType, KeyQuit, Goto, Places, OpenPlaces, ClosePlaces
  <2> QED
    BY <1>4, <2>1, Kept DEF Typed, KeyQuit
<1>5. CASE CloseBegin
  <2>1. PcType'
    BY <1>5, TwoThreads DEF Typed, PcType, CloseBegin, Goto, Places, OpenPlaces, ClosePlaces
  <2>2. FlagType'
    BY <1>5 DEF Typed, FlagType, CloseBegin
  <2> QED
    BY <1>5, <2>1, <2>2, Kept DEF Typed, CloseBegin
<1>6. CASE WaitReader
  <2>1. PcType'
    BY <1>6, TwoThreads DEF Typed, PcType, WaitReader, Goto, Places, OpenPlaces, ClosePlaces
  <2>2. TodoType'
    BY <1>6, TwoThreads, Order DEF Typed, TodoType, WaitReader
  <2> QED
    BY <1>6, <2>1, <2>2, Kept DEF Typed, WaitReader
<1>7. CASE CloseNext
  <2>1. PcType'
    BY <1>7, TwoThreads DEF Typed, PcType, CloseNext, Goto, Places, OpenPlaces, ClosePlaces
  <2>2. TodoType'
    BY <1>7, TwoThreads, TodoHead DEF Typed, TodoType, CloseNext
  <2>3. JobType'
    <3> DEFINE t == Head(todo[Main])
    <3>1. t \in Types /\ stream[t] \in Indexes \cup {0, None} /\ Main \in Threads
      BY <1>7, TwoThreads, TodoHead DEF Typed, StreamType, CloseNext
    <3>2. UNCHANGED job \/ job' = [job EXCEPT ![Main] = [type |-> t, index |-> stream[t]]]
      BY <1>7 DEF CloseNext
    <3> QED
      BY <3>1, <3>2, NewJob, Kept DEF Typed
  <2> QED
    BY <1>7, <2>1, <2>2, <2>3, Kept DEF Typed, CloseNext
<1>8. CASE CloseInput
  <2>1. PcType'
    BY <1>8, TwoThreads DEF Typed, PcType, CloseInput, Goto, Places, OpenPlaces, ClosePlaces
  <2>2. ResType'
    BY <1>8 DEF Typed, ResType, CloseInput
  <2> QED
    BY <1>8, <2>1, <2>2, Kept DEF Typed, CloseInput
<1>9. CASE Destroy
  <2>1. PcType'
    BY <1>9, TwoThreads DEF Typed, PcType, Destroy, Goto, Places, OpenPlaces, ClosePlaces
  <2>2. ResType'
    BY <1>9 DEF Typed, ResType, Destroy
  <2> QED
    BY <1>9, <2>1, <2>2, Kept DEF Typed, Destroy
<1> QED
  BY <1>1, <1>2, <1>3, <1>4, <1>5, <1>6, <1>7, <1>8, <1>9 DEF StreamClose

(* The keys that switch *)
LEMMA SwitchType == ASSUME Typed, NEW t \in Types, KeyCycle(t) PROVE Typed'
<1>1. CASE KeyCycle(t)
  <2>1. PcType'
    BY <1>1, TwoThreads DEF Typed, PcType, KeyCycle, Goto, Places, OpenPlaces, ClosePlaces
  <2>2. JobType'
    <3>1. CASE Cycled(t) = last[t]
      BY <1>1, <3>1, Kept DEF Typed, KeyCycle
    <3>2. CASE Cycled(t) # last[t]
      <4>1. Cycled(t) \in Indexes \cup {0, None} /\ Main \in Threads
        BY <3>2, CycledType, TwoThreads
      <4>2. job' = [job EXCEPT ![Main] = [type |-> t, index |-> Cycled(t)]]
        BY <1>1, <3>2 DEF KeyCycle
      <4> QED
        BY <4>1, <4>2, NewJob
    <3> QED
      BY <3>1, <3>2
  <2>3. CountType'
    <3>1. switches \in 0 .. MaxSwitches /\ switches < MaxSwitches /\ switches' = switches + 1
      BY <1>1 DEF Typed, CountType, KeyCycle
    <3> QED
      BY <3>1, BoundsAssumption DEF CountType
  <2> QED
    BY <1>1, <2>1, <2>2, <2>3, Kept DEF Typed, KeyCycle
<1> QED
  BY <1>1 DEF KeyCycle

(* Opening the file *)
LEMMA FileOpenType == ASSUME Typed, OpenFile PROVE Typed'
<1>1. CASE CreateMutex
  <2>1. PcType'
    BY <1>1, TwoThreads DEF Typed, PcType, CreateMutex, Goto, Places, OpenPlaces, ClosePlaces, End
  <2>2. StreamType'
    BY <1>1 DEF Typed, StreamType, CreateMutex
  <2>3. FlagType'
    BY <1>1 DEF Typed, FlagType, CreateMutex, End
  <2> QED
    BY <1>1, <2>1, <2>2, <2>3, Kept DEF Typed, CreateMutex
<1>2. CASE OpenInput
  <2>1. PcType'
    BY <1>2, TwoThreads DEF Typed, PcType, OpenInput, Goto, Places, OpenPlaces, ClosePlaces, End
  <2>2. ResType'
    BY <1>2 DEF Typed, ResType, OpenInput
  <2>3. FlagType'
    BY <1>2 DEF Typed, FlagType, OpenInput, End
  <2>4. TodoType'
    BY <1>2, TwoThreads, Order DEF Typed, TodoType, OpenInput
  <2> QED
    BY <1>2, <2>1, <2>2, <2>3, <2>4, Kept DEF Typed, OpenInput
<1>3. CASE OpenNext
  <2>1. PcType'
    BY <1>3, TwoThreads DEF Typed, PcType, OpenNext, Goto, Places, OpenPlaces, ClosePlaces
  <2>2. TodoType'
    BY <1>3, TwoThreads, TodoHead DEF Typed, TodoType, OpenNext
  <2>3. JobType'
    <3> DEFINE t == Head(todo[Reader])
    <3>1. t \in Types /\ Reader \in Threads
      BY <1>3, TwoThreads, TodoHead DEF OpenNext
    <3>2. CASE OfType(t) = {}
      BY <1>3, <3>2, Kept DEF Typed, OpenNext
    <3>3. CASE OfType(t) # {}
      <4>1. Min(OfType(t)) \in Indexes \cup {0, None}
        BY <3>3, FirstOfType
      <4>2. job' = [job EXCEPT ![Reader] = [type |-> t, index |-> Min(OfType(t))]]
        BY <1>3, <3>3 DEF OpenNext
      <4> QED
        BY <3>1, <4>1, <4>2, NewJob
    <3> QED
      BY <3>2, <3>3
  <2> QED
    BY <1>3, <2>1, <2>2, <2>3, Kept DEF Typed, OpenNext
<1>4. CASE Opened
  <2>1. PcType'
    BY <1>4, TwoThreads DEF Typed, PcType, Opened, Goto, Places, OpenPlaces, ClosePlaces, End
  <2>2. FlagType'
    BY <1>4 DEF Typed, FlagType, Opened, End
  <2> QED
    BY <1>4, <2>1, <2>2, Kept DEF Typed, Opened
<1> QED
  BY <1>1, <1>2, <1>3, <1>4 DEF OpenFile

(* In the loop there is a Type where it is used, and a packet where one was read. *)
LEMMA ReaderAt ==
    ASSUME Typed, ReaderInv
    PROVE  /\ pc[Reader] \in TypePlaces => /\ todo[Reader] # <<>> /\ Type \in Types
                                           /\ Others \in Seq(Types)
           /\ pc[Reader] = "put" => pkt \in Packets
           /\ Null \in Packets
BY TwoThreads, TodoHead DEF ReaderInv, Type, Others, Packets

(* Reading *)
LEMMA ReadType == ASSUME Typed, ReaderInv, ReadLoop PROVE Typed'
<1>1. CASE Top
  <2>1. PcType'
    BY <1>1, TwoThreads DEF Typed, PcType, Top, Goto, Places, OpenPlaces, ClosePlaces, End, Visit
  <2>2. FlagType'
    BY <1>1 DEF Typed, FlagType, Top, End
  <2>3. TodoType'
    BY <1>1, TwoThreads, Order, ReaderAt DEF Typed, TodoType, Top, Visit, At, TypePlaces
  <2> QED
    BY <1>1, <2>1, <2>2, <2>3, Kept DEF Typed, Top
<1>2. CASE EnoughPointer
  <2>1. PcType'
    BY <1>2, TwoThreads DEF Typed, PcType, EnoughPointer, Goto, Places, OpenPlaces, ClosePlaces
  <2>2. FileType'
    BY <1>2, ReaderAt DEF Typed, FileType, EnoughPointer, StreamType, At, TypePlaces
  <2> QED
    BY <1>2, <2>1, <2>2, Kept DEF Typed, EnoughPointer
<1>3. CASE EnoughIndex
  <2>1. PcType'
    BY <1>3, TwoThreads DEF Typed, PcType, EnoughIndex, Goto, Places, OpenPlaces, ClosePlaces,
       EnoughOf, Visit
  <2>2. TodoType'
    BY <1>3, TwoThreads, Order, ReaderAt DEF Typed, TodoType, EnoughIndex, Visit, At, TypePlaces,
       EnoughOf
  <2> QED
    BY <1>3, <2>1, <2>2, Kept DEF Typed, EnoughIndex
<1>4. CASE EnoughQueue
  <2>1. PcType'
    BY <1>4, TwoThreads DEF Typed, PcType, EnoughQueue, Goto, Places, OpenPlaces, ClosePlaces,
       EnoughOf, Visit
  <2>2. FaultType'
    BY <1>4 DEF Typed, FaultType, EnoughQueue
  <2>3. TodoType'
    BY <1>4, TwoThreads, Order, ReaderAt DEF Typed, TodoType, EnoughQueue, Visit, At, TypePlaces,
       EnoughOf
  <2> QED
    BY <1>4, <2>1, <2>2, <2>3, Kept DEF Typed, EnoughQueue
<1>5. CASE Finished
  <2>1. PcType'
    BY <1>5, TwoThreads DEF Typed, PcType, Finished, Goto, Places, OpenPlaces, ClosePlaces, Visit
  <2>2. TodoType'
    BY <1>5, TwoThreads, Order, ReaderAt DEF Typed, TodoType, Finished, Visit, At, TypePlaces
  <2> QED
    BY <1>5, <2>1, <2>2, Kept DEF Typed, Finished
<1>6. CASE AllPlayed
  <2>1. PcType'
    BY <1>6, TwoThreads DEF Typed, PcType, AllPlayed, Goto, Places, OpenPlaces, ClosePlaces, End
  <2>2. FlagType'
    BY <1>6 DEF Typed, FlagType, AllPlayed, End
  <2> QED
    BY <1>6, <2>1, <2>2, Kept DEF Typed, AllPlayed
<1>7. CASE \E i \in Indexes : ReadPacket(i)
  <2>1. PcType'
    BY <1>7, TwoThreads DEF Typed, PcType, Goto, Places, OpenPlaces, ClosePlaces, Visit,
       ReadPacket
  <2>2. FlagType'
    BY <1>7 DEF Typed, FlagType, ReadPacket
  <2>3. FileType'
    BY <1>7, BoundsAssumption DEF Typed, FileType, ReadPacket
  <2>4. TodoType'
    BY <1>7, TwoThreads, Order, ReaderAt DEF Typed, TodoType, Visit, At, TypePlaces, ReadPacket
  <2> QED
    BY <1>7, <2>1, <2>2, <2>3, <2>4, Kept DEF Typed, ReadPacket
<1>8. CASE ReadEof
  <2>1. PcType'
    BY <1>8, TwoThreads DEF Typed, PcType, ReadEof, Goto, Places, OpenPlaces, ClosePlaces, Visit
  <2>2. FileType'
    BY <1>8, BoundsAssumption DEF Typed, FileType, ReadEof
  <2>3. TodoType'
    BY <1>8, TwoThreads, Order, ReaderAt DEF Typed, TodoType, ReadEof, Visit, At, TypePlaces
  <2> QED
    BY <1>8, <2>1, <2>2, <2>3, Kept DEF Typed, ReadEof
<1>9. CASE ReadError
  <2>1. PcType'
    BY <1>9, TwoThreads DEF Typed, PcType, ReadError, Goto, Places, OpenPlaces, ClosePlaces
  <2> QED
    BY <1>9, <2>1, Kept DEF Typed, ReadError
<1>10. CASE ReadAgain
  <2>1. PcType'
    BY <1>10, TwoThreads DEF Typed, PcType, ReadAgain, Goto, Places, OpenPlaces, ClosePlaces, End
  <2>2. FlagType'
    BY <1>10 DEF Typed, FlagType, ReadAgain, End
  <2> QED
    BY <1>10, <2>1, <2>2, Kept DEF Typed, ReadAgain
<1>11. CASE Match
  <2>1. PcType'
    BY <1>11, TwoThreads DEF Typed, PcType, Match, Goto, Places, OpenPlaces, ClosePlaces, Visit
  <2>2. TodoType'
    BY <1>11, TwoThreads, Order, ReaderAt DEF Typed, TodoType, Match, Visit, At, TypePlaces
  <2> QED
    BY <1>11, <2>1, <2>2, Kept DEF Typed, Match
<1>12. CASE Disposition
  <2>1. PcType'
    BY <1>12, TwoThreads DEF Typed, PcType, Disposition, Goto, Places, OpenPlaces, ClosePlaces
  <2>2. FaultType'
    BY <1>12 DEF Typed, FaultType, Disposition
  <2> QED
    BY <1>12, <2>1, <2>2, Kept DEF Typed, Disposition
<1>13. CASE PutPacket
  <2>1. PcType'
    BY <1>13, TwoThreads DEF Typed, PcType, PutPacket, Goto, Places, OpenPlaces, ClosePlaces,
       Visit
  <2>2. QueueType'
    BY <1>13, PutType, ReaderAt DEF Typed, QueueType, PutPacket, Put, At, TypePlaces
  <2>3. TodoType'
    BY <1>13, TwoThreads, Order, ReaderAt DEF Typed, TodoType, PutPacket, Visit, At, TypePlaces
  <2> QED
    BY <1>13, <2>1, <2>2, <2>3, Kept DEF Typed, PutPacket
<1>14. CASE DrainTest
  <2>1. PcType'
    BY <1>14, TwoThreads DEF Typed, PcType, DrainTest, Goto, Places, OpenPlaces, ClosePlaces,
       Visit
  <2>2. TodoType'
    BY <1>14, TwoThreads, Order, ReaderAt DEF Typed, TodoType, DrainTest, Visit, At, TypePlaces
  <2> QED
    BY <1>14, <2>1, <2>2, Kept DEF Typed, DrainTest
<1>15. CASE PutNull
  <2>1. PcType'
    BY <1>15, TwoThreads DEF Typed, PcType, PutNull, Goto, Places, OpenPlaces, ClosePlaces, Visit
  <2>2. QueueType'
    BY <1>15, PutType, ReaderAt DEF Typed, QueueType, PutNull, Put, At, TypePlaces
  <2>3. TodoType'
    BY <1>15, TwoThreads, Order, ReaderAt DEF Typed, TodoType, PutNull, Visit, At, TypePlaces
  <2> QED
    BY <1>15, <2>1, <2>2, <2>3, Kept DEF Typed, PutNull
<1>16. CASE SetEof
  <2>1. PcType'
    BY <1>16, TwoThreads DEF Typed, PcType, SetEof, Goto, Places, OpenPlaces, ClosePlaces
  <2>2. FlagType'
    BY <1>16 DEF Typed, FlagType, SetEof
  <2> QED
    BY <1>16, <2>1, <2>2, Kept DEF Typed, SetEof
<1> QED
  BY <1>1, <1>2, <1>3, <1>4, <1>5, <1>6, <1>7, <1>8, <1>9, <1>10, <1>11, <1>12, <1>13, <1>14,
     <1>15, <1>16 DEF ReadLoop

(* Decoding *)
LEMMA DecoderType == ASSUME Typed, NEW t \in Types, DecoderStep(t) PROVE Typed'
<1>1. CASE TakePacket(t)
  <2>1. QueueType'
    BY <1>1, TakeType DEF Typed, QueueType, TakePacket
  <2>2. DecType'
    BY <1>1 DEF Typed, DecType, TakePacket
  <2> QED
    BY <1>1, <2>1, <2>2, Kept DEF Typed, TakePacket
<1>2. CASE EndDecoder(t)
  <2>1. DecType'
    BY <1>2 DEF Typed, DecType, EndDecoder
  <2> QED
    BY <1>2, <2>1, Kept DEF Typed, EndDecoder
<1> QED
  BY <1>1, <1>2 DEF DecoderStep

------------------------------------------------------------------------------
(* Where a step goes *)
MainTo(place)   == pc'[Main] = place /\ pc'[Reader] = pc[Reader]
ReaderTo(place) == pc'[Reader] = place /\ pc'[Main] = pc[Main]

LEMMA Went ==
    ASSUME Typed, NEW place
    PROVE  /\ Goto(Main, place) => MainTo(place)
           /\ Goto(Reader, place) => ReaderTo(place)
           /\ UNCHANGED pc => MainTo(pc[Main]) /\ ReaderTo(pc[Reader])
BY TwoThreads DEF Typed, PcType, Goto, MainTo, ReaderTo

LEMMA WentTodo ==
    ASSUME Typed, NEW types
    PROVE  /\ todo' = [todo EXCEPT ![Main] = types] =>
                 todo'[Main] = types /\ todo'[Reader] = todo[Reader]
           /\ todo' = [todo EXCEPT ![Reader] = types] =>
                 todo'[Reader] = types /\ todo'[Main] = todo[Main]
BY TwoThreads DEF Typed, TodoType

LEMMA WentVisit ==
    ASSUME Typed, NEW place, NEW types, Visit(place, types)
    PROVE  ReaderTo(place) /\ todo'[Reader] = types /\ todo'[Main] = todo[Main]
BY Went, WentTodo DEF Visit

(* What any step of the loop does: it stays in the loop or ends, leaves    *)
(* alone what the main thread and the decoders use, but for the packets,   *)
(* and visits a type only if there is one.                                 *)
LoopEffect ==
    /\ pc[Reader] \in LoopPlaces /\ pc'[Reader] \in LoopPlaces \cup {"ended"}
    /\ pc'[Main] = pc[Main] /\ todo'[Main] = todo[Main]
    /\ UNCHANGED <<resVars, streamVars, abort_request, show_mode, width, qabort, decVars, job,
                   switches>>
    /\ pc'[Reader] \in TypePlaces => todo'[Reader] # <<>>
    /\ pc'[Reader] \in {"match", "disposition", "put"} => pkt' \in Indexes

LEMMA LoopStep == ASSUME Typed, ReaderInv, ReadLoop PROVE LoopEffect
<1>1. CASE Top
  <2>0. \/ Goto(Reader, "ended") /\ UNCHANGED todo
        \/ Visit("enough pointer", <<"audio", "video">>)
    BY <1>1 DEF Top, End
  <2>1. Goto(Reader, "ended") => ReaderTo("ended")
    BY Went
  <2>2. Visit("enough pointer", <<"audio", "video">>) =>
          /\ ReaderTo("enough pointer")
          /\ todo'[Main] = todo[Main] /\ todo'[Reader] = <<"audio", "video">>
    BY WentVisit
  <2>3. /\ \/ ReaderTo("ended")
           \/ (ReaderTo("enough pointer") /\ todo'[Reader] = <<"audio", "video">>)
        /\ todo'[Main] = todo[Main]
    BY <2>0, <2>1, <2>2
  <2> QED
    BY <1>1, <2>3, Order
       DEF Top, flagVars, queueVars, fileVars, At, LoopPlaces, TypePlaces, ReaderTo, LoopEffect
<1>2. CASE EnoughPointer
  <2>1. ReaderTo("enough index")
    BY <1>2, Went DEF EnoughPointer
  <2> QED
    BY <1>2, <2>1, Order
       DEF EnoughPointer, flagVars, queueVars, ReaderInv, At, LoopPlaces, TypePlaces, ReaderTo,
           LoopEffect
<1>3. CASE EnoughIndex
  <2>0. \/ Visit("top", <<>>) \/ (Goto(Reader, "enough queue") /\ UNCHANGED todo)
        \/ Visit("enough pointer", Others) /\ Others # <<>>
    <3>1. CASE stream[Type] = None
      BY <1>3, <3>1, Zenon DEF EnoughIndex, EnoughOf
    <3>2. CASE stream[Type] # None
      BY <1>3, <3>2 DEF EnoughIndex
    <3> QED
      BY <3>1, <3>2
  <2>1. Visit("top", <<>>) =>
          ReaderTo("top") /\ todo'[Main] = todo[Main] /\ todo'[Reader] = <<>>
    BY WentVisit
  <2>2. Goto(Reader, "enough queue") => ReaderTo("enough queue")
    BY Went
  <2>3. Visit("enough pointer", Others) =>
          ReaderTo("enough pointer") /\ todo'[Main] = todo[Main] /\ todo'[Reader] = Others
    BY WentVisit
  <2>4. /\ \/ ReaderTo("top") \/ (ReaderTo("enough queue") /\ UNCHANGED todo)
           \/ ReaderTo("enough pointer") /\ todo'[Reader] # <<>>
        /\ todo'[Main] = todo[Main]
    BY <2>0, <2>1, <2>2, <2>3
  <2> QED
    BY <1>3, <2>4, Order
       DEF EnoughIndex, flagVars, queueVars, ReaderInv, At, LoopPlaces, TypePlaces, ReaderTo,
           LoopEffect
<1>4. CASE EnoughQueue
  <2>0. \/ Visit("top", <<>>) \/ UNCHANGED <<pc, todo>>
        \/ Visit("enough pointer", Others) /\ Others # <<>>
        \/ Visit("finished?", <<"audio", "video">>)
    BY <1>4 DEF EnoughQueue, EnoughOf
  <2>1. Visit("top", <<>>) =>
          ReaderTo("top") /\ todo'[Main] = todo[Main] /\ todo'[Reader] = <<>>
    BY WentVisit
  <2>2. UNCHANGED <<pc, todo>> => ReaderTo("enough queue") /\ UNCHANGED todo
    BY <1>4, Went DEF EnoughQueue, At
  <2>3. Visit("enough pointer", Others) =>
          ReaderTo("enough pointer") /\ todo'[Main] = todo[Main] /\ todo'[Reader] = Others
    BY WentVisit
  <2>4. Visit("finished?", <<"audio", "video">>) =>
          ReaderTo("finished?") /\ todo'[Main] = todo[Main] /\ todo'[Reader] = <<"audio", "video">>
    BY WentVisit
  <2>5. /\ \/ ReaderTo("top") \/ (ReaderTo("enough queue") /\ UNCHANGED todo)
           \/ ReaderTo("enough pointer") /\ todo'[Reader] # <<>>
           \/ ReaderTo("finished?") /\ todo'[Reader] = <<"audio", "video">>
        /\ todo'[Main] = todo[Main]
    BY <2>0, <2>1, <2>2, <2>3, <2>4
  <2> QED
    BY <1>4, <2>5, Order
       DEF EnoughQueue, flagVars, queueVars, ReaderInv, At, LoopPlaces, TypePlaces, ReaderTo,
           LoopEffect
<1>5. CASE Finished
  <2>0. \/ Visit("read", <<>>) \/ Visit("all played", <<>>)
        \/ Visit("finished?", Others) /\ Others # <<>>
    BY <1>5 DEF Finished
  <2>1. Visit("read", <<>>) =>
          ReaderTo("read") /\ todo'[Main] = todo[Main] /\ todo'[Reader] = <<>>
    BY WentVisit
  <2>2. Visit("all played", <<>>) =>
          ReaderTo("all played") /\ todo'[Main] = todo[Main] /\ todo'[Reader] = <<>>
    BY WentVisit
  <2>3. Visit("finished?", Others) =>
          ReaderTo("finished?") /\ todo'[Main] = todo[Main] /\ todo'[Reader] = Others
    BY WentVisit
  <2>4. /\ \/ ReaderTo("read") \/ ReaderTo("all played")
           \/ ReaderTo("finished?") /\ todo'[Reader] # <<>>
        /\ todo'[Main] = todo[Main]
    BY <2>0, <2>1, <2>2, <2>3
  <2> QED
    BY <1>5, <2>4, Order
       DEF Finished, flagVars, queueVars, At, LoopPlaces, TypePlaces, ReaderTo, LoopEffect
<1>6. CASE AllPlayed
  <2>1. ReaderTo("ended") \/ ReaderTo("read")
    BY <1>6, Went DEF AllPlayed, End
  <2> QED
    BY <1>6, <2>1, Order
       DEF AllPlayed, queueVars, At, LoopPlaces, TypePlaces, ReaderTo, LoopEffect
<1>7. CASE \E i \in Indexes : ReadPacket(i)
  <2>1. ReaderTo("match") /\ todo'[Reader] = <<"audio", "video">>
    BY <1>7, Went, WentVisit DEF ReadPacket
  <2>2. todo'[Main] = todo[Main]
    BY <1>7, WentVisit DEF ReadPacket
  <2> QED
    BY <1>7, <2>1, <2>2, Order
       DEF ReadPacket, queueVars, At, LoopPlaces, TypePlaces, ReaderTo, LoopEffect
<1>8. CASE ReadEof
  <2>0. Visit("failed?", <<>>) \/ Visit("drain?", <<"video", "audio">>)
    BY <1>8 DEF ReadEof
  <2>1. Visit("failed?", <<>>) =>
          ReaderTo("failed?") /\ todo'[Main] = todo[Main] /\ todo'[Reader] = <<>>
    BY WentVisit
  <2>2. Visit("drain?", <<"video", "audio">>) =>
          ReaderTo("drain?") /\ todo'[Main] = todo[Main] /\ todo'[Reader] = <<"video", "audio">>
    BY WentVisit
  <2>3. /\ \/ ReaderTo("failed?")
           \/ ReaderTo("drain?") /\ todo'[Reader] = <<"video", "audio">>
        /\ todo'[Main] = todo[Main]
    BY <2>0, <2>1, <2>2
  <2> QED
    BY <1>8, <2>3, Order
       DEF ReadEof, flagVars, queueVars, At, LoopPlaces, TypePlaces, ReaderTo, LoopEffect
<1>9. CASE ReadError
  <2>1. ReaderTo("failed?")
    BY <1>9, Went DEF ReadError
  <2> QED
    BY <1>9, <2>1, Order
       DEF ReadError, flagVars, queueVars, At, LoopPlaces, TypePlaces, ReaderTo, LoopEffect
<1>10. CASE ReadAgain
  <2>1. ReaderTo("ended") \/ ReaderTo("top")
    BY <1>10, Went DEF ReadAgain, End
  <2> QED
    BY <1>10, <2>1, Order
       DEF ReadAgain, queueVars, At, LoopPlaces, TypePlaces, ReaderTo, LoopEffect
<1>11. CASE Match
  <2>0. \/ Goto(Reader, "disposition") /\ UNCHANGED todo
        \/ Goto(Reader, "put") /\ UNCHANGED todo
        \/ Visit("match", Others) /\ Others # <<>>
        \/ Visit("top", <<>>)
    <3>1. CASE stream[Type] = pkt /\ Type = "video"
      BY <1>11, <3>1, Zenon DEF Match
    <3>2. CASE stream[Type] = pkt /\ Type # "video"
      BY <1>11, <3>2, Zenon DEF Match
    <3>3. CASE stream[Type] # pkt
      BY <1>11, <3>3 DEF Match
    <3> QED
      BY <3>1, <3>2, <3>3
  <2>1. Goto(Reader, "disposition") => ReaderTo("disposition")
    BY Went
  <2>2. Goto(Reader, "put") => ReaderTo("put")
    BY Went
  <2>3. Visit("match", Others) =>
          ReaderTo("match") /\ todo'[Main] = todo[Main] /\ todo'[Reader] = Others
    BY WentVisit
  <2>4. Visit("top", <<>>) =>
          ReaderTo("top") /\ todo'[Main] = todo[Main] /\ todo'[Reader] = <<>>
    BY WentVisit
  <2>5. /\ \/ (ReaderTo("disposition") /\ UNCHANGED todo) \/ (ReaderTo("put") /\ UNCHANGED todo)
           \/ (ReaderTo("match") /\ todo'[Reader] # <<>>) \/ ReaderTo("top")
        /\ todo'[Main] = todo[Main]
    BY <2>0, <2>1, <2>2, <2>3, <2>4
  <2> QED
    BY <1>11, <2>5
       DEF Match, flagVars, queueVars, fileVars, ReaderInv, At, LoopPlaces, TypePlaces, ReaderTo,
           LoopEffect
<1>12. CASE Disposition
  <2>0. UNCHANGED pc \/ Goto(Reader, "put")
    BY <1>12 DEF Disposition
  <2>1. ReaderTo("disposition") \/ ReaderTo("put")
    BY <1>12, <2>0, Went DEF Disposition, At
  <2> QED
    BY <1>12, <2>1
       DEF Disposition, flagVars, queueVars, fileVars, ReaderInv, At, LoopPlaces, TypePlaces,
           ReaderTo, LoopEffect
<1>13. CASE PutPacket
  <2>1. ReaderTo("top")
    BY <1>13, Went, WentVisit DEF PutPacket
  <2>2. todo'[Main] = todo[Main]
    BY <1>13, WentVisit DEF PutPacket
  <2> QED
    BY <1>13, <2>1, <2>2, Order
       DEF PutPacket, flagVars, At, LoopPlaces, TypePlaces, ReaderTo, LoopEffect
<1>14. CASE DrainTest
  <2>0. \/ Goto(Reader, "drain") /\ UNCHANGED todo
        \/ Visit("drain?", Others) /\ Others # <<>>
        \/ Visit("set eof", <<>>)
    BY <1>14 DEF DrainTest
  <2>1. Goto(Reader, "drain") => ReaderTo("drain")
    BY Went
  <2>2. Visit("drain?", Others) =>
          ReaderTo("drain?") /\ todo'[Main] = todo[Main] /\ todo'[Reader] = Others
    BY WentVisit
  <2>3. Visit("set eof", <<>>) =>
          ReaderTo("set eof") /\ todo'[Main] = todo[Main] /\ todo'[Reader] = <<>>
    BY WentVisit
  <2>4. /\ \/ ReaderTo("drain") /\ UNCHANGED todo
           \/ ReaderTo("drain?") /\ todo'[Reader] # <<>>
           \/ ReaderTo("set eof")
        /\ todo'[Main] = todo[Main]
    BY <2>0, <2>1, <2>2, <2>3
  <2> QED
    BY <1>14, <2>4, Order
       DEF DrainTest, flagVars, queueVars, ReaderInv, At, LoopPlaces, TypePlaces, ReaderTo,
           LoopEffect
<1>15. CASE PutNull
  <2>1. \/ ReaderTo("drain?") /\ todo'[Reader] # <<>>
        \/ ReaderTo("set eof")
    BY <1>15, Went, WentVisit DEF PutNull
  <2>2. todo'[Main] = todo[Main]
    BY <1>15, WentVisit DEF PutNull
  <2> QED
    BY <1>15, <2>1, <2>2, Order
       DEF PutNull, flagVars, At, LoopPlaces, TypePlaces, ReaderTo, LoopEffect
<1>16. CASE SetEof
  <2>1. ReaderTo("failed?")
    BY <1>16, Went DEF SetEof
  <2> QED
    BY <1>16, <2>1, Order
       DEF SetEof, queueVars, At, LoopPlaces, TypePlaces, ReaderTo, LoopEffect
<1> QED
  BY <1>1, <1>2, <1>3, <1>4, <1>5, <1>6, <1>7, <1>8, <1>9, <1>10, <1>11, <1>12, <1>13, <1>14,
     <1>15, <1>16 DEF ReadLoop

(* So it keeps what does not depend on the packets or on what was read. *)
LEMMA LoopKeeps ==
    ASSUME Typed, PlaceInv, ResInv, StreamInv, ReaderInv, CloseInv, OpenInv(Main), OpenInv(Reader),
           LoopEffect
    PROVE  /\ PlaceInv' /\ ResInv' /\ StreamInv' /\ ReaderInv' /\ CloseInv'
           /\ OpenInv(Main)' /\ OpenInv(Reader)'
<1>1. /\ UNCHANGED <<up, ic, stream, st, last, abort_request, show_mode, width, qabort, decoder,
                     device, job, switches>>
      /\ \A t \in Types : Closed(t)' = Closed(t) /\ Unused(t)' = Unused(t)
  BY DEF LoopEffect, resVars, streamVars, decVars, Closed, Unused
<1>2. pc'[Main] = pc[Main] /\ todo'[Main] = todo[Main]
  BY DEF LoopEffect
<1>3. /\ pc[Reader] \in LoopPlaces /\ pc'[Reader] \in LoopPlaces \cup {"ended"}
      /\ pc[Reader] \notin Before \cup OpenPlaces \cup {"open next", "ended"}
      /\ pc'[Reader] \notin Before \cup OpenPlaces \cup {"open next"}
  BY DEF LoopEffect, LoopPlaces, TypePlaces, Before, OpenPlaces
<1>4. PlaceInv'
  BY <1>1, <1>2, <1>3 DEF PlaceInv, ReadPlaces, Before
<1>5. ResInv'
  BY <1>1, <1>2, <1>3 DEF ResInv, Before
<1>6. StreamInv'
  BY <1>1, <1>3 DEF StreamInv
<1>7. ReaderInv'
  BY <1>3 DEF LoopEffect, ReaderInv
<1>8. CloseInv'
  <2>1. pc[Main] = "close next" => CloseInv'
    BY <1>1, <1>2 DEF CloseInv, Coming, Types, ClosePlaces, Closed
  <2>2. pc[Main] # "close next" => CloseInv'
    BY <1>1, <1>2 DEF CloseInv, Coming, Types, Closed
  <2> QED
    BY <2>1, <2>2
<1>9. OpenInv(Main)'
  BY <1>1, <1>2 DEF OpenInv
<1>10. OpenInv(Reader)'
  BY <1>3 DEF OpenInv, OpenPlaces
<1> QED
  BY <1>4, <1>5, <1>6, <1>7, <1>8, <1>9, <1>10

(* A packet goes to the end of its queue, and not into an aborted one. *)
LEMMA PutKeepsFlush ==
    ASSUME Typed, FlushInv, Type \in Types, NEW p \in Packets, Put(p),
           UNCHANGED <<qabort, decoder, fresh, job>>, pc'[Main] = pc[Main]
    PROVE  FlushInv'
<1> SUFFICES ASSUME NEW t \in Types PROVE FlushInv!(t)'
  BY DEF FlushInv
<1>1. packets[t] \in Seq(Packets)
  BY DEF Typed, QueueType
<1>2. CASE t = Type /\ ~qabort[t]
  <2>1. packets'[t] = Append(packets[t], p)
    BY <1>2 DEF Put, Typed, QueueType
  <2> QED
    BY <1>1, <1>2, <2>1, AppendType DEF FlushInv
<1>3. CASE t # Type \/ qabort[t]
  <2>1. packets'[t] = packets[t]
    BY <1>3 DEF Put, Typed, QueueType
  <2> QED
    BY <2>1 DEF FlushInv
<1> QED
  BY <1>2, <1>3

LEMMA LoopFlush == ASSUME Typed, ReaderInv, FlushInv, ReadLoop PROVE FlushInv'
<1>1. UNCHANGED <<qabort, decoder, fresh, job>> /\ pc'[Main] = pc[Main]
  BY LoopStep DEF LoopEffect, decVars
<1>2. CASE PutPacket
  BY <1>1, <1>2, ReaderAt, PutKeepsFlush DEF PutPacket, At, TypePlaces
<1>3. CASE PutNull
  BY <1>1, <1>3, ReaderAt, PutKeepsFlush DEF PutNull, At, TypePlaces
<1>4. CASE ~PutPacket /\ ~PutNull
  <2>1. UNCHANGED packets
    BY <1>4 DEF ReadLoop, Top, EnoughPointer, EnoughIndex, EnoughQueue, Finished, AllPlayed,
                ReadPacket, ReadEof, ReadError, ReadAgain, Match, Disposition, DrainTest, SetEof,
                queueVars
  <2> QED
    BY <1>1, <2>1 DEF FlushInv
<1> QED
  BY <1>2, <1>3, <1>4

(* As long as no stream is switched, read_thread finds the streams as it   *)
(* has read them.                                                          *)
LEMMA LoopUnswitched ==
    ASSUME Typed, PlaceInv, StreamInv, ReaderInv, UnswitchedInv, ReadLoop
    PROVE  UnswitchedInv'
<1> SUFFICES ASSUME switches = 0 PROVE UnswitchedInv'
  BY LoopStep DEF UnswitchedInv, LoopEffect
<1>1. /\ pc[Reader] \in LoopPlaces /\ pc'[Reader] \in LoopPlaces \cup {"ended"}
      /\ UNCHANGED <<stream, st, qabort, job, switches>>
  BY LoopStep DEF LoopEffect, streamVars
<1>2. \A t \in Types : stream[t] = None \/ st[t] # None
  BY <1>1 DEF UnswitchedInv, LoopPlaces, TypePlaces
<1> USE DEF At
<1>3. CASE EnoughPointer
  <2>1. arg' = st[Type] /\ pc'[Reader] = "enough index" /\ UNCHANGED <<todo, fault>>
    BY <1>3, Went DEF EnoughPointer, ReaderTo
  <2> QED
    BY <1>1, <1>2, <2>1 DEF UnswitchedInv, Type
<1>4. CASE EnoughIndex
  <2>1. /\ arg = st[Type] /\ UNCHANGED <<arg, fault>>
        /\ \/ Goto(Reader, "enough queue") /\ UNCHANGED todo
           \/ Visit("top", <<>>) \/ Visit("enough pointer", Others)
    BY <1>4 DEF EnoughIndex, EnoughOf, UnswitchedInv, fileVars
  <2>2. \/ pc'[Reader] = "enough queue" /\ UNCHANGED todo
        \/ pc'[Reader] \in {"top", "enough pointer"}
    BY <2>1, Went, WentVisit DEF ReaderTo
  <2> QED
    BY <1>1, <1>2, <2>1, <2>2 DEF UnswitchedInv, Type
<1>5. CASE EnoughQueue
  <2>1. Type \in Types /\ arg = st[Type]
    BY <1>5, ReaderAt DEF EnoughQueue, UnswitchedInv, TypePlaces
  <2>2. ~(~qabort[Type] /\ arg = None)
    BY <2>1 DEF StreamInv
  <2>3. UNCHANGED fault /\ pc'[Reader] \in {"top", "enough pointer", "finished?"}
    BY <1>5, <2>2, WentVisit DEF EnoughQueue, EnoughOf, ReaderTo
  <2> QED
    BY <1>1, <1>2, <2>3 DEF UnswitchedInv
<1>6. CASE Match
  <2>1. Type \in Types /\ pkt # None
    BY <1>6, ReaderAt, IndexNumbers DEF Match, TypePlaces, ReaderInv, None
  <2>2. UNCHANGED fault /\ pc'[Reader] \in {"disposition", "put", "match", "top"}
    BY <1>6, Went, WentVisit DEF Match, ReaderTo
  <2>3. pc'[Reader] = "disposition" => Type = "video" /\ stream[Type] = pkt
    BY <1>6, Went, WentVisit DEF Match, ReaderTo
  <2> QED
    BY <1>1, <1>2, <2>1, <2>2, <2>3 DEF UnswitchedInv
<1>7. CASE Disposition
  <2>1. UNCHANGED fault /\ pc'[Reader] = "put"
    BY <1>7, Went DEF Disposition, UnswitchedInv, ReaderTo
  <2> QED
    BY <1>1, <1>2, <2>1 DEF UnswitchedInv
<1>8. CASE ~EnoughPointer /\ ~EnoughIndex /\ ~EnoughQueue /\ ~Match /\ ~Disposition
  <2>1. UNCHANGED fault
    BY <1>8 DEF ReadLoop, Top, Finished, AllPlayed, ReadPacket, ReadEof, ReadError, ReadAgain,
                PutPacket, DrainTest, PutNull, SetEof
  <2>2. \E place : /\ place \notin {"enough index", "enough queue", "disposition"}
                   /\ (Goto(Reader, place) \/ \E types : Visit(place, types))
    BY <1>8 DEF ReadLoop, Top, Finished, AllPlayed, ReadPacket, ReadEof, ReadError, ReadAgain,
                PutPacket, DrainTest, PutNull, SetEof, End
  <2>3. pc'[Reader] \notin {"enough index", "enough queue", "disposition"}
    BY <2>2, Went, WentVisit DEF ReaderTo
  <2> QED
    BY <1>1, <1>2, <2>1, <2>3 DEF UnswitchedInv
<1> QED
  BY <1>3, <1>4, <1>5, <1>6, <1>7, <1>8


------------------------------------------------------------------------------
(* Each step keeps the invariant: what it changes, and then each part *)
LEMMA Counted == ASSUME Typed PROVE switches \in Nat /\ (switches > 0 <=> switches # 0)
<1>1. switches \in 0 .. MaxSwitches /\ MaxSwitches \in Nat
  BY BoundsAssumption DEF Typed, CountType
<1> QED
  BY <1>1

(* The decoder threads *)
LEMMA TakeKeeps == ASSUME Typed, Safe, NEW t \in Types, TakePacket(t) PROVE Safe'
<1>1. UNCHANGED <<up, ic, stream, st, abort_request, show_mode, width, qabort, decoder, device,
                todo, job, switches, pkt, arg, fault>> /\ UNCHANGED pc
  BY DEF TakePacket, resVars, streamVars, flagVars, queueVars, decVars, fileVars
<1>2. /\ ~qabort[t] /\ ~fresh'[t]
      /\ \A u \in Types : u # t => packets'[u] = packets[u] /\ fresh'[u] = fresh[u]
  BY DEF TakePacket, Typed, QueueType, DecType
<1> USE DEF Safe, Placed, PlaceInv, MainPlaces, ReadPlaces, Before, OpenPlaces, ClosePlaces,
            LoopPlaces, TypePlaces
<1>3. PlaceInv'
  BY <1>1, <1>2
<1>4. ResInv'
  BY <1>1, <1>2 DEF ResInv, Closed
<1>5. StreamInv'
  BY <1>1, <1>2 DEF StreamInv, Unused, Closed, Types
<1>6. ReaderInv'
  BY <1>1, <1>2 DEF ReaderInv, Unused, Closed
<1>7. CloseInv'
  BY <1>1, <1>2 DEF CloseInv, Closed
<1>8. OpenInv(Main)' /\ OpenInv(Reader)'
  BY <1>1, <1>2 DEF OpenInv
<1>9. FlushInv'
  BY <1>1, <1>2 DEF FlushInv
<1>10. UnswitchedInv'
  BY <1>1, <1>2 DEF UnswitchedInv, Type
<1> QED
  BY <1>3, <1>4, <1>5, <1>6, <1>7, <1>8, <1>9, <1>10

LEMMA EndKeeps == ASSUME Typed, Safe, NEW t \in Types, EndDecoder(t) PROVE Safe'
<1>1. UNCHANGED <<up, ic, stream, st, abort_request, show_mode, width, qabort, packets, fresh,
                device, todo, job, switches, pkt, arg, fault>> /\ UNCHANGED pc
  BY DEF EndDecoder, resVars, streamVars, flagVars, queueVars, decVars, fileVars
<1>2. /\ qabort[t] /\ decoder[t] # "none" /\ decoder'[t] # "none"
      /\ \A u \in Types : u # t => decoder'[u] = decoder[u]
  BY DEF EndDecoder, Typed, DecType
<1>3. \A u \in Types : (Closed(u) <=> Closed(u)') /\ (Unused(u) <=> Unused(u)')
  BY <1>1, <1>2 DEF Closed, Unused
<1>4. job[Main].type \in Types /\ job[Reader].type \in Types
  BY JobParts, TwoThreads
<1> USE DEF Safe, Placed, PlaceInv, MainPlaces, ReadPlaces, Before, OpenPlaces, ClosePlaces,
            LoopPlaces, TypePlaces
<1>5. PlaceInv'
  BY <1>1, <1>2, <1>3, <1>4
<1>6. ResInv'
  BY <1>1, <1>2, <1>3, <1>4 DEF ResInv, Closed
<1>7. StreamInv'
  BY <1>1, <1>2, <1>3, <1>4 DEF StreamInv, Unused, Closed, Types
<1>8. ReaderInv'
  BY <1>1, <1>2, <1>3, <1>4, Order DEF ReaderInv
<1>9. CloseInv'
  BY <1>1, <1>2, <1>3, <1>4, Order DEF CloseInv
<1>10. OpenInv(Main)' /\ OpenInv(Reader)'
  BY <1>1, <1>2, <1>3, <1>4 DEF OpenInv
<1>11. FlushInv'
  BY <1>1, <1>2, <1>3, <1>4 DEF FlushInv
<1>12. UnswitchedInv'
  BY <1>1, <1>2, <1>3, <1>4 DEF UnswitchedInv, Type
<1> QED
  BY <1>5, <1>6, <1>7, <1>8, <1>9, <1>10, <1>11, <1>12

(* The main thread creates the player, opens the window, and closes all. *)
LEMMA CreateKeeps == ASSUME Typed, Safe, Create PROVE Safe'
<1>1. UNCHANGED <<ic, stream, st, abort_request, show_mode, width, qabort, packets, decoder,
                fresh, device, todo, job, switches, pkt, arg, fault>>
  BY DEF Create, resVars, streamVars, flagVars, queueVars, decVars, fileVars
<1>2. /\ pc[Main] = "create" /\ pc'[Reader] = pc[Reader]
      /\ pc'[Main] \in {"create thread", "close"}
  BY Went DEF Create, At, MainTo
<1>3. pc'[Main] = "create thread" => up' = Resources
  <2>1. up' = Resources \/ Goto(Main, "close")
    BY DEF Create
  <2>2. Goto(Main, "close") => MainTo("close")
    BY Went
  <2> QED
    BY <2>1, <2>2 DEF MainTo
<1> USE DEF Safe, Placed, PlaceInv, MainPlaces, ReadPlaces, Before, OpenPlaces, ClosePlaces,
            LoopPlaces, TypePlaces
<1>4. PlaceInv'
  BY <1>1, <1>2, <1>3
<1>5. ResInv'
  BY <1>1, <1>2, <1>3 DEF ResInv, Closed
<1>6. StreamInv'
  BY <1>1, <1>2, <1>3 DEF StreamInv, Unused, Closed, Types
<1>7. ReaderInv'
  BY <1>1, <1>2, <1>3 DEF ReaderInv, Unused, Closed
<1>8. CloseInv'
  BY <1>1, <1>2, <1>3 DEF CloseInv, Closed
<1>9. OpenInv(Main)' /\ OpenInv(Reader)'
  BY <1>1, <1>2, <1>3 DEF OpenInv
<1>10. FlushInv'
  BY <1>1, <1>2, <1>3 DEF FlushInv
<1>11. UnswitchedInv'
  BY <1>1, <1>2, <1>3 DEF UnswitchedInv, Type
<1> QED
  BY <1>4, <1>5, <1>6, <1>7, <1>8, <1>9, <1>10, <1>11

LEMMA ThreadKeeps == ASSUME Typed, Safe, CreateThread PROVE Safe'
<1>1. UNCHANGED <<up, ic, stream, st, abort_request, show_mode, width, qabort, packets, decoder,
                fresh, device, todo, job, switches, pkt, arg, fault>>
  BY DEF CreateThread, resVars, streamVars, flagVars, queueVars, decVars, fileVars
<1>2. /\ pc[Main] = "create thread"
      /\ \/ pc'[Main] = "loop" /\ pc'[Reader] = "mutex"
         \/ pc'[Main] = "close" /\ pc'[Reader] = pc[Reader]
  BY Went, TwoThreads DEF CreateThread, At, MainTo, Typed, PcType
<1> USE DEF Safe, Placed, PlaceInv, MainPlaces, ReadPlaces, Before, OpenPlaces, ClosePlaces,
            LoopPlaces, TypePlaces
<1>3. PlaceInv'
  BY <1>1, <1>2
<1>4. ResInv'
  BY <1>1, <1>2 DEF ResInv, Closed
<1>5. StreamInv'
  BY <1>1, <1>2 DEF StreamInv, Unused, Closed, Types
<1>6. ReaderInv'
  BY <1>1, <1>2 DEF ReaderInv, Unused, Closed
<1>7. CloseInv'
  BY <1>1, <1>2 DEF CloseInv, Closed
<1>8. OpenInv(Main)' /\ OpenInv(Reader)'
  BY <1>1, <1>2 DEF OpenInv
<1>9. FlushInv'
  BY <1>1, <1>2 DEF FlushInv
<1>10. UnswitchedInv'
  BY <1>1, <1>2 DEF UnswitchedInv, Type
<1> QED
  BY <1>3, <1>4, <1>5, <1>6, <1>7, <1>8, <1>9, <1>10

LEMMA ShowKeeps == ASSUME Typed, Safe, Show PROVE Safe'
<1>1. UNCHANGED <<up, ic, stream, st, abort_request, show_mode, qabort, packets, decoder, fresh,
                device, todo, job, switches, pkt, arg, fault>> /\ UNCHANGED pc
  BY DEF Show, resVars, streamVars, flagVars, queueVars, decVars, fileVars
<1>2. width' /\ show_mode /\ pc[Main] = "loop"
  BY DEF Show, At
<1> USE DEF Safe, Placed, PlaceInv, MainPlaces, ReadPlaces, Before, OpenPlaces, ClosePlaces,
            LoopPlaces, TypePlaces
<1>3. PlaceInv'
  BY <1>1, <1>2
<1>4. ResInv'
  BY <1>1, <1>2 DEF ResInv, Closed
<1>5. StreamInv'
  BY <1>1, <1>2 DEF StreamInv, Unused, Closed, Types
<1>6. ReaderInv'
  BY <1>1, <1>2 DEF ReaderInv, Unused, Closed
<1>7. CloseInv'
  BY <1>1, <1>2 DEF CloseInv, Closed
<1>8. OpenInv(Main)' /\ OpenInv(Reader)'
  BY <1>1, <1>2 DEF OpenInv
<1>9. FlushInv'
  BY <1>1, <1>2 DEF FlushInv
<1>10. UnswitchedInv'
  BY <1>1, <1>2 DEF UnswitchedInv, Type
<1> QED
  BY <1>3, <1>4, <1>5, <1>6, <1>7, <1>8, <1>9, <1>10

LEMMA QuitKeeps == ASSUME Typed, Safe, KeyQuit PROVE Safe'
<1>1. UNCHANGED <<up, ic, stream, st, abort_request, show_mode, width, qabort, packets, decoder,
                fresh, device, todo, job, switches, pkt, arg, fault>>
  BY DEF KeyQuit, resVars, streamVars, flagVars, queueVars, decVars, fileVars
<1>2. /\ pc[Main] = "loop" /\ pc'[Reader] = pc[Reader]
      /\ pc'[Main] = "close"
  BY Went DEF KeyQuit, At, MainTo
<1> USE DEF Safe, Placed, PlaceInv, MainPlaces, ReadPlaces, Before, OpenPlaces, ClosePlaces,
            LoopPlaces, TypePlaces
<1>3. PlaceInv'
  BY <1>1, <1>2
<1>4. ResInv'
  BY <1>1, <1>2 DEF ResInv, Closed
<1>5. StreamInv'
  BY <1>1, <1>2 DEF StreamInv, Unused, Closed, Types
<1>6. ReaderInv'
  BY <1>1, <1>2 DEF ReaderInv, Unused, Closed
<1>7. CloseInv'
  BY <1>1, <1>2 DEF CloseInv, Closed
<1>8. OpenInv(Main)' /\ OpenInv(Reader)'
  BY <1>1, <1>2 DEF OpenInv
<1>9. FlushInv'
  BY <1>1, <1>2 DEF FlushInv
<1>10. UnswitchedInv'
  BY <1>1, <1>2 DEF UnswitchedInv, Type
<1> QED
  BY <1>3, <1>4, <1>5, <1>6, <1>7, <1>8, <1>9, <1>10

LEMMA CloseBeginKeeps == ASSUME Typed, Safe, CloseBegin PROVE Safe'
<1>1. UNCHANGED <<up, ic, stream, st, show_mode, width, qabort, packets, decoder, fresh, device,
                todo, job, switches, pkt, arg, fault>>
  BY DEF CloseBegin, resVars, streamVars, flagVars, queueVars, decVars, fileVars
<1>2. /\ pc[Main] = "close" /\ pc'[Reader] = pc[Reader]
      /\ pc'[Main] = "wait"
  BY Went DEF CloseBegin, At, MainTo
<1>3. abort_request'
  BY DEF CloseBegin
<1> USE DEF Safe, Placed, PlaceInv, MainPlaces, ReadPlaces, Before, OpenPlaces, ClosePlaces,
            LoopPlaces, TypePlaces
<1>4. PlaceInv'
  BY <1>1, <1>2, <1>3
<1>5. ResInv'
  BY <1>1, <1>2, <1>3 DEF ResInv, Closed
<1>6. StreamInv'
  BY <1>1, <1>2, <1>3 DEF StreamInv, Unused, Closed, Types
<1>7. ReaderInv'
  BY <1>1, <1>2, <1>3 DEF ReaderInv, Unused, Closed
<1>8. CloseInv'
  BY <1>1, <1>2, <1>3 DEF CloseInv, Closed
<1>9. OpenInv(Main)' /\ OpenInv(Reader)'
  BY <1>1, <1>2, <1>3 DEF OpenInv
<1>10. FlushInv'
  BY <1>1, <1>2, <1>3 DEF FlushInv
<1>11. UnswitchedInv'
  BY <1>1, <1>2, <1>3 DEF UnswitchedInv, Type
<1> QED
  BY <1>4, <1>5, <1>6, <1>7, <1>8, <1>9, <1>10, <1>11

LEMMA WaitKeeps == ASSUME Typed, Safe, WaitReader PROVE Safe'
<1>1. UNCHANGED <<up, ic, stream, st, abort_request, show_mode, width, qabort, packets, decoder,
                fresh, device, job, switches, pkt, arg, fault>>
  BY DEF WaitReader, resVars, streamVars, flagVars, queueVars, decVars, fileVars
<1>2. /\ pc[Main] = "wait" /\ pc'[Reader] = pc[Reader]
      /\ pc'[Main] = "close next"
  BY Went DEF WaitReader, At, MainTo
<1>3. /\ pc[Reader] \in {"none", "ended"}
      /\ todo'[Main] = <<"audio", "video">> /\ todo'[Reader] = todo[Reader]
  BY WentTodo DEF WaitReader
<1> USE DEF Safe, Placed, PlaceInv, MainPlaces, ReadPlaces, Before, OpenPlaces, ClosePlaces,
            LoopPlaces, TypePlaces
<1>4. PlaceInv'
  BY <1>1, <1>2, <1>3
<1>5. ResInv'
  BY <1>1, <1>2, <1>3 DEF ResInv, Closed
<1>6. StreamInv'
  BY <1>1, <1>2, <1>3 DEF StreamInv, Unused, Closed, Types
<1>7. ReaderInv'
  BY <1>1, <1>2, <1>3 DEF ReaderInv, Unused, Closed
<1>8. CloseInv'
  BY <1>1, <1>2, <1>3, Order DEF CloseInv, Closed, Orders
<1>9. OpenInv(Main)' /\ OpenInv(Reader)'
  BY <1>1, <1>2, <1>3 DEF OpenInv
<1>10. FlushInv'
  BY <1>1, <1>2, <1>3 DEF FlushInv
<1>11. UnswitchedInv'
  BY <1>1, <1>2, <1>3 DEF UnswitchedInv, Type
<1> QED
  BY <1>4, <1>5, <1>6, <1>7, <1>8, <1>9, <1>10, <1>11

LEMMA CloseNextKeeps == ASSUME Typed, Safe, CloseNext PROVE Safe'
<1>1. UNCHANGED <<up, ic, stream, st, abort_request, show_mode, width, qabort, packets, decoder,
                fresh, device, switches, pkt, arg, fault>>
  BY DEF CloseNext, resVars, streamVars, flagVars, queueVars, decVars, fileVars
<1>2. /\ pc[Main] = "close next" /\ pc'[Reader] = pc[Reader] /\ todo[Main] # <<>>
      /\ todo'[Main] = Tail(todo[Main]) /\ todo'[Reader] = todo[Reader]
      /\ job'[Reader] = job[Reader] /\ Head(todo[Main]) \in Types
  BY Went, WentTodo, TodoHead, TwoThreads
     DEF CloseNext, At, MainTo, Typed, TodoType, JobType
<1>3. LET t == Head(todo[Main]) IN
      \/ stream[t] # None /\ pc'[Main] = "abort" /\ job'[Main].type = t
      \/ stream[t] = None /\ pc'[Main] = "close next" /\ UNCHANGED job
  <2>1. Goto(Main, "abort") => MainTo("abort")
    BY Went
  <2>2. CASE stream[Head(todo[Main])] # None
    <3>1. /\ Goto(Main, "abort")
          /\ job' = [job EXCEPT ![Main] = [type |-> Head(todo[Main]),
                                           index |-> stream[Head(todo[Main])]]]
      BY <2>2 DEF CloseNext
    <3>2. job'[Main].type = Head(todo[Main])
      BY <3>1, TwoThreads DEF Typed, JobType
    <3> QED
      BY <2>1, <2>2, <3>1, <3>2 DEF MainTo
  <2>3. CASE stream[Head(todo[Main])] = None
    BY <1>2, <2>3 DEF CloseNext
  <2> QED
    BY <2>2, <2>3
<1> USE DEF Safe, Placed, PlaceInv, MainPlaces, ReadPlaces, Before, OpenPlaces, ClosePlaces,
            LoopPlaces, TypePlaces
<1>4. PlaceInv'
  BY <1>1, <1>2, <1>3
<1>5. ResInv'
  BY <1>1, <1>2, <1>3 DEF ResInv, Closed
<1>6. StreamInv'
  BY <1>1, <1>2, <1>3 DEF StreamInv, Unused, Closed, Types
<1>7. ReaderInv'
  BY <1>1, <1>2, <1>3 DEF ReaderInv, Unused, Closed
<1>8. CloseInv'
  BY <1>1, <1>2, <1>3, Order DEF CloseInv, Closed, StreamInv
<1>9. OpenInv(Main)' /\ OpenInv(Reader)'
  BY <1>1, <1>2, <1>3 DEF OpenInv
<1>10. FlushInv'
  BY <1>1, <1>2, <1>3 DEF FlushInv
<1>11. UnswitchedInv'
  BY <1>1, <1>2, <1>3 DEF UnswitchedInv, Type
<1> QED
  BY <1>4, <1>5, <1>6, <1>7, <1>8, <1>9, <1>10, <1>11

LEMMA CloseInputKeeps == ASSUME Typed, Safe, CloseInput PROVE Safe'
<1>1. UNCHANGED <<up, stream, st, abort_request, show_mode, width, qabort, packets, decoder,
                fresh, device, todo, job, switches, pkt, arg, fault>>
  BY DEF CloseInput, resVars, streamVars, flagVars, queueVars, decVars, fileVars
<1>2. /\ pc[Main] = "close next" /\ pc'[Reader] = pc[Reader]
      /\ pc'[Main] = "destroy"
  BY Went DEF CloseInput, At, MainTo
<1>3. ic' = "closed" /\ todo[Main] = <<>>
  BY DEF CloseInput
<1> USE DEF Safe, Placed, PlaceInv, MainPlaces, ReadPlaces, Before, OpenPlaces, ClosePlaces,
            LoopPlaces, TypePlaces
<1>4. PlaceInv'
  BY <1>1, <1>2, <1>3
<1>5. ResInv'
  BY <1>1, <1>2, <1>3, Order DEF ResInv, Closed, CloseInv
<1>6. StreamInv'
  BY <1>1, <1>2, <1>3 DEF StreamInv, Unused, Closed, Types
<1>7. ReaderInv'
  BY <1>1, <1>2, <1>3 DEF ReaderInv, Unused, Closed
<1>8. CloseInv'
  BY <1>1, <1>2, <1>3 DEF CloseInv, Closed
<1>9. OpenInv(Main)' /\ OpenInv(Reader)'
  BY <1>1, <1>2, <1>3 DEF OpenInv
<1>10. FlushInv'
  BY <1>1, <1>2, <1>3 DEF FlushInv
<1>11. UnswitchedInv'
  BY <1>1, <1>2, <1>3 DEF UnswitchedInv, Type
<1> QED
  BY <1>4, <1>5, <1>6, <1>7, <1>8, <1>9, <1>10, <1>11

LEMMA DestroyKeeps == ASSUME Typed, Safe, Destroy PROVE Safe'
<1>1. UNCHANGED <<ic, stream, st, abort_request, show_mode, width, qabort, packets, decoder,
                fresh, device, todo, job, switches, pkt, arg, fault>>
  BY DEF Destroy, resVars, streamVars, flagVars, queueVars, decVars, fileVars
<1>2. /\ pc[Main] = "destroy" /\ pc'[Reader] = pc[Reader]
      /\ pc'[Main] = "exited"
  BY Went DEF Destroy, At, MainTo
<1> USE DEF Safe, Placed, PlaceInv, MainPlaces, ReadPlaces, Before, OpenPlaces, ClosePlaces,
            LoopPlaces, TypePlaces
<1>3. PlaceInv'
  BY <1>1, <1>2
<1>4. ResInv'
  BY <1>1, <1>2 DEF ResInv, Closed
<1>5. StreamInv'
  BY <1>1, <1>2 DEF StreamInv, Unused, Closed, Types
<1>6. ReaderInv'
  BY <1>1, <1>2 DEF ReaderInv, Unused, Closed
<1>7. CloseInv'
  BY <1>1, <1>2 DEF CloseInv, Closed
<1>8. OpenInv(Main)' /\ OpenInv(Reader)'
  BY <1>1, <1>2 DEF OpenInv
<1>9. FlushInv'
  BY <1>1, <1>2 DEF FlushInv
<1>10. UnswitchedInv'
  BY <1>1, <1>2 DEF UnswitchedInv, Type
<1> QED
  BY <1>3, <1>4, <1>5, <1>6, <1>7, <1>8, <1>9, <1>10

(* It closes a stream. *)
LEMMA AbortKeeps == ASSUME Typed, Safe, AbortQueue PROVE Safe'
<1>1. UNCHANGED <<up, ic, stream, st, abort_request, show_mode, width, packets, decoder, fresh,
                device, todo, job, switches, pkt, arg>>
  BY DEF AbortQueue, resVars, streamVars, flagVars, queueVars, decVars, fileVars
<1>2. /\ pc[Main] = "abort" /\ pc'[Reader] = pc[Reader] /\ job[Main].type \in Types
      /\ fault' \in {fault, "no context"}
      /\ \/ UNCHANGED qabort /\ pc'[Main] = "abort"
         \/ pc'[Main] = "join" /\ qabort'[job[Main].type]
  BY Went, JobParts, TwoThreads DEF AbortQueue, At, MainTo, Typed, QueueType
<1>3. \A t \in Types : t # job[Main].type => qabort'[t] = qabort[t]
  BY DEF AbortQueue, Typed, QueueType
<1>4. \A t \in Types : qabort[t] => qabort'[t]
  BY <1>2, <1>3
<1> USE DEF Safe, Placed, PlaceInv, MainPlaces, ReadPlaces, Before, OpenPlaces, ClosePlaces,
            LoopPlaces, TypePlaces
<1>5. PlaceInv'
  BY <1>1, <1>2, <1>3, <1>4
<1>6. ResInv'
  BY <1>1, <1>2, <1>3, <1>4 DEF ResInv, Closed
<1>7. StreamInv'
  BY <1>1, <1>2, <1>3, <1>4 DEF StreamInv, Unused, Closed, Types
<1>8. ReaderInv'
  BY <1>1, <1>2, <1>3, <1>4 DEF ReaderInv, Unused, Closed
<1>9. CloseInv'
  BY <1>1, <1>2, <1>3, <1>4 DEF CloseInv, Closed
<1>10. OpenInv(Main)' /\ OpenInv(Reader)'
  BY <1>1, <1>2, <1>3, <1>4 DEF OpenInv
<1>11. FlushInv'
  BY <1>1, <1>2, <1>3, <1>4 DEF FlushInv
<1>12. UnswitchedInv'
  BY <1>1, <1>2, <1>3, <1>4 DEF UnswitchedInv, Type
<1> QED
  BY <1>5, <1>6, <1>7, <1>8, <1>9, <1>10, <1>11, <1>12

LEMMA JoinKeeps == ASSUME Typed, Safe, JoinDecoder PROVE Safe'
<1>1. UNCHANGED <<up, ic, stream, st, abort_request, show_mode, width, qabort, fresh, todo, job,
                switches, pkt, arg, fault>>
  BY DEF JoinDecoder, resVars, streamVars, flagVars, queueVars, decVars, fileVars
<1>2. /\ pc[Main] = "join" /\ pc'[Reader] = pc[Reader]
      /\ pc'[Main] = "clear pointer"
  BY Went DEF JoinDecoder, At, MainTo
<1>3. /\ job[Main].type \in Types /\ decoder'[job[Main].type] = "none"
      /\ packets'[job[Main].type] = <<>>
      /\ device' => device /\ job[Main].type # "audio"
      /\ job[Main].type # "audio" => device' = device
  BY JobParts, TwoThreads DEF JoinDecoder, Typed, QueueType, DecType
<1>4. \A t \in Types : t # job[Main].type =>
         decoder'[t] = decoder[t] /\ packets'[t] = packets[t]
  BY DEF JoinDecoder, Typed, QueueType, DecType
<1>5. /\ \A t \in Types : Closed(t) => Closed(t)'
      /\ Closed(job[Main].type)' /\ qabort[job[Main].type]
  BY <1>1, <1>2, <1>3, <1>4 DEF Closed, Safe, Placed, CloseInv
<1> USE DEF Safe, Placed, PlaceInv, MainPlaces, ReadPlaces, Before, OpenPlaces, ClosePlaces,
            LoopPlaces, TypePlaces
<1>6. PlaceInv'
  BY <1>1, <1>2, <1>3, <1>4, <1>5
<1>7. ResInv'
  BY <1>1, <1>2, <1>3, <1>4, <1>5 DEF ResInv, Closed
<1>8. StreamInv'
  BY <1>1, <1>2, <1>3, <1>4, <1>5 DEF StreamInv, Unused, Closed, Types
<1>9. ReaderInv'
  BY <1>1, <1>2, <1>3, <1>4, <1>5 DEF ReaderInv, Unused, Closed
<1>10. CloseInv'
  BY <1>1, <1>2, <1>3, <1>4, <1>5, Order DEF CloseInv
<1>11. OpenInv(Main)' /\ OpenInv(Reader)'
  BY <1>1, <1>2, <1>3, <1>4, <1>5 DEF OpenInv
<1>12. FlushInv'
  BY <1>1, <1>2, <1>3, <1>4, <1>5 DEF FlushInv
<1>13. UnswitchedInv'
  BY <1>1, <1>2, <1>3, <1>4, <1>5 DEF UnswitchedInv, Type
<1> QED
  BY <1>6, <1>7, <1>8, <1>9, <1>10, <1>11, <1>12, <1>13

LEMMA ClearPointerKeeps == ASSUME Typed, Safe, ClearPointer PROVE Safe'
<1>1. UNCHANGED <<up, ic, stream, abort_request, show_mode, width, qabort, packets, decoder,
                fresh, device, todo, job, switches, pkt, arg, fault>>
  BY DEF ClearPointer, resVars, streamVars, flagVars, queueVars, decVars, fileVars
<1>2. /\ pc[Main] = "clear pointer" /\ pc'[Reader] = pc[Reader]
      /\ pc'[Main] = "clear index"
  BY Went DEF ClearPointer, At, MainTo
<1>3. job[Main].type \in Types /\ \A t \in Types : t # job[Main].type => st'[t] = st[t]
  BY JobParts, TwoThreads DEF ClearPointer, Typed, StreamType
<1>4. switches # 0 \/ pc[Reader] \in {"none", "ended"}
  BY <1>2, Counted DEF Safe, Placed, PlaceInv, ClosePlaces, OpenPlaces
<1>5. UnswitchedInv'
  BY <1>1, <1>2, <1>3, <1>4 DEF Safe, Placed, UnswitchedInv
<1> USE DEF Safe, Placed, PlaceInv, MainPlaces, ReadPlaces, Before, OpenPlaces, ClosePlaces,
            LoopPlaces, TypePlaces
<1>6. PlaceInv'
  BY <1>1, <1>2, <1>3, <1>4
<1>7. ResInv'
  BY <1>1, <1>2, <1>3, <1>4 DEF ResInv, Closed
<1>8. StreamInv'
  BY <1>1, <1>2, <1>3, <1>4 DEF StreamInv, Unused, Closed, Types, CloseInv
<1>9. ReaderInv'
  BY <1>1, <1>2, <1>3, <1>4 DEF ReaderInv, Unused, Closed
<1>10. CloseInv'
  BY <1>1, <1>2, <1>3, <1>4 DEF CloseInv, Closed
<1>11. OpenInv(Main)' /\ OpenInv(Reader)'
  BY <1>1, <1>2, <1>3, <1>4 DEF OpenInv
<1>12. FlushInv'
  BY <1>1, <1>2, <1>3, <1>4 DEF FlushInv
<1> QED
  BY <1>5, <1>6, <1>7, <1>8, <1>9, <1>10, <1>11, <1>12

LEMMA ClearIndexKeeps == ASSUME Typed, Safe, ClearIndex PROVE Safe'
<1>1. UNCHANGED <<up, ic, st, abort_request, show_mode, width, qabort, packets, decoder, fresh,
                device, todo, job, switches, pkt, arg, fault>>
  BY DEF ClearIndex, resVars, streamVars, flagVars, queueVars, decVars, fileVars
<1>2. /\ pc[Main] = "clear index" /\ pc'[Reader] = pc[Reader]
      /\ pc'[Main] \in {"close next", "open codec"}
  BY Went DEF ClearIndex, At, MainTo
<1>3. /\ job[Main].type \in Types /\ stream'[job[Main].type] = None
      /\ \A t \in Types : t # job[Main].type => stream'[t] = stream[t]
      /\ IF abort_request THEN pc'[Main] = "close next" ELSE pc'[Main] = "open codec"
  BY JobParts, Went, TwoThreads DEF ClearIndex, MainTo, Typed, StreamType
<1>4. Closed(job[Main].type) /\ qabort[job[Main].type]
  BY <1>2 DEF Safe, Placed, CloseInv, ClosePlaces
<1>5. switches # 0 \/ pc[Reader] \in {"none", "ended"}
  BY <1>2, Counted DEF Safe, Placed, PlaceInv, ClosePlaces, OpenPlaces
<1>6. StreamInv'
  BY <1>1, <1>2, <1>3, <1>4, <1>5
     DEF Safe, Placed, StreamInv, Unused, Closed, PlaceInv, Before, ClosePlaces, Types
<1>7. UnswitchedInv'
  BY <1>1, <1>2, <1>3, <1>4, <1>5 DEF Safe, Placed, UnswitchedInv
<1> USE DEF Safe, Placed, PlaceInv, MainPlaces, ReadPlaces, Before, OpenPlaces, ClosePlaces,
            LoopPlaces, TypePlaces
<1>8. PlaceInv'
  BY <1>1, <1>2, <1>3, <1>4, <1>5
<1>9. ResInv'
  BY <1>1, <1>2, <1>3, <1>4, <1>5 DEF ResInv, Closed
<1>10. ReaderInv'
  BY <1>1, <1>2, <1>3, <1>4, <1>5 DEF ReaderInv, Unused, Closed
<1>11. CloseInv'
  BY <1>1, <1>2, <1>3, <1>4, <1>5, Order DEF CloseInv, Closed
<1>12. OpenInv(Main)'
  BY <1>1, <1>2, <1>3, <1>4, <1>5 DEF OpenInv, CloseInv, Closed
<1>13. OpenInv(Reader)'
  BY <1>1, <1>2, <1>3, <1>4, <1>5 DEF OpenInv
<1>14. FlushInv'
  BY <1>1, <1>2, <1>3, <1>4, <1>5 DEF FlushInv
<1> QED
  BY <1>6, <1>7, <1>8, <1>9, <1>10, <1>11, <1>12, <1>13, <1>14

(* A key switches a stream. *)
LEMMA CycleKeeps == ASSUME Typed, Safe, NEW t \in Types, KeyCycle(t) PROVE Safe'
<1>1. UNCHANGED <<up, ic, stream, st, abort_request, show_mode, width, qabort, packets, decoder,
                fresh, device, todo, pkt, arg, fault>>
  BY DEF KeyCycle, resVars, streamVars, flagVars, queueVars, decVars, fileVars
<1>2. /\ pc[Main] = "loop" /\ width /\ switches' # 0 /\ switches' > 0
      /\ pc'[Reader] = pc[Reader] /\ job'[Reader] = job[Reader]
  <2>0. switches' = switches + 1
    BY DEF KeyCycle
  <2>1. switches' # 0 /\ switches' > 0
    BY <2>0, Counted
  <2>2. \/ UNCHANGED <<pc, job>>
        \/ \E i, place : /\ job' = [job EXCEPT ![Main] = [type |-> t, index |-> i]]
                         /\ Goto(Main, place)
    BY Zenon DEF KeyCycle
  <2>3. pc'[Reader] = pc[Reader] /\ job'[Reader] = job[Reader]
    BY <2>2, Went, TwoThreads DEF MainTo, Typed, JobType
  <2> QED
    BY <2>1, <2>3 DEF KeyCycle, At
<1>3. \/ UNCHANGED <<pc, job>>
      \/ /\ job'[Main].type = t /\ job'[Main].index \in Indexes
         /\ IF stream[t] = None THEN pc'[Main] = "open codec" ELSE pc'[Main] = "abort"
  <2>1. CASE Cycled(t) = last[t]
    BY <2>1 DEF KeyCycle
  <2>2. CASE Cycled(t) # last[t]
    <3>1. /\ job' = [job EXCEPT ![Main] = [type |-> t, index |-> Cycled(t)]]
          /\ stream[t] = None => Goto(Main, "open codec")
          /\ stream[t] # None => Goto(Main, "abort")
      BY <2>2, Zenon DEF KeyCycle
    <3>2. job'[Main].type = t /\ job'[Main].index = Cycled(t)
      BY <3>1, TwoThreads DEF Typed, JobType
    <3>3. /\ Goto(Main, "open codec") => MainTo("open codec")
          /\ Goto(Main, "abort") => MainTo("abort")
      BY Went
    <3> QED
      BY <2>2, <3>1, <3>2, <3>3, CycledType DEF MainTo
  <2> QED
    BY <2>1, <2>2
<1>4. UnswitchedInv'
  BY <1>1, <1>2, <1>3 DEF Safe, Placed, UnswitchedInv
<1> USE DEF Safe, Placed, PlaceInv, MainPlaces, ReadPlaces, Before, OpenPlaces, ClosePlaces,
            LoopPlaces, TypePlaces
<1>5. PlaceInv'
  BY <1>1, <1>2, <1>3
<1>6. ResInv'
  BY <1>1, <1>2, <1>3 DEF ResInv, Closed
<1>7. StreamInv'
  BY <1>1, <1>2, <1>3 DEF StreamInv, Unused, Closed, Types
<1>8. ReaderInv'
  BY <1>1, <1>2, <1>3 DEF ReaderInv, Unused, Closed
<1>9. CloseInv'
  BY <1>1, <1>2, <1>3 DEF CloseInv, Closed
<1>10. OpenInv(Main)'
  BY <1>1, <1>2, <1>3 DEF OpenInv, StreamInv
<1>11. OpenInv(Reader)'
  BY <1>1, <1>2, <1>3 DEF OpenInv
<1>12. FlushInv'
  BY <1>1, <1>2, <1>3 DEF FlushInv
<1> QED
  BY <1>4, <1>5, <1>6, <1>7, <1>8, <1>9, <1>10, <1>11, <1>12

(* The main thread opens the stream that is switched to; read_thread is in *)
(* its loop, or has ended.                                                 *)
LEMMA MainCodecKeeps == ASSUME Typed, Safe, OpenCodec(Main) PROVE Safe'
<1>1. UNCHANGED <<up, ic, stream, st, abort_request, show_mode, width, qabort, packets, decoder,
                fresh, device, todo, job, switches, pkt, arg, fault>>
  BY DEF OpenCodec, resVars, streamVars, flagVars, queueVars, decVars, fileVars
<1>2. /\ pc[Main] = "open codec" /\ pc'[Reader] = pc[Reader] /\ job[Main].type \in Types
      /\ pc'[Main] \in {"clear eof", "loop"}
  BY Went, JobParts, TwoThreads DEF OpenCodec, At, MainTo, Done
<1> USE DEF Safe, Placed, PlaceInv, MainPlaces, ReadPlaces, Before, OpenPlaces, ClosePlaces,
            LoopPlaces, TypePlaces
<1>3. PlaceInv'
  BY <1>1, <1>2
<1>4. ResInv'
  BY <1>1, <1>2 DEF ResInv, Closed
<1>5. StreamInv'
  BY <1>1, <1>2 DEF StreamInv, Unused, Closed, Types
<1>6. ReaderInv'
  BY <1>1, <1>2 DEF ReaderInv, Unused, Closed
<1>7. CloseInv'
  BY <1>1, <1>2 DEF CloseInv, Closed
<1>8. OpenInv(Main)' /\ OpenInv(Reader)'
  BY <1>1, <1>2 DEF OpenInv
<1>9. FlushInv'
  BY <1>1, <1>2 DEF FlushInv
<1>10. UnswitchedInv'
  BY <1>1, <1>2 DEF UnswitchedInv, Type
<1> QED
  BY <1>3, <1>4, <1>5, <1>6, <1>7, <1>8, <1>9, <1>10

LEMMA MainEofKeeps == ASSUME Typed, Safe, ClearEof(Main) PROVE Safe'
<1>1. UNCHANGED <<up, ic, stream, st, abort_request, show_mode, width, qabort, packets, decoder,
                fresh, device, todo, job, switches, pkt, arg, fault>>
  BY DEF ClearEof, resVars, streamVars, flagVars, queueVars, decVars, fileVars
<1>2. /\ pc[Main] = "clear eof" /\ pc'[Reader] = pc[Reader] /\ job[Main].type \in Types
      /\ pc'[Main] \in {"set index", "loop"}
  BY Went, JobParts, TwoThreads DEF ClearEof, At, MainTo, Done
<1> USE DEF Safe, Placed, PlaceInv, MainPlaces, ReadPlaces, Before, OpenPlaces, ClosePlaces,
            LoopPlaces, TypePlaces
<1>3. PlaceInv'
  BY <1>1, <1>2
<1>4. ResInv'
  BY <1>1, <1>2 DEF ResInv, Closed
<1>5. StreamInv'
  BY <1>1, <1>2 DEF StreamInv, Unused, Closed, Types
<1>6. ReaderInv'
  BY <1>1, <1>2 DEF ReaderInv, Unused, Closed
<1>7. CloseInv'
  BY <1>1, <1>2 DEF CloseInv, Closed
<1>8. OpenInv(Main)' /\ OpenInv(Reader)'
  BY <1>1, <1>2 DEF OpenInv
<1>9. FlushInv'
  BY <1>1, <1>2 DEF FlushInv
<1>10. UnswitchedInv'
  BY <1>1, <1>2 DEF UnswitchedInv, Type
<1> QED
  BY <1>3, <1>4, <1>5, <1>6, <1>7, <1>8, <1>9, <1>10

LEMMA MainIndexKeeps == ASSUME Typed, Safe, SetIndex(Main) PROVE Safe'
<1>1. UNCHANGED <<up, ic, st, abort_request, show_mode, width, qabort, packets, decoder, fresh,
                device, todo, job, switches, pkt, arg, fault>>
  BY DEF SetIndex, resVars, streamVars, flagVars, queueVars, decVars, fileVars
<1>2. /\ pc[Main] = "set index" /\ pc'[Reader] = pc[Reader] /\ job[Main].type \in Types
      /\ pc'[Main] = "set pointer"
  BY Went, JobParts, TwoThreads DEF SetIndex, At, MainTo, Done
<1>3. /\ stream'[job[Main].type] = job[Main].index
      /\ \A t \in Types : t # job[Main].type => stream'[t] = stream[t]
  BY <1>2, TwoThreads DEF SetIndex, Typed, StreamType
<1>4. job[Main].index \in Indexes /\ job[Main].index # None
  <2>1. job[Main].index \in Indexes
    BY <1>2 DEF Safe, OpenInv, OpenPlaces
  <2> QED
    BY <2>1, IndexNumbers DEF None
<1>5. switches # 0 \/ pc[Reader] \in {"none", "ended"}
  BY <1>2, Counted DEF Safe, Placed, PlaceInv, ClosePlaces, OpenPlaces
<1>6. UnswitchedInv'
  BY <1>1, <1>2, <1>3, <1>4, <1>5 DEF Safe, Placed, UnswitchedInv
<1> USE DEF Safe, Placed, PlaceInv, MainPlaces, ReadPlaces, Before, OpenPlaces, ClosePlaces,
            LoopPlaces, TypePlaces
<1>7. PlaceInv'
  BY <1>1, <1>2, <1>3, <1>4, <1>5
<1>8. ResInv'
  BY <1>1, <1>2, <1>3, <1>4, <1>5 DEF ResInv, Closed
<1>9. StreamInv'
  BY <1>1, <1>2, <1>3, <1>4, <1>5 DEF StreamInv, Unused, Closed, Types
<1>10. ReaderInv'
  BY <1>1, <1>2, <1>3, <1>4, <1>5 DEF ReaderInv, Unused, Closed
<1>11. CloseInv'
  BY <1>1, <1>2, <1>3, <1>4, <1>5 DEF CloseInv, Closed
<1>12. OpenInv(Main)' /\ OpenInv(Reader)'
  BY <1>1, <1>2, <1>3, <1>4, <1>5 DEF OpenInv
<1>13. FlushInv'
  BY <1>1, <1>2, <1>3, <1>4, <1>5 DEF FlushInv
<1> QED
  BY <1>6, <1>7, <1>8, <1>9, <1>10, <1>11, <1>12, <1>13

LEMMA MainPointerKeeps == ASSUME Typed, Safe, SetPointer(Main) PROVE Safe'
<1>1. UNCHANGED <<up, ic, stream, abort_request, show_mode, width, qabort, packets, decoder,
                fresh, device, todo, job, switches, pkt, arg, fault>>
  BY DEF SetPointer, resVars, streamVars, flagVars, queueVars, decVars, fileVars
<1>2. /\ pc[Main] = "set pointer" /\ pc'[Reader] = pc[Reader] /\ job[Main].type \in Types
      /\ pc'[Main] = "start queue"
  BY Went, JobParts, TwoThreads DEF SetPointer, At, MainTo, Done
<1>3. /\ st'[job[Main].type] = job[Main].index
      /\ \A t \in Types : t # job[Main].type => st'[t] = st[t]
  BY <1>2, TwoThreads DEF SetPointer, Typed, StreamType
<1>4. job[Main].index \in Indexes /\ job[Main].index # None
  <2>1. job[Main].index \in Indexes
    BY <1>2 DEF Safe, OpenInv, OpenPlaces
  <2> QED
    BY <2>1, IndexNumbers DEF None
<1>5. switches # 0 \/ pc[Reader] \in {"none", "ended"}
  BY <1>2, Counted DEF Safe, Placed, PlaceInv, ClosePlaces, OpenPlaces
<1>6. UnswitchedInv'
  BY <1>1, <1>2, <1>3, <1>4, <1>5 DEF Safe, Placed, UnswitchedInv
<1> USE DEF Safe, Placed, PlaceInv, MainPlaces, ReadPlaces, Before, OpenPlaces, ClosePlaces,
            LoopPlaces, TypePlaces
<1>7. PlaceInv'
  BY <1>1, <1>2, <1>3, <1>4, <1>5
<1>8. ResInv'
  BY <1>1, <1>2, <1>3, <1>4, <1>5 DEF ResInv, Closed
<1>9. StreamInv'
  BY <1>1, <1>2, <1>3, <1>4, <1>5 DEF StreamInv, Unused, Closed, Types
<1>10. ReaderInv'
  BY <1>1, <1>2, <1>3, <1>4, <1>5 DEF ReaderInv, Unused, Closed
<1>11. CloseInv'
  BY <1>1, <1>2, <1>3, <1>4, <1>5 DEF CloseInv, Closed
<1>12. OpenInv(Main)' /\ OpenInv(Reader)'
  BY <1>1, <1>2, <1>3, <1>4, <1>5 DEF OpenInv
<1>13. FlushInv'
  BY <1>1, <1>2, <1>3, <1>4, <1>5 DEF FlushInv
<1> QED
  BY <1>6, <1>7, <1>8, <1>9, <1>10, <1>11, <1>12, <1>13

LEMMA MainQueueKeeps == ASSUME Typed, Safe, StartQueue(Main) PROVE Safe'
<1>1. UNCHANGED <<up, ic, stream, st, abort_request, show_mode, width, decoder, device, todo, job,
                switches, pkt, arg, fault>>
  BY DEF StartQueue, resVars, streamVars, flagVars, queueVars, decVars, fileVars
<1>2. /\ pc[Main] = "start queue" /\ pc'[Reader] = pc[Reader] /\ job[Main].type \in Types
      /\ pc'[Main] = "start decoder"
  BY Went, JobParts, TwoThreads DEF StartQueue, At, MainTo, Done
<1>3. /\ ~qabort'[job[Main].type]
      /\ packets'[job[Main].type] = Append(packets[job[Main].type], Flush)
      /\ \A t \in Types : t # job[Main].type =>
            qabort'[t] = qabort[t] /\ packets'[t] = packets[t] /\ fresh'[t] = fresh[t]
  BY JobParts, TwoThreads DEF StartQueue, Typed, QueueType, DecType
<1>4. packets'[job[Main].type] # <<>> /\ Head(packets'[job[Main].type]) = Flush
  <2>1. qabort[job[Main].type] /\ decoder[job[Main].type] = "none" /\ ~(pc[Main] = "join")
    BY <1>2 DEF Safe, OpenInv, OpenPlaces, Placed, PlaceInv, ClosePlaces, LoopPlaces, TypePlaces
  <2>2. packets[job[Main].type] = <<>> /\ Flush \in Packets
    BY <1>2, <2>1 DEF Safe, FlushInv, Packets
  <2> QED
    BY <1>3, <2>2, AppendType DEF Typed, QueueType
<1> USE DEF Safe, Placed, PlaceInv, MainPlaces, ReadPlaces, Before, OpenPlaces, ClosePlaces,
            LoopPlaces, TypePlaces
<1>5. PlaceInv'
  BY <1>1, <1>2, <1>3, <1>4
<1>6. ResInv'
  BY <1>1, <1>2, <1>3, <1>4 DEF ResInv, Closed
<1>7. StreamInv'
  BY <1>1, <1>2, <1>3, <1>4 DEF StreamInv, Unused, Closed, Types, OpenInv
<1>8. ReaderInv'
  BY <1>1, <1>2, <1>3, <1>4 DEF ReaderInv, Unused, Closed
<1>9. CloseInv'
  BY <1>1, <1>2, <1>3, <1>4 DEF CloseInv, Closed
<1>10. OpenInv(Main)' /\ OpenInv(Reader)'
  BY <1>1, <1>2, <1>3, <1>4 DEF OpenInv
<1>11. FlushInv'
  BY <1>1, <1>2, <1>3, <1>4 DEF FlushInv
<1>12. UnswitchedInv'
  BY <1>1, <1>2, <1>3, <1>4 DEF UnswitchedInv, Type
<1> QED
  BY <1>5, <1>6, <1>7, <1>8, <1>9, <1>10, <1>11, <1>12

LEMMA MainDecoderKeeps == ASSUME Typed, Safe, StartDecoder(Main) PROVE Safe'
<1>1. UNCHANGED <<up, ic, stream, st, abort_request, show_mode, width, qabort, packets, fresh,
                todo, job, switches, pkt, arg, fault>>
  BY DEF StartDecoder, resVars, streamVars, flagVars, queueVars, decVars, fileVars
<1>2. /\ pc[Main] = "start decoder" /\ pc'[Reader] = pc[Reader] /\ job[Main].type \in Types
      /\ pc'[Main] = "loop"
  BY Went, JobParts, TwoThreads DEF StartDecoder, At, MainTo, Done
<1>3. /\ decoder'[job[Main].type] \in {decoder[job[Main].type], "running"}
      /\ \A t \in Types : t # job[Main].type => decoder'[t] = decoder[t]
  BY <1>2, TwoThreads DEF StartDecoder, Typed, DecType
<1>4. (device => device') /\ (device' => device \/ job[Main].type = "audio")
  <2>1. device' = (device \/ job[Main].type = "audio") \/ device' = device
    BY DEF StartDecoder
  <2>2. device \in BOOLEAN
    BY DEF Typed, DecType
  <2> QED
    BY <2>1, <2>2
<1>5. FlushInv'
  BY <1>1, <1>2, <1>3, <1>4 DEF Safe, Placed, FlushInv, PlaceInv
<1> USE DEF Safe, Placed, PlaceInv, MainPlaces, ReadPlaces, Before, OpenPlaces, ClosePlaces,
            LoopPlaces, TypePlaces
<1>6. PlaceInv'
  BY <1>1, <1>2, <1>3, <1>4
<1>7. ResInv'
  BY <1>1, <1>2, <1>3, <1>4 DEF ResInv, Closed
<1>8. StreamInv'
  BY <1>1, <1>2, <1>3, <1>4 DEF StreamInv, Unused, Closed, Types, OpenInv
<1>9. ReaderInv'
  BY <1>1, <1>2, <1>3, <1>4 DEF ReaderInv, Unused, Closed
<1>10. CloseInv'
  BY <1>1, <1>2, <1>3, <1>4 DEF CloseInv, Closed
<1>11. OpenInv(Main)' /\ OpenInv(Reader)'
  BY <1>1, <1>2, <1>3, <1>4 DEF OpenInv
<1>12. UnswitchedInv'
  BY <1>1, <1>2, <1>3, <1>4 DEF UnswitchedInv, Type
<1> QED
  BY <1>5, <1>6, <1>7, <1>8, <1>9, <1>10, <1>11, <1>12

(* read_thread opens the file ... *)
LEMMA MutexKeeps == ASSUME Typed, Safe, CreateMutex PROVE Safe'
<1>1. UNCHANGED <<up, ic, st, abort_request, show_mode, width, qabort, packets, decoder, fresh,
                device, todo, job, switches, pkt, arg, fault>>
  BY DEF CreateMutex, resVars, streamVars, flagVars, queueVars, decVars, fileVars
<1>2. /\ pc[Reader] = "mutex" /\ pc'[Main] = pc[Main]
      /\ \/ pc'[Reader] = "input" /\ \A t \in Types : stream'[t] = None
         \/ pc'[Reader] = "ended" /\ UNCHANGED stream
  BY Went DEF CreateMutex, End, At, ReaderTo
<1>3. \A t \in Types : Unused(t) /\ Unused(t)'
  BY <1>1, <1>2 DEF Safe, Placed, StreamInv, Before, Unused, Closed
<1>4. StreamInv'
  BY <1>1, <1>2, <1>3 DEF Safe, Placed, StreamInv, Unused, Closed, Types
<1> USE DEF Safe, Placed, PlaceInv, MainPlaces, ReadPlaces, Before, OpenPlaces, ClosePlaces,
            LoopPlaces, TypePlaces
<1>5. PlaceInv'
  BY <1>1, <1>2, <1>3
<1>6. ResInv'
  BY <1>1, <1>2, <1>3 DEF ResInv, Closed
<1>7. ReaderInv'
  BY <1>1, <1>2, <1>3 DEF ReaderInv, Unused, Closed
<1>8. CloseInv'
  BY <1>1, <1>2, <1>3 DEF CloseInv, Closed
<1>9. OpenInv(Main)' /\ OpenInv(Reader)'
  BY <1>1, <1>2, <1>3 DEF OpenInv
<1>10. FlushInv'
  BY <1>1, <1>2, <1>3 DEF FlushInv
<1>11. UnswitchedInv'
  BY <1>1, <1>2, <1>3 DEF UnswitchedInv, Type
<1> QED
  BY <1>4, <1>5, <1>6, <1>7, <1>8, <1>9, <1>10, <1>11

LEMMA InputKeeps == ASSUME Typed, Safe, OpenInput PROVE Safe'
<1>1. UNCHANGED <<up, stream, st, abort_request, show_mode, width, qabort, packets, decoder,
                fresh, device, job, switches, pkt, arg, fault>>
  BY DEF OpenInput, resVars, streamVars, flagVars, queueVars, decVars, fileVars
<1>2. /\ pc[Reader] = "input" /\ pc'[Main] = pc[Main] /\ ic' # "closed"
      /\ \/ pc'[Reader] = "open next" /\ ic' = "open"
         \/ pc'[Reader] = "ended"
      /\ todo'[Reader] = <<"audio", "video">> /\ todo'[Main] = todo[Main]
  BY Went, WentTodo DEF OpenInput, End, At, ReaderTo
<1> USE DEF Safe, Placed, PlaceInv, MainPlaces, ReadPlaces, Before, OpenPlaces, ClosePlaces,
            LoopPlaces, TypePlaces
<1>3. PlaceInv'
  BY <1>1, <1>2
<1>4. ResInv'
  BY <1>1, <1>2 DEF ResInv, Closed
<1>5. StreamInv'
  BY <1>1, <1>2 DEF StreamInv, Unused, Closed, Types
<1>6. ReaderInv'
  BY <1>1, <1>2, Order DEF ReaderInv, Unused, Closed, Orders, StreamInv
<1>7. CloseInv'
  BY <1>1, <1>2 DEF CloseInv, Closed
<1>8. OpenInv(Main)' /\ OpenInv(Reader)'
  BY <1>1, <1>2 DEF OpenInv
<1>9. FlushInv'
  BY <1>1, <1>2 DEF FlushInv
<1>10. UnswitchedInv'
  BY <1>1, <1>2 DEF UnswitchedInv, Type
<1> QED
  BY <1>3, <1>4, <1>5, <1>6, <1>7, <1>8, <1>9, <1>10

LEMMA OpenNextKeeps == ASSUME Typed, Safe, OpenNext PROVE Safe'
<1>1. UNCHANGED <<up, ic, stream, st, abort_request, show_mode, width, qabort, packets, decoder,
                fresh, device, switches, pkt, arg, fault>>
  BY DEF OpenNext, resVars, streamVars, flagVars, queueVars, decVars, fileVars
<1>2. /\ pc[Reader] = "open next" /\ pc'[Main] = pc[Main] /\ todo[Reader] # <<>>
      /\ todo'[Reader] = Tail(todo[Reader]) /\ todo'[Main] = todo[Main]
      /\ job'[Main] = job[Main] /\ Head(todo[Reader]) \in Types
  BY Went, WentTodo, TodoHead, TwoThreads
     DEF OpenNext, At, ReaderTo, Typed, TodoType, JobType
<1>3. LET t == Head(todo[Reader]) IN
      \/ pc'[Reader] = "open codec" /\ job'[Reader].type = t /\ job'[Reader].index \in Indexes
      \/ pc'[Reader] = "open next" /\ UNCHANGED job
  <2>1. Goto(Reader, "open codec") => ReaderTo("open codec")
    BY Went
  <2>2. CASE OfType(Head(todo[Reader])) # {}
    <3>1. /\ Goto(Reader, "open codec")
          /\ job' = [job EXCEPT ![Reader] = [type |-> Head(todo[Reader]),
                                             index |-> Min(OfType(Head(todo[Reader])))]]
      BY <2>2 DEF OpenNext
    <3>2. /\ job'[Reader].type = Head(todo[Reader])
          /\ job'[Reader].index = Min(OfType(Head(todo[Reader])))
      BY <3>1, TwoThreads DEF Typed, JobType
    <3> QED
      BY <2>1, <2>2, <3>1, <3>2, FirstOfType DEF ReaderTo
  <2>3. CASE OfType(Head(todo[Reader])) = {}
    BY <1>2, <2>3 DEF OpenNext
  <2> QED
    BY <2>2, <2>3
<1>4. todo[Reader] \in Orders /\ Head(todo[Reader]) \in Coming(todo[Reader])
  BY <1>2, Order DEF Safe, Placed, ReaderInv
<1>5. OpenInv(Reader)'
  BY <1>1, <1>2, <1>3, <1>4 DEF Safe, Placed, OpenInv, ReaderInv, Unused, Closed, OpenPlaces
<1> USE DEF Safe, Placed, PlaceInv, MainPlaces, ReadPlaces, Before, OpenPlaces, ClosePlaces,
            LoopPlaces, TypePlaces
<1>6. PlaceInv'
  BY <1>1, <1>2, <1>3, <1>4
<1>7. ResInv'
  BY <1>1, <1>2, <1>3, <1>4 DEF ResInv, Closed
<1>8. StreamInv'
  BY <1>1, <1>2, <1>3, <1>4 DEF StreamInv, Unused, Closed, Types
<1>9. ReaderInv'
  BY <1>1, <1>2, <1>3, <1>4, Order DEF ReaderInv, Unused, Closed
<1>10. CloseInv'
  BY <1>1, <1>2, <1>3, <1>4 DEF CloseInv, Closed
<1>11. OpenInv(Main)'
  BY <1>1, <1>2, <1>3, <1>4 DEF OpenInv
<1>12. FlushInv'
  BY <1>1, <1>2, <1>3, <1>4 DEF FlushInv
<1>13. UnswitchedInv'
  BY <1>1, <1>2, <1>3, <1>4 DEF UnswitchedInv, Type
<1> QED
  BY <1>5, <1>6, <1>7, <1>8, <1>9, <1>10, <1>11, <1>12, <1>13

LEMMA OpenedKeeps == ASSUME Typed, Safe, Opened PROVE Safe'
<1>1. UNCHANGED <<up, ic, stream, st, abort_request, width, qabort, packets, decoder, fresh,
                device, todo, job, switches, pkt, arg, fault>>
  BY DEF Opened, resVars, streamVars, flagVars, queueVars, decVars, fileVars
<1>2. /\ pc[Reader] = "open next" /\ pc'[Main] = pc[Main] /\ show_mode'
      /\ pc'[Reader] \in {"ended", "top"}
  BY Went DEF Opened, End, At, ReaderTo
<1> USE DEF Safe, Placed, PlaceInv, MainPlaces, ReadPlaces, Before, OpenPlaces, ClosePlaces,
            LoopPlaces, TypePlaces
<1>3. PlaceInv'
  BY <1>1, <1>2
<1>4. ResInv'
  BY <1>1, <1>2 DEF ResInv, Closed
<1>5. StreamInv'
  BY <1>1, <1>2 DEF StreamInv, Unused, Closed, Types
<1>6. ReaderInv'
  BY <1>1, <1>2 DEF ReaderInv, Unused, Closed
<1>7. CloseInv'
  BY <1>1, <1>2 DEF CloseInv, Closed
<1>8. OpenInv(Main)' /\ OpenInv(Reader)'
  BY <1>1, <1>2 DEF OpenInv
<1>9. FlushInv'
  BY <1>1, <1>2 DEF FlushInv
<1>10. UnswitchedInv'
  BY <1>1, <1>2 DEF UnswitchedInv, Type
<1> QED
  BY <1>3, <1>4, <1>5, <1>6, <1>7, <1>8, <1>9, <1>10

(* ... and its streams, while the main thread leaves them alone. *)
LEMMA ReaderCodecKeeps == ASSUME Typed, Safe, OpenCodec(Reader) PROVE Safe'
<1>1. UNCHANGED <<up, ic, stream, st, abort_request, show_mode, width, qabort, packets, decoder,
                fresh, device, todo, job, switches, pkt, arg, fault>>
  BY DEF OpenCodec, resVars, streamVars, flagVars, queueVars, decVars, fileVars
<1>2. /\ pc[Reader] = "open codec" /\ pc'[Main] = pc[Main] /\ job[Reader].type \in Types
      /\ pc'[Reader] \in {"clear eof", "open next"}
  BY Went, JobParts, TwoThreads DEF OpenCodec, At, ReaderTo, Done
<1> USE DEF Safe, Placed, PlaceInv, MainPlaces, ReadPlaces, Before, OpenPlaces, ClosePlaces,
            LoopPlaces, TypePlaces
<1>3. PlaceInv'
  BY <1>1, <1>2
<1>4. ResInv'
  BY <1>1, <1>2 DEF ResInv, Closed
<1>5. StreamInv'
  BY <1>1, <1>2 DEF StreamInv, Unused, Closed, Types
<1>6. ReaderInv'
  BY <1>1, <1>2, Order DEF ReaderInv, Unused, Closed
<1>7. CloseInv'
  BY <1>1, <1>2 DEF CloseInv, Closed
<1>8. OpenInv(Main)' /\ OpenInv(Reader)'
  BY <1>1, <1>2 DEF OpenInv
<1>9. FlushInv'
  BY <1>1, <1>2 DEF FlushInv
<1>10. UnswitchedInv'
  BY <1>1, <1>2 DEF UnswitchedInv, Type
<1> QED
  BY <1>3, <1>4, <1>5, <1>6, <1>7, <1>8, <1>9, <1>10

LEMMA ReaderEofKeeps == ASSUME Typed, Safe, ClearEof(Reader) PROVE Safe'
<1>1. UNCHANGED <<up, ic, stream, st, abort_request, show_mode, width, qabort, packets, decoder,
                fresh, device, todo, job, switches, pkt, arg, fault>>
  BY DEF ClearEof, resVars, streamVars, flagVars, queueVars, decVars, fileVars
<1>2. /\ pc[Reader] = "clear eof" /\ pc'[Main] = pc[Main] /\ job[Reader].type \in Types
      /\ pc'[Reader] \in {"set index", "open next"}
  BY Went, JobParts, TwoThreads DEF ClearEof, At, ReaderTo, Done
<1> USE DEF Safe, Placed, PlaceInv, MainPlaces, ReadPlaces, Before, OpenPlaces, ClosePlaces,
            LoopPlaces, TypePlaces
<1>3. PlaceInv'
  BY <1>1, <1>2
<1>4. ResInv'
  BY <1>1, <1>2 DEF ResInv, Closed
<1>5. StreamInv'
  BY <1>1, <1>2 DEF StreamInv, Unused, Closed, Types
<1>6. ReaderInv'
  BY <1>1, <1>2, Order DEF ReaderInv, Unused, Closed
<1>7. CloseInv'
  BY <1>1, <1>2 DEF CloseInv, Closed
<1>8. OpenInv(Main)' /\ OpenInv(Reader)'
  BY <1>1, <1>2 DEF OpenInv
<1>9. FlushInv'
  BY <1>1, <1>2 DEF FlushInv
<1>10. UnswitchedInv'
  BY <1>1, <1>2 DEF UnswitchedInv, Type
<1> QED
  BY <1>3, <1>4, <1>5, <1>6, <1>7, <1>8, <1>9, <1>10

LEMMA ReaderIndexKeeps == ASSUME Typed, Safe, SetIndex(Reader) PROVE Safe'
<1>1. UNCHANGED <<up, ic, st, abort_request, show_mode, width, qabort, packets, decoder, fresh,
                device, todo, job, switches, pkt, arg, fault>>
  BY DEF SetIndex, resVars, streamVars, flagVars, queueVars, decVars, fileVars
<1>2. /\ pc[Reader] = "set index" /\ pc'[Main] = pc[Main] /\ job[Reader].type \in Types
      /\ pc'[Reader] = "set pointer"
  BY Went, JobParts, TwoThreads DEF SetIndex, At, ReaderTo, Done
<1>3. /\ stream'[job[Reader].type] = job[Reader].index
      /\ \A t \in Types : t # job[Reader].type => stream'[t] = stream[t]
  BY <1>2, TwoThreads DEF SetIndex, Typed, StreamType
<1>4. job[Reader].index \in Indexes /\ job[Reader].index # None
  <2>1. job[Reader].index \in Indexes
    BY <1>2 DEF Safe, OpenInv, OpenPlaces
  <2> QED
    BY <2>1, IndexNumbers DEF None
<1> USE DEF Safe, Placed, PlaceInv, MainPlaces, ReadPlaces, Before, OpenPlaces, ClosePlaces,
            LoopPlaces, TypePlaces
<1>5. PlaceInv'
  BY <1>1, <1>2, <1>3, <1>4
<1>6. ResInv'
  BY <1>1, <1>2, <1>3, <1>4 DEF ResInv, Closed
<1>7. StreamInv'
  BY <1>1, <1>2, <1>3, <1>4 DEF StreamInv, Unused, Closed, Types
<1>8. ReaderInv'
  BY <1>1, <1>2, <1>3, <1>4, Order DEF ReaderInv, Unused, Closed
<1>9. CloseInv'
  BY <1>1, <1>2, <1>3, <1>4 DEF CloseInv, Closed
<1>10. OpenInv(Main)' /\ OpenInv(Reader)'
  BY <1>1, <1>2, <1>3, <1>4 DEF OpenInv
<1>11. FlushInv'
  BY <1>1, <1>2, <1>3, <1>4 DEF FlushInv
<1>12. UnswitchedInv'
  BY <1>1, <1>2, <1>3, <1>4 DEF UnswitchedInv, Type
<1> QED
  BY <1>5, <1>6, <1>7, <1>8, <1>9, <1>10, <1>11, <1>12

LEMMA ReaderPointerKeeps == ASSUME Typed, Safe, SetPointer(Reader) PROVE Safe'
<1>1. UNCHANGED <<up, ic, stream, abort_request, show_mode, width, qabort, packets, decoder,
                fresh, device, todo, job, switches, pkt, arg, fault>>
  BY DEF SetPointer, resVars, streamVars, flagVars, queueVars, decVars, fileVars
<1>2. /\ pc[Reader] = "set pointer" /\ pc'[Main] = pc[Main] /\ job[Reader].type \in Types
      /\ pc'[Reader] = "start queue"
  BY Went, JobParts, TwoThreads DEF SetPointer, At, ReaderTo, Done
<1>3. /\ st'[job[Reader].type] = job[Reader].index
      /\ \A t \in Types : t # job[Reader].type => st'[t] = st[t]
  BY <1>2, TwoThreads DEF SetPointer, Typed, StreamType
<1>4. job[Reader].index \in Indexes /\ job[Reader].index # None
  <2>1. job[Reader].index \in Indexes
    BY <1>2 DEF Safe, OpenInv, OpenPlaces
  <2> QED
    BY <2>1, IndexNumbers DEF None
<1> USE DEF Safe, Placed, PlaceInv, MainPlaces, ReadPlaces, Before, OpenPlaces, ClosePlaces,
            LoopPlaces, TypePlaces
<1>5. PlaceInv'
  BY <1>1, <1>2, <1>3, <1>4
<1>6. ResInv'
  BY <1>1, <1>2, <1>3, <1>4 DEF ResInv, Closed
<1>7. StreamInv'
  BY <1>1, <1>2, <1>3, <1>4 DEF StreamInv, Unused, Closed, Types
<1>8. ReaderInv'
  BY <1>1, <1>2, <1>3, <1>4, Order DEF ReaderInv, Unused, Closed
<1>9. CloseInv'
  BY <1>1, <1>2, <1>3, <1>4 DEF CloseInv, Closed
<1>10. OpenInv(Main)' /\ OpenInv(Reader)'
  BY <1>1, <1>2, <1>3, <1>4 DEF OpenInv
<1>11. FlushInv'
  BY <1>1, <1>2, <1>3, <1>4 DEF FlushInv
<1>12. UnswitchedInv'
  BY <1>1, <1>2, <1>3, <1>4 DEF UnswitchedInv, Type
<1> QED
  BY <1>5, <1>6, <1>7, <1>8, <1>9, <1>10, <1>11, <1>12

LEMMA ReaderQueueKeeps == ASSUME Typed, Safe, StartQueue(Reader) PROVE Safe'
<1>1. UNCHANGED <<up, ic, stream, st, abort_request, show_mode, width, decoder, device, todo, job,
                switches, pkt, arg, fault>>
  BY DEF StartQueue, resVars, streamVars, flagVars, queueVars, decVars, fileVars
<1>2. /\ pc[Reader] = "start queue" /\ pc'[Main] = pc[Main] /\ job[Reader].type \in Types
      /\ pc'[Reader] = "start decoder"
  BY Went, JobParts, TwoThreads DEF StartQueue, At, ReaderTo, Done
<1>3. /\ ~qabort'[job[Reader].type]
      /\ packets'[job[Reader].type] = Append(packets[job[Reader].type], Flush)
      /\ \A t \in Types : t # job[Reader].type =>
            qabort'[t] = qabort[t] /\ packets'[t] = packets[t] /\ fresh'[t] = fresh[t]
  BY JobParts, TwoThreads DEF StartQueue, Typed, QueueType, DecType
<1>4. packets'[job[Reader].type] # <<>> /\ Head(packets'[job[Reader].type]) = Flush
  <2>1. qabort[job[Reader].type] /\ decoder[job[Reader].type] = "none" /\ ~(pc[Main] = "join")
    BY <1>2 DEF Safe, OpenInv, OpenPlaces, Placed, PlaceInv, ClosePlaces, LoopPlaces, TypePlaces
  <2>2. packets[job[Reader].type] = <<>> /\ Flush \in Packets
    BY <1>2, <2>1 DEF Safe, FlushInv, Packets
  <2> QED
    BY <1>3, <2>2, AppendType DEF Typed, QueueType
<1>5. \A t \in Types : t # job[Reader].type => (Unused(t) => Unused(t)')
  BY <1>1, <1>2, <1>3 DEF Unused, Closed
<1> USE DEF Safe, Placed, PlaceInv, MainPlaces, ReadPlaces, Before, OpenPlaces, ClosePlaces,
            LoopPlaces, TypePlaces
<1>6. PlaceInv'
  BY <1>1, <1>2, <1>3, <1>4, <1>5
<1>7. ResInv'
  BY <1>1, <1>2, <1>3, <1>4, <1>5 DEF ResInv, Closed
<1>8. StreamInv'
  BY <1>1, <1>2, <1>3, <1>4, <1>5 DEF StreamInv, Unused, Closed, Types, OpenInv
<1>9. ReaderInv'
  BY <1>1, <1>2, <1>3, <1>4, <1>5, Order DEF ReaderInv
<1>10. CloseInv'
  BY <1>1, <1>2, <1>3, <1>4, <1>5 DEF CloseInv, Closed
<1>11. OpenInv(Main)' /\ OpenInv(Reader)'
  BY <1>1, <1>2, <1>3, <1>4, <1>5 DEF OpenInv
<1>12. FlushInv'
  BY <1>1, <1>2, <1>3, <1>4, <1>5 DEF FlushInv
<1>13. UnswitchedInv'
  BY <1>1, <1>2, <1>3, <1>4, <1>5 DEF UnswitchedInv, Type
<1> QED
  BY <1>6, <1>7, <1>8, <1>9, <1>10, <1>11, <1>12, <1>13

LEMMA ReaderDecoderKeeps == ASSUME Typed, Safe, StartDecoder(Reader) PROVE Safe'
<1>1. UNCHANGED <<up, ic, stream, st, abort_request, show_mode, width, qabort, packets, fresh,
                todo, job, switches, pkt, arg, fault>>
  BY DEF StartDecoder, resVars, streamVars, flagVars, queueVars, decVars, fileVars
<1>2. /\ pc[Reader] = "start decoder" /\ pc'[Main] = pc[Main] /\ job[Reader].type \in Types
      /\ pc'[Reader] = "open next"
  BY Went, JobParts, TwoThreads DEF StartDecoder, At, ReaderTo, Done
<1>3. /\ decoder'[job[Reader].type] \in {decoder[job[Reader].type], "running"}
      /\ \A t \in Types : t # job[Reader].type => decoder'[t] = decoder[t]
  BY <1>2, TwoThreads DEF StartDecoder, Typed, DecType
<1>4. (device => device') /\ (device' => device \/ job[Reader].type = "audio")
  <2>1. device' = (device \/ job[Reader].type = "audio") \/ device' = device
    BY DEF StartDecoder
  <2>2. device \in BOOLEAN
    BY DEF Typed, DecType
  <2> QED
    BY <2>1, <2>2
<1>5. \A t \in Types : t # job[Reader].type => (Unused(t) => Unused(t)')
  BY <1>1, <1>2, <1>3, <1>4 DEF Unused, Closed
<1>6. FlushInv'
  BY <1>1, <1>2, <1>3, <1>4, <1>5 DEF Safe, Placed, FlushInv, PlaceInv
<1> USE DEF Safe, Placed, PlaceInv, MainPlaces, ReadPlaces, Before, OpenPlaces, ClosePlaces,
            LoopPlaces, TypePlaces
<1>7. PlaceInv'
  BY <1>1, <1>2, <1>3, <1>4, <1>5
<1>8. ResInv'
  BY <1>1, <1>2, <1>3, <1>4, <1>5 DEF ResInv, Closed
<1>9. StreamInv'
  BY <1>1, <1>2, <1>3, <1>4, <1>5 DEF StreamInv, Unused, Closed, Types, OpenInv
<1>10. ReaderInv'
  BY <1>1, <1>2, <1>3, <1>4, <1>5, Order DEF ReaderInv
<1>11. CloseInv'
  BY <1>1, <1>2, <1>3, <1>4, <1>5 DEF CloseInv, Closed
<1>12. OpenInv(Main)' /\ OpenInv(Reader)'
  BY <1>1, <1>2, <1>3, <1>4, <1>5 DEF OpenInv
<1>13. UnswitchedInv'
  BY <1>1, <1>2, <1>3, <1>4, <1>5 DEF UnswitchedInv, Type
<1> QED
  BY <1>6, <1>7, <1>8, <1>9, <1>10, <1>11, <1>12, <1>13


(* The loop of read_thread *)
LEMMA LoopSafe == ASSUME Typed, Safe, ReadLoop PROVE Safe'
<1>1. LoopEffect
  BY LoopStep DEF Safe, Placed
<1>2. Placed' /\ OpenInv(Main)' /\ OpenInv(Reader)'
  BY <1>1, LoopKeeps DEF Safe, Placed
<1>3. FlushInv' /\ UnswitchedInv'
  BY LoopFlush, LoopUnswitched DEF Safe, Placed
<1> QED
  BY <1>2, <1>3 DEF Safe

------------------------------------------------------------------------------
(* The invariant is one. *)

LEMMA InitInv == Init => IInv
<1> SUFFICES ASSUME Init PROVE IInv
  OBVIOUS
<1>1. Typed
  <2>1. ResType /\ StreamType /\ FlagType /\ FaultType
    BY DEF Init, ResType, StreamType, FlagType, FaultType
  <2>5. DecType
    BY DEF Init, DecType
  <2>6. CountType
    BY BoundsAssumption DEF Init, CountType
  <2>2. QueueType /\ TodoType
    BY EmptySeq DEF Init, QueueType, TodoType
  <2>3. FileType
    BY BoundsAssumption DEF Init, FileType
  <2>4. PcType /\ JobType
    BY DEF Init, PcType, JobType, NoJob, Places, Threads, Types
  <2> QED
    BY <2>1, <2>2, <2>3, <2>4, <2>5, <2>6 DEF Typed
<1>2. /\ pc[Main] = "create" /\ pc[Reader] = "none" /\ ~abort_request /\ ~width /\ ~show_mode
      /\ ic = "NULL" /\ fault = "none" /\ ~device
  BY TwoThreads DEF Init
<1>3. \A t \in Types : qabort[t] /\ decoder[t] = "none" /\ packets[t] = <<>>
  BY DEF Init
<1>4. Placed
  BY <1>2, <1>3
     DEF Placed, PlaceInv, ResInv, StreamInv, ReaderInv, CloseInv, Unused, Closed, MainPlaces,
         ReadPlaces, Before, OpenPlaces, ClosePlaces, LoopPlaces, TypePlaces
<1>5. OpenInv(Main) /\ OpenInv(Reader) /\ FlushInv /\ UnswitchedInv
  BY <1>2, <1>3 DEF OpenInv, OpenPlaces, FlushInv, UnswitchedInv
<1> QED
  BY <1>1, <1>4, <1>5, TypeParts DEF IInv, Safe

LEMMA StutterInv == ASSUME IInv, UNCHANGED vars PROVE IInv'
<1>1. Typed'
  BY TypeParts, Kept DEF IInv, Typed, vars
<1>2. Placed'
  <2>1. PlaceInv' /\ ResInv' /\ StreamInv'
    BY DEF IInv, Safe, Placed, PlaceInv, ResInv, StreamInv, Unused, Closed, vars, resVars,
           streamVars, flagVars, queueVars, decVars
  <2>2. ReaderInv'
    BY DEF IInv, Safe, Placed, ReaderInv, Unused, Closed, vars, flagVars, queueVars, decVars,
           fileVars
  <2>3. CloseInv'
    BY DEF IInv, Safe, Placed, CloseInv, Closed, vars, flagVars, queueVars, decVars
  <2> QED
    BY <2>1, <2>2, <2>3 DEF Placed
<1>3. OpenInv(Main)' /\ OpenInv(Reader)' /\ FlushInv' /\ UnswitchedInv'
  BY DEF IInv, Safe, OpenInv, FlushInv, UnswitchedInv, Type,
         vars, resVars, streamVars, flagVars, queueVars, decVars, fileVars
<1> QED
  BY <1>1, <1>2, <1>3, TypeParts DEF IInv, Safe

LEMMA MainSafe == ASSUME Typed, Safe, MainStep PROVE Typed' /\ Safe'
<1>1. CASE Create \/ CreateThread \/ Show \/ QuitEvent \/ StreamClose
  <2>1. Typed'
    BY <1>1, PlayerType DEF QuitEvent
  <2>2. Safe'
    BY <1>1, CreateKeeps, ThreadKeeps, ShowKeeps, QuitKeeps, CloseBeginKeeps, WaitKeeps,
       CloseNextKeeps, CloseInputKeeps, DestroyKeeps DEF QuitEvent, StreamClose
  <2> QED
    BY <2>1, <2>2
<1>2. CASE Close
  BY <1>2, CloseType, AbortKeeps, JoinKeeps, ClearPointerKeeps, ClearIndexKeeps DEF Close
<1>3. CASE Open(Main)
  <2>1. Typed'
    BY <1>3, OpenType, TwoThreads DEF Safe
  <2>2. Safe'
    BY <1>3, MainCodecKeeps, MainEofKeeps, MainIndexKeeps, MainPointerKeeps, MainQueueKeeps,
       MainDecoderKeeps DEF Open
  <2> QED
    BY <2>1, <2>2
<1> QED
  BY <1>1, <1>2, <1>3 DEF MainStep

LEMMA ReadSafe == ASSUME Typed, Safe, ReadStep PROVE Typed' /\ Safe'
<1>1. CASE OpenFile
  BY <1>1, FileOpenType, MutexKeeps, InputKeeps, OpenNextKeeps, OpenedKeeps DEF OpenFile
<1>2. CASE Open(Reader)
  <2>1. Typed'
    BY <1>2, OpenType, TwoThreads DEF Safe
  <2>2. Safe'
    BY <1>2, ReaderCodecKeeps, ReaderEofKeeps, ReaderIndexKeeps, ReaderPointerKeeps,
       ReaderQueueKeeps, ReaderDecoderKeeps DEF Open
  <2> QED
    BY <2>1, <2>2
<1>3. CASE ReadLoop
  BY <1>3, ReadType, LoopSafe DEF Safe, Placed
<1> QED
  BY <1>1, <1>2, <1>3 DEF ReadStep

LEMMA NextInv == ASSUME IInv, [Next]_vars PROVE IInv'
<1>1. Typed /\ Safe
  BY TypeParts DEF IInv
<1>2. CASE MainStep
  BY <1>1, <1>2, MainSafe, TypeParts DEF IInv
<1>3. CASE Keys
  <2>1. CASE KeyQuit
    BY <1>1, <2>1, PlayerType, QuitKeeps, TypeParts DEF IInv
  <2>2. ASSUME NEW t \in Types, KeyCycle(t) PROVE IInv'
    BY <1>1, <2>2, SwitchType, CycleKeeps, TypeParts DEF IInv
  <2> QED
    BY <1>3, <2>1, <2>2 DEF Keys
<1>4. CASE ReadStep
  BY <1>1, <1>4, ReadSafe, TypeParts DEF IInv
<1>5. ASSUME NEW t \in Types, DecoderStep(t) PROVE IInv'
  BY <1>1, <1>5, DecoderType, TakeKeeps, EndKeeps, TypeParts DEF IInv, DecoderStep
<1>6. CASE UNCHANGED vars
  BY <1>6, StutterInv
<1> QED
  BY <1>2, <1>3, <1>4, <1>5, <1>6 DEF Next

\* The inductive invariant holds of every reachable state.
THEOREM Invariant == Spec => []IInv
BY InitInv, NextInv, PTL DEF Spec

------------------------------------------------------------------------------
(* What follows from it *)

\* The variables keep their types, for any file and any number of packets and switches.
THEOREM TypeCorrect == Spec => []TypeOK
<1>1. IInv => TypeOK
  BY DEF IInv
<1> QED
  BY <1>1, Invariant, PTL

\* While read_thread, a decoder thread or the audio callback runs, what it uses exists,
\* however opening fails and whenever the user switches or quits.
THEOREM UsedExists == Spec => []NothingUsedDestroyed
<1>1. IInv => NothingUsedDestroyed
  <2> SUFFICES ASSUME IInv PROVE NothingUsedDestroyed
    OBVIOUS
  <2>1. PlaceInv /\ ResInv /\ StreamInv
    BY DEF IInv, Safe, Placed
  <2>2. pc[Reader] \notin {"none", "ended"} => up = Resources /\ ic # "closed"
    BY <2>1 DEF PlaceInv, ResInv
  <2>3. pc[Reader] \notin {"none", "mutex", "input", "ended"} => ic = "open"
    BY <2>1 DEF PlaceInv, ResInv, ReadPlaces, Before
  <2>4. pc[Main] = "exited" => \A t \in Types : Closed(t)
    BY <2>1 DEF ResInv
  <2>5. ASSUME NEW t \in Types, decoder[t] # "none" PROVE up = Resources /\ st[t] # None
    BY <2>1, <2>4, <2>5 DEF ResInv, StreamInv, Unused, Closed, Before
  <2>6. device => up = Resources
    BY <2>1, <2>4 DEF ResInv, StreamInv, Unused, Closed, Before, Types
  <2> QED
    BY <2>2, <2>3, <2>5, <2>6 DEF NothingUsedDestroyed
<1> QED
  BY <1>1, Invariant, PTL

\* No type is opened by two threads or opened by one and closed by the other, nor opened
\* while its decoder thread runs: the keys need a window, and there is none before
\* read_thread has opened its streams.
THEOREM OneOpens == Spec => []OpenedByOne
<1>1. IInv => OpenedByOne
  <2> SUFFICES ASSUME IInv PROVE OpenedByOne
    OBVIOUS
  <2>1. PlaceInv /\ OpenInv(Main) /\ OpenInv(Reader)
    BY DEF IInv, Safe, Placed
  <2>2. \A th \in Threads : pc[th] \in OpenPlaces => decoder[job[th].type] = "none"
    BY <2>1, TwoThreads DEF OpenInv
  <2>3. pc[Main] \in OpenPlaces \cup ClosePlaces => pc[Reader] \notin OpenPlaces
    BY <2>1 DEF PlaceInv, OpenPlaces, ClosePlaces, LoopPlaces, TypePlaces
  <2> QED
    BY <2>2, <2>3 DEF OpenedByOne
<1> QED
  BY <1>1, Invariant, PTL

\* Closing the player and failing to open a stream never make read_thread follow a NULL
\* pointer; only switching does.
THEOREM SafeWithoutSwitch == Spec => []FaultOnlyBySwitch
<1>1. IInv => FaultOnlyBySwitch
  <2> SUFFICES ASSUME IInv, fault = "no stream" PROVE switches > 0
    BY DEF FaultOnlyBySwitch
  <2>1. switches # 0
    BY DEF IInv, Safe, UnswitchedInv
  <2> QED
    BY <2>1, Counted, TypeParts DEF IInv
<1> QED
  BY <1>1, Invariant, PTL

\* The first packet that a decoder takes is the flush packet, whatever read_thread puts in
\* while the stream is closed and opened again.
THEOREM FlushTakenFirst == Spec => FlushFirst
<1>1. ASSUME IInv, [Next]_vars, NEW t \in Types, fresh[t], ~fresh'[t]
      PROVE  Head(packets[t]) = Flush
  <2>1. Typed /\ FlushInv
    BY <1>1, TypeParts DEF IInv, Safe
  <2>2. CASE \E u \in Types : TakePacket(u)
    <3>1. PICK u \in Types : TakePacket(u)
      BY <2>2
    <3>2. u = t /\ ~qabort[t]
      BY <1>1, <2>1, <3>1 DEF TakePacket, Typed, DecType
    <3> QED
      BY <1>1, <2>1, <3>2 DEF FlushInv
  <2>3. CASE \E th \in Threads : Open(th)
    <3>1. PICK th \in Threads : Open(th)
      BY <2>3
    <3>2. CASE StartQueue(th)
      BY <1>1, <2>1, <3>2 DEF StartQueue, Typed, DecType
    <3>3. CASE ~StartQueue(th)
      BY <1>1, <3>1, <3>3
         DEF Open, OpenCodec, ClearEof, SetIndex, SetPointer, StartDecoder, decVars
    <3> QED
      BY <3>2, <3>3
  <2>4. CASE Create \/ CreateThread \/ Show \/ KeyQuit \/ StreamClose
    BY <1>1, <2>4 DEF Create, CreateThread, Show, KeyQuit, StreamClose, CloseBegin, WaitReader,
                      CloseNext, CloseInput, Destroy, decVars
  <2>5. CASE Close \/ \E u \in Types : KeyCycle(u) \/ EndDecoder(u)
    BY <1>1, <2>5 DEF Close, AbortQueue, JoinDecoder, ClearPointer, ClearIndex, KeyCycle,
                      EndDecoder, decVars
  <2>6. CASE OpenFile
    BY <1>1, <2>6 DEF OpenFile, CreateMutex, OpenInput, OpenNext, Opened, decVars
  <2>7. CASE ReadLoop
    BY <1>1, <2>1, <2>7, LoopStep DEF LoopEffect, decVars, IInv, Safe, Placed
  <2>8. CASE UNCHANGED vars
    BY <1>1, <2>8 DEF vars, decVars
  <2> QED
    BY <1>1, <2>2, <2>3, <2>4, <2>5, <2>6, <2>7, <2>8, TwoThreads
       DEF Next, MainStep, Keys, ReadStep, DecoderStep, QuitEvent
<1>2. IInv /\ [Next]_vars
      => [\A t \in Types : fresh[t] /\ ~fresh'[t] => Head(packets[t]) = Flush]_vars
  BY <1>1
<1> QED
  BY <1>2, Invariant, PTL DEF Spec, FlushFirst
=============================================================================
