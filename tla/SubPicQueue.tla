----------------------------- MODULE SubPicQueue -----------------------------
(***************************************************************************)
(* CSubPicQueue: a thread renders the subtitles ahead of the playback into *)
(* a bounded queue of subpictures, and the video renderer looks up, for    *)
(* every frame, the one to show.                                           *)
(*                                                                         *)
(* Three parties run against the queue thread: the video renderer          *)
(* (SetTime, LookupSubPic), the user interface (SetSubPicProvider, the     *)
(* destructor), and whoever edits the subtitles and invalidates the queue  *)
(* from the time of the edit: the decoding thread, the user interface.     *)
(*                                                                         *)
(* One action is one critical section of the code, or one access to        *)
(* m_rtNow, m_bInvalidate and m_rtNowLast outside them.  The locks of the  *)
(* provider are those of SubPicLocks: here an edit excludes a pass of the  *)
(* queue thread, and replacing a provider waits for a pass over an older   *)
(* wrapper.                                                                *)
(***************************************************************************)
EXTENDS Integers, Sequences, FiniteSets, FiniteSetsExt

CONSTANTS QueueSize,     \* m_settings.nSize
          Frame,         \* m_rtTimePerFrame
          SubFrame,      \* m_rtTimePerSubFrame
          Ahead,         \* the minute the thread renders ahead
          Unknown,       \* ISubPicProvider::UNKNOWN_TIME
          Times,         \* the playback times the renderer may set
          Providers, NoProvider,
          FirstProvider, \* the one the presenter has when it creates the queue
          Texts, NoText, \* what a segment shows; nothing
          Scripts,       \* the contents a provider may have: see Segment
          FirstScript,   \* provider -> its content at the start
          Blocking,      \* LookupSubPic may wait for the queue thread
          Failures,      \* texts whose allocation or rendering may fail
          Edits,         \* changes of a script: <<before, after, time invalidated from>>
          MaxSeeks,      \* bound: changes of the playback time
          MaxSwaps,      \* bound: calls of SetSubPicProvider
          MaxEdits       \* bound: edits

(* A script is the sequence of the non-empty segments of a subtitle stream,   *)
(* in order of time and disjoint.  UNKNOWN_TIME is the last time there is.    *)
Segment == [start : Nat, stop : Nat, animated : BOOLEAN, text : Texts]
IsScript(s) ==
    /\ s \in Seq(Segment)
    /\ \A i \in DOMAIN s : s[i].start < s[i].stop /\ s[i].stop <= Unknown
    /\ \A i, j \in DOMAIN s : i < j => s[i].stop <= s[j].start

ASSUME QueueAssumption ==
    /\ QueueSize \in Nat \ {0} /\ Frame \in Nat \ {0}
    /\ SubFrame \in Nat /\ SubFrame >= Frame /\ (SubFrame * 3) \div 4 > 0
    /\ Ahead \in Nat \ {0} /\ Times \subseteq Nat /\ Unknown \in Nat
    /\ NoProvider \notin Providers /\ FirstProvider \in Providers \cup {NoProvider}
    /\ \A s \in Scripts : IsScript(s)
    /\ FirstScript \in [Providers -> Scripts]
    /\ Edits \subseteq Scripts \X Scripts \X Int
    /\ NoText \notin Texts
    /\ Blocking \in BOOLEAN /\ Failures \subseteq Texts
    /\ {MaxSeeks, MaxSwaps, MaxEdits} \subseteq Nat

NoPic == [start |-> -1, stop |-> -1, segStart |-> -1, segStop |-> -1, src |-> {}]
ERROR == -1            \* LONGLONG_ERROR, a time no playback has

VARIABLES
    (* shared *)
    queue,       \* m_queue
    shown,       \* m_pSubPic
    rtNow,       \* m_rtNow
    rtNowLast,   \* m_rtNowLast
    bInvalidate, rtInvalidate,
    event,       \* m_runQueueEvent, an auto-reset event
    bExit,       \* m_bExitThread
    wrapper,     \* m_pSubPicProviderWithSharedLock: [gen, prov]
    content,     \* provider -> its script
    (* queue thread *)
    qpc, bWait, held, pos, rtStart, rtCur, pic,
    (* renderer *)
    rpc, rt, found, bTry,
    (* user interface; whoever edits subtitles *)
    upc, pending,
    (* bounds *)
    seeks, edits

sharedVars == <<queue, shown, rtNow, rtNowLast, bInvalidate, rtInvalidate, event>>
queueThreadVars == <<qpc, bWait, held, pos, rtStart, rtCur, pic>>
rendererVars == <<rpc, rt, found, bTry, seeks>>
callerVars == <<bExit, wrapper, content, upc, pending, edits>>
vars == <<sharedVars, queueThreadVars, rendererVars, callerVars>>

(* The presenter creates the queue and gives it the provider it has, before   *)
(* anybody else sees the queue.                                               *)
Init ==
    /\ queue = <<>> /\ shown = NoPic
    /\ rtNow = 0 /\ rtNowLast = ERROR
    /\ bInvalidate = (FirstProvider # NoProvider)
    /\ rtInvalidate = (IF FirstProvider # NoProvider THEN -1 ELSE 0)
    /\ event = (FirstProvider # NoProvider) /\ bExit = FALSE
    /\ wrapper = [gen |-> 0, prov |-> FirstProvider]
    /\ content = FirstScript
    /\ qpc = "top" /\ bWait = FALSE /\ held = wrapper
    /\ pos = 0 /\ rtStart = 0 /\ rtCur = 0 /\ pic = NoPic
    /\ rpc = "idle" /\ rt = 0 /\ found = NoPic /\ bTry = FALSE
    /\ upc = "idle" /\ pending = <<>>
    /\ seeks = 0 /\ edits = 0

-----------------------------------------------------------------------------
(* Helpers.                                                                   *)
Larger(a, b) == IF a > b THEN a ELSE b
Smaller(a, b) == IF a < b THEN a ELSE b
TailStop == IF queue = <<>> THEN -1 ELSE queue[Len(queue)].stop

(* GetStartPosition: the first segment that ends after t, 0 for none.         *)
StartPosition(s, t) ==
    LET later == {i \in DOMAIN s : s[i].stop > t}
    IN IF later = {} THEN 0 ELSE Min(later)

Covers(p, t) == p.start <= t /\ t < p.stop
InSegment(p, t) == p.segStart <= t /\ t < p.segStop

(* A pass holds the lock of its wrapper from "begin" to "unlock".             *)
InPass == qpc \in {"begin", "position", "segment", "render", "enqueue",
                  "advance", "unlock"}
SwapUnderWay == upc \in {"swapped", "destroying"}   \* m_csSubPicProvider is held

(* Invalidate, its whole critical section and the wake-ups after it.          *)
KeptBy(t) ==    \* what is left when the tail is cut while it ends after t
    LET cut == {n \in 0 .. Len(queue) : \A i \in n + 1 .. Len(queue) : queue[i].stop > t}
    IN SubSeq(queue, 1, Min(cut))

(* Mutant: the queue thread is not woken.                                     *)
Invalidate_NoWake(t) ==
    /\ bInvalidate' = TRUE /\ rtInvalidate' = t /\ rtNowLast' = ERROR
    /\ shown' = IF shown.stop > t THEN NoPic ELSE shown
    /\ queue' = KeptBy(t)
    /\ rtNow' = IF t < rtNow THEN Larger(t, 0) ELSE rtNow
    /\ UNCHANGED event

Invalidate(t) ==
    /\ bInvalidate' = TRUE /\ rtInvalidate' = t /\ rtNowLast' = ERROR
    /\ shown' = IF shown.stop > t THEN NoPic ELSE shown
    /\ queue' = KeptBy(t)
    /\ rtNow' = IF t < rtNow THEN Larger(t, 0) ELSE rtNow
    /\ event' = TRUE

-----------------------------------------------------------------------------
(* The queue thread, ThreadProc.                                              *)

(* The loop head; with bWaitForEvent the thread sleeps until the event.       *)
Top ==
    /\ qpc = "top"
    /\ qpc' = IF bExit THEN "done" ELSE IF bWait THEN "wait" ELSE "grab"
    /\ bWait' = FALSE
    /\ UNCHANGED <<sharedVars, held, pos, rtStart, rtCur, pic, rendererVars, callerVars>>

Wake ==
    /\ qpc = "wait" /\ event
    /\ event' = FALSE /\ qpc' = "grab"
    /\ UNCHANGED <<queue, shown, rtNow, rtNowLast, bInvalidate, rtInvalidate,
                   bWait, held, pos, rtStart, rtCur, pic, rendererVars, callerVars>>

Grab ==
    /\ qpc = "grab" /\ ~SwapUnderWay
    /\ held' = wrapper
    /\ IF wrapper.prov = NoProvider
       THEN qpc' = "top" /\ bWait' = TRUE
       ELSE qpc' = "lock" /\ UNCHANGED bWait
    /\ UNCHANGED <<sharedVars, pos, rtStart, rtCur, pic, rendererVars, callerVars>>

(* The provider locked, m_bInvalidate is cleared without m_mutexQueue.        *)
LockProvider ==
    /\ qpc = "lock"
    /\ bInvalidate' = FALSE /\ qpc' = "begin"
    /\ UNCHANGED <<queue, shown, rtNow, rtNowLast, rtInvalidate, event, bWait, held,
                   pos, rtStart, rtCur, pic, rendererVars, callerVars>>

(* GetCurrentRenderingTime: the tail under m_mutexQueue, m_rtNow outside.     *)
(* Mutant: what is in the queue already is rendered again.                    *)
BeginPass_NoTail ==
    /\ qpc = "begin"
    /\ rtStart' = -1 /\ qpc' = "position"
    /\ UNCHANGED <<sharedVars, bWait, held, pos, rtCur, pic, rendererVars, callerVars>>

BeginPass ==
    /\ qpc = "begin"
    /\ rtStart' = TailStop /\ qpc' = "position"
    /\ UNCHANGED <<sharedVars, bWait, held, pos, rtCur, pic, rendererVars, callerVars>>

Position ==
    /\ qpc = "position"
    /\ rtStart' = Larger(rtStart, rtNow)
    /\ pos' = StartPosition(content[held.prov], rtStart')
    /\ bWait' = (pos' = 0)
    /\ qpc' = IF pos' = 0 THEN "unlock" ELSE "segment"
    /\ UNCHANGED <<sharedVars, held, rtCur, pic, rendererVars, callerVars>>

Seg == content[held.prov][pos]

NextSegment ==
    IF pos = Len(content[held.prov])
    THEN pos' = 0 /\ qpc' = "unlock"
    ELSE pos' = pos + 1 /\ qpc' = "segment"

AtSegment ==
    /\ qpc = "segment"
    /\ IF Seg.start >= rtNow + Ahead
       THEN bWait' = TRUE /\ qpc' = "unlock" /\ pos' = 0 /\ UNCHANGED rtCur
       ELSE /\ rtCur' = Larger(Larger(Seg.start, rtStart), rtNow)
            /\ UNCHANGED bWait
            /\ IF rtCur' < Seg.stop THEN qpc' = "render" /\ UNCHANGED pos ELSE NextSegment
    /\ UNCHANGED <<sharedVars, held, rtStart, pic, rendererVars, callerVars>>

(* A segment with no known end is shown one frame at a time.                  *)
SegStop == IF Seg.stop = Unknown THEN rtCur + Frame ELSE Seg.stop

(* The times come from the provider locked, the image from the provider of    *)
(* the moment; src is what the two say.                                       *)
TextAt(p, t) ==
    LET s == content[p]
        here == {i \in DOMAIN s : s[i].start <= t /\ t < s[i].stop}
    IN IF here = {} THEN NoText ELSE s[Min(here)].text

NewPic ==
    LET src == {TextAt(held.prov, rtCur), TextAt(wrapper.prov, rtCur)}
    IN IF Seg.animated
       THEN [start |-> rtCur, stop |-> Smaller(rtCur + (SubFrame * 3) \div 4, SegStop),
             segStart |-> Seg.start, segStop |-> Larger(rtCur + Frame, SegStop), src |-> src]
       ELSE [start |-> Seg.start, stop |-> SegStop,
             segStart |-> Seg.start, segStop |-> SegStop, src |-> src]

RenderPic ==
    /\ qpc = "render" /\ ~SwapUnderWay /\ wrapper.prov # NoProvider
    /\ pic' = NewPic
    /\ rtCur' = IF Seg.animated THEN Smaller(rtCur + SubFrame, SegStop) ELSE SegStop
    /\ qpc' = "enqueue"
    /\ UNCHANGED <<sharedVars, bWait, held, pos, rtStart, rendererVars, callerVars>>

(* GetStatic or RenderTo fails, the latter always without a provider: the     *)
(* rest of the segment is given up; pSubPic keeps what it had.                *)
RenderFails ==
    /\ qpc = "render" /\ ~SwapUnderWay
    /\ Seg.text \in Failures \/ wrapper.prov = NoProvider
    /\ NextSegment
    /\ UNCHANGED <<sharedVars, bWait, held, rtStart, rtCur, pic, rendererVars, callerVars>>

(* AllocDynamic fails, which leaves no subpicture, or CopyTo fails, which     *)
(* leaves one that has its times and no image.                                *)
CopyFails ==
    /\ qpc = "render" /\ ~SwapUnderWay /\ wrapper.prov # NoProvider /\ Seg.text \in Failures
    /\ pic' \in {NoPic, [NewPic EXCEPT !.src = {}]}
    /\ NextSegment
    /\ UNCHANGED <<sharedVars, bWait, held, rtStart, rtCur, rendererVars, callerVars>>

(* EnqueueSubPic with room in the queue: nothing newer than the last          *)
(* invalidation of this pass is added.                                        *)

(* Mutant: one subpicture too many.                                           *)
HasRoom_OffByOne == Len(queue) <= QueueSize

HasRoom == Len(queue) < QueueSize

(* Mutant: the subpicture that the invalidated time cuts is let in.           *)
Dropped_Start == bInvalidate /\ pic.start > rtInvalidate

Dropped == bInvalidate /\ pic.stop > rtInvalidate

Put == queue' = Append(queue, pic)

(* Non-blocking; a full queue leaves the subpicture with the thread.          *)
Enqueue ==
    /\ qpc = "enqueue"
    /\ IF ~HasRoom \/ Dropped
       THEN /\ qpc' = "unlock" /\ pos' = 0
            /\ pic' = IF HasRoom THEN NoPic ELSE pic
            /\ UNCHANGED <<queue, rtCur>>
       ELSE /\ Put /\ pic' = NoPic
            /\ qpc' = "advance" /\ UNCHANGED <<pos, rtCur>>
    /\ UNCHANGED <<shown, rtNow, rtNowLast, bInvalidate, rtInvalidate, event,
                   bWait, held, rtStart, rendererVars, callerVars>>

(* "if (m_rtNow > rtCurrent)", then the rest of the segment.                  *)
Advance ==
    /\ qpc = "advance"
    /\ rtCur' = Larger(rtCur, rtNow)
    /\ IF rtCur' < Seg.stop THEN qpc' = "render" /\ UNCHANGED pos ELSE NextSegment
    /\ UNCHANGED <<sharedVars, bWait, held, rtStart, pic, rendererVars, callerVars>>

EndPass ==
    /\ qpc = "unlock"
    /\ qpc' = IF pic = NoPic THEN "top" ELSE "blocked"
    /\ UNCHANGED <<sharedVars, bWait, held, pos, rtStart, rtCur, pic, rendererVars, callerVars>>

(* Blocking, the provider unlocked.                                           *)
EnqueueBlocking ==
    /\ qpc = "blocked" /\ HasRoom
    /\ IF Dropped THEN UNCHANGED queue ELSE Put
    /\ pic' = NoPic /\ qpc' = "top"
    /\ UNCHANGED <<shown, rtNow, rtNowLast, bInvalidate, rtInvalidate, event,
                   bWait, held, pos, rtStart, rtCur, rendererVars, callerVars>>

ThreadProc ==
    \/ Top \/ Wake \/ Grab \/ LockProvider \/ BeginPass \/ Position \/ AtSegment
    \/ RenderPic \/ RenderFails \/ CopyFails \/ Enqueue \/ Advance \/ EndPass
    \/ EnqueueBlocking

-----------------------------------------------------------------------------
(* The video renderer: SetTime, then LookupSubPic for the same time.          *)

SetTime(t) ==
    /\ rpc = "idle" /\ ~bExit
    /\ t = rt \/ seeks < MaxSeeks
    /\ seeks' = IF t = rt THEN seeks ELSE seeks + 1
    /\ rt' = t /\ rtNow' = t /\ rpc' = "checkSeek"
    /\ UNCHANGED <<queue, shown, rtNowLast, bInvalidate, rtInvalidate, event,
                   found, bTry, queueThreadVars, callerVars>>

(* Mutant: a seek in the past goes unnoticed.                                 *)
CheckSeek_Never ==
    /\ rpc = "checkSeek"
    /\ UNCHANGED sharedVars
    /\ rpc' = "setLast"
    /\ UNCHANGED <<rt, found, bTry, seeks, queueThreadVars, callerVars>>

CheckSeek ==
    /\ rpc = "checkSeek"
    /\ IF rtNowLast >= 0 /\ rtNowLast - rtNow >= Frame
       THEN Invalidate(rtNow) ELSE UNCHANGED sharedVars
    /\ rpc' = "setLast"
    /\ UNCHANGED <<rt, found, bTry, seeks, queueThreadVars, callerVars>>

SetLast ==
    /\ rpc = "setLast"
    /\ rtNowLast' = rtNow /\ event' = TRUE
    /\ rpc' = "reuse"
    /\ UNCHANGED <<queue, shown, rtNow, bInvalidate, rtInvalidate,
                   rt, found, bTry, seeks, queueThreadVars, callerVars>>

(* See if the latest subpicture can be reused.                                *)
Reuse ==
    /\ rpc = "reuse"
    /\ bTry' = Blocking
    /\ found' = IF InSegment(shown, rt) THEN shown ELSE NoPic
    /\ shown' = IF shown.segStop <= rt THEN NoPic ELSE shown
    /\ rpc' = IF InSegment(shown, rt) /\ Covers(shown, rt) THEN "save" ELSE "search"
    /\ UNCHANGED <<queue, rtNow, rtNowLast, bInvalidate, rtInvalidate, event,
                   rt, seeks, queueThreadVars, callerVars>>

(* The search pops from the head: what is over, what is shown until something *)
(* better comes, and at most one subpicture whose segment is current; it      *)
(* stops at the exact one, at one in advance, and at the first of the future. *)
StopsAt(p) == p.segStart > rt \/ (p.segStop > rt /\ rt < p.stop)

(* Mutant: a subpicture whose segment is over is taken when there is no other. *)
TakenAt_Over(p, best) ==
    p.segStart <= rt /\ (rt < p.start => best = NoPic \/ best.stop <= rt)

(* Mutant: the first moment of a segment is missed.                           *)
TakenAt_AfterStart(p, best) ==
    /\ InSegment(p, rt) /\ p.segStart < rt
    /\ rt < p.start => best = NoPic \/ best.stop <= rt

TakenAt(p, best) ==
    InSegment(p, rt) /\ (rt < p.start => best = NoPic \/ best.stop <= rt)
KeptAt(p, best) == p.segStart > rt \/ (InSegment(p, rt) /\ ~TakenAt(p, best))

Best[n \in 0 .. QueueSize] ==   \* ppSubPic after n subpictures of the queue
    IF n = 0 THEN found
    ELSE IF n <= Len(queue) /\ TakenAt(queue[n], Best[n - 1]) THEN queue[n] ELSE Best[n - 1]

Search ==
    /\ rpc \in {"search", "searchAgain"}
    /\ LET stops == {n \in 1 .. Len(queue) : StopsAt(queue[n])}
           last  == IF stops = {} THEN Len(queue) ELSE Min(stops)
           popped == IF stops # {} /\ KeptAt(queue[last], Best[last - 1]) THEN last - 1 ELSE last
       IN /\ found' = Best[last]
          /\ queue' = SubSeq(queue, popped + 1, Len(queue))
    /\ rpc' = IF found' = NoPic /\ bTry THEN "ask" ELSE "save"
    /\ UNCHANGED <<shown, rtNow, rtNowLast, bInvalidate, rtInvalidate, event,
                   rt, bTry, seeks, queueThreadVars, callerVars>>

(* Nothing yet: if the provider has something for this time, wait until the   *)
(* queue thread may have it or 250 ms have passed, and search once more.      *)
Ask ==
    /\ rpc = "ask" /\ ~SwapUnderWay
    /\ bTry' = FALSE
    /\ LET s == content[wrapper.prov]
           p == StartPosition(s, rt)
       IN rpc' = IF wrapper.prov # NoProvider /\ p # 0 /\ s[p].start <= rt
                 THEN "searchAgain" ELSE "save"
    /\ UNCHANGED <<sharedVars, rt, found, seeks, queueThreadVars, callerVars>>

Save ==
    /\ rpc = "save"
    /\ shown' = IF found = NoPic THEN shown ELSE found
    /\ found' = NoPic /\ rpc' = "idle"
    /\ UNCHANGED <<queue, rtNow, rtNowLast, bInvalidate, rtInvalidate, event,
                   rt, bTry, seeks, queueThreadVars, callerVars>>

Renderer == (\E t \in Times : SetTime(t)) \/ CheckSeek \/ SetLast \/ Reuse \/ Search \/ Ask \/ Save

-----------------------------------------------------------------------------
(* The user interface.                                                        *)

(* SetSubPicProvider up to Invalidate.  A changed provider is locked and      *)
(* unlocked first, which waits for a pass over an older wrapper only.         *)
Swap(p, next) ==
    /\ wrapper.prov \in {NoProvider, p} \/ (InPass => held = wrapper)
    /\ wrapper' = [gen |-> wrapper.gen + 1, prov |-> p]
    /\ upc' = next

SetSubPicProvider(p) ==
    /\ upc = "idle" /\ wrapper.gen < MaxSwaps
    /\ Swap(p, "swapped")
    /\ UNCHANGED <<sharedVars, bExit, content, pending, edits,
                   queueThreadVars, rendererVars>>

InvalidateAfterSwap ==
    /\ SwapUnderWay
    /\ Invalidate(-1)
    /\ upc' = IF upc = "swapped" THEN "idle" ELSE "closing"
    /\ UNCHANGED <<bExit, wrapper, content, pending, edits,
                   queueThreadVars, rendererVars>>

(* The destructor: the renderer and the decoder are gone by then.             *)
Destroy ==
    /\ upc = "idle" /\ rpc = "idle" /\ pending = <<>>
    /\ bExit' = TRUE /\ upc' = "exiting"
    /\ UNCHANGED <<sharedVars, wrapper, content, pending, edits,
                   queueThreadVars, rendererVars>>

DropProvider ==
    /\ upc = "exiting"
    /\ Swap(NoProvider, "destroying")
    /\ UNCHANGED <<sharedVars, bExit, content, pending, edits,
                   queueThreadVars, rendererVars>>

Close ==    \* CAMThread::Close waits for the thread
    /\ upc = "closing" /\ qpc = "done"
    /\ upc' = "destroyed"
    /\ UNCHANGED <<sharedVars, bExit, wrapper, content, pending, edits,
                   queueThreadVars, rendererVars>>

(* The decoding thread adds a subtitle, or the user interface changes the     *)
(* style or the timing: an edit under the provider's lock, then, the lock     *)
(* released, Invalidate if that stream is still the current one.              *)
Edit(e) ==
    /\ ~bExit /\ pending = <<>> /\ edits < MaxEdits /\ ~InPass
    /\ wrapper.prov # NoProvider /\ content[wrapper.prov] = e[1]
    /\ content' = [content EXCEPT ![wrapper.prov] = e[2]]
    /\ pending' = <<wrapper.prov, e[3]>>
    /\ edits' = edits + 1
    /\ UNCHANGED <<sharedVars, bExit, wrapper, upc, queueThreadVars, rendererVars>>

InvalidateAfterEdit ==
    /\ pending # <<>>
    /\ IF pending[1] = wrapper.prov THEN Invalidate(pending[2]) ELSE UNCHANGED sharedVars
    /\ pending' = <<>>
    /\ UNCHANGED <<bExit, wrapper, content, upc, edits, queueThreadVars, rendererVars>>

CallerContinues == InvalidateAfterSwap \/ DropProvider \/ Close
Caller ==
    \/ \E p \in Providers \cup {NoProvider} : SetSubPicProvider(p)
    \/ Destroy \/ CallerContinues

Editor == (\E e \in Edits : Edit(e)) \/ InvalidateAfterEdit

Terminated == upc = "destroyed" /\ UNCHANGED vars

Next == ThreadProc \/ Renderer \/ Caller \/ Editor \/ Terminated

Spec == Init /\ [][Next]_vars

(* The queue thread and the renderer are scheduled; what the other threads    *)
(* began they finish.                                                         *)
FairSpec ==
    /\ Spec
    /\ WF_vars(ThreadProc) /\ WF_vars(Renderer)
    /\ WF_vars(CallerContinues) /\ WF_vars(InvalidateAfterEdit)

-----------------------------------------------------------------------------
SubPic == [start : Int, stop : Int, segStart : Int, segStop : Int, src : SUBSET (Texts \cup {NoText})]
Wrapper == [gen : Nat, prov : Providers \cup {NoProvider}]
QueueLabels == {"top", "wait", "grab", "lock", "begin", "position", "segment", "render",
                "enqueue", "advance", "unlock", "blocked", "done"}

(* Types, and the bound of the queue.                                         *)
TypeOK ==
    /\ queue \in Seq(SubPic) /\ Len(queue) <= QueueSize
    /\ shown \in SubPic /\ found \in SubPic /\ pic \in SubPic
    /\ rtNow \in Nat /\ rt \in Nat /\ rtNowLast \in Nat \cup {ERROR}
    /\ bInvalidate \in BOOLEAN /\ rtInvalidate \in Int
    /\ {event, bExit, bWait, bTry} \subseteq BOOLEAN
    /\ wrapper \in Wrapper /\ held \in Wrapper
    /\ content \in [Providers -> Scripts]
    /\ qpc \in QueueLabels /\ pos \in Nat /\ rtStart \in Int /\ rtCur \in Int
    /\ rpc \in {"idle", "checkSeek", "setLast", "reuse", "search", "searchAgain", "ask", "save"}
    /\ upc \in {"idle", "swapped", "exiting", "destroying", "closing", "destroyed"}
    /\ pending \in {<<>>} \cup (Providers \X Int)
    /\ seeks \in Nat /\ edits \in Nat

(* The queue is ordered by time, "We want the queue to stay sorted": the      *)
(* searches from the head and the cut from the tail rely on it.  The thread   *)
(* renders from the end of the tail it read before, while the tail is being   *)
(* cut and the head popped under it and scripts and providers change.         *)
QueueSorted == \A i, j \in 1 .. Len(queue) : i < j => queue[i].stop < queue[j].stop

(* After Invalidate and until the queue thread starts another pass, nothing   *)
(* that ends after the invalidated time is in the queue, neither left over    *)
(* nor added since by the pass under way or by the thread blocked on a full   *)
(* queue.                                                                     *)
InvalidatedIsGone ==
    bInvalidate => \A i \in 1 .. Len(queue) : queue[i].stop <= rtInvalidate

(* What LookupSubPic is about to show belongs to the segment of its time,     *)
(* however the queue moved between its searches.                              *)
LookupIsCurrent == rpc = "save" /\ found # NoPic => InSegment(found, rt)

(* Nobody is in the middle of a call, and the queue thread is asleep with no  *)
(* wake-up on its way.                                                        *)
Settled ==
    /\ qpc = "wait" /\ ~event
    /\ rpc = "idle" /\ upc = "idle" /\ pending = <<>>

(* A wake-up is never lost, and no change of the time, of the provider or of   *)
(* the subtitles makes the thread skip a segment: when everything is at rest  *)
(* and the queue's time is the renderer's (Invalidate sets it back until the  *)
(* next SetTime), each segment that is not over and begins within the next    *)
(* minute has been rendered up to its end, in the queue or on screen.         *)
Shows(p, g) == p.segStart <= g.start /\ p.segStop >= g.stop

RenderedAhead ==
    Settled /\ rtNow = rt /\ wrapper.prov # NoProvider =>
        \A i \in DOMAIN content[wrapper.prov] :
            LET g == content[wrapper.prov][i]
            IN g.stop > rtNow /\ g.start < rtNow + Ahead
               => Shows(shown, g) \/ \E n \in 1 .. Len(queue) : Shows(queue[n], g)

(* The image on screen is the one the subtitles have for this time.           *)
UpToDate ==
    wrapper.prov # NoProvider =>
        LET s == content[wrapper.prov]
            p == StartPosition(s, rt)
        IN p # 0 /\ s[p].start <= rt => InSegment(shown, rt) /\ shown.src = {s[p].text}

(* However often the time changes, forwards or backwards, once it stays the   *)
(* renderer shows what the subtitles have for it and keeps showing it.        *)
EventuallyUpToDate == <>[](bExit \/ rpc = "reuse" \/ UpToDate)

(* SubPicQueueImpl.cpp:217, "We want the queue to stay sorted so if we seek   *)
(* in the past, we invalidate": the thread renders only what comes after the  *)
(* end of the queue, so that a seek in the past without it would leave the    *)
(* subtitle of that time out.                                                 *)
SeekBackIsRendered ==
    Settled /\ rtNow = rt /\ wrapper.prov # NoProvider =>
        \A i \in DOMAIN content[wrapper.prov] :
            LET g == content[wrapper.prov][i]
            IN g.start <= rt /\ rt < g.stop
               => Shows(shown, g) \/ \E n \in 1 .. Len(queue) : Shows(queue[n], g)

(* SubPicQueueImpl.cpp:262, "If we invalidate in the past, always give the    *)
(* queue a chance to re-render the modified subtitles": after a change of     *)
(* style the old image does not stay on screen once everything is at rest.    *)
RestyledIsShown ==
    Settled /\ wrapper.prov # NoProvider /\ InSegment(shown, rt)
        => shown.src = {TextAt(wrapper.prov, rt)}

(* The destructor returns: a thread that sleeps, renders or is blocked on a   *)
(* full queue notices the exit flag.                                          *)
DestroyReturns == upc = "exiting" ~> upc = "destroyed"
=============================================================================
