--------------------------- MODULE SubtitleInputPin ---------------------------
(***************************************************************************)
(* CSubtitleInputPin: the graph delivers subtitle samples to the pin, a    *)
(* thread of the pin's own decodes them into the subtitle stream and       *)
(* invalidates the subpicture queue from the earliest of a batch.          *)
(*                                                                         *)
(* Two locks are shared: m_mutexQueue guards the sample queue, m_pSubLock  *)
(* (the player's m_csSubLock) the stream.  The two flags that stop the     *)
(* thread are read and set without either.  The graph's calls (Receive,    *)
(* EndOfStream, NewSegment, the connection of the pin, its destruction)    *)
(* come one at a time; m_csReceive and the filter's lock see to it.        *)
(*                                                                         *)
(* A stream of text is drawn by the player's own parser or by libass.      *)
(***************************************************************************)
EXTENDS Naturals, Sequences

CONSTANTS Starts,       \* start times of samples
          Tables,       \* the start times of the subtitles that one sample brings
          Headers,      \* subtitle headers, each with the styles it defines
          Free, Graph, Decoder,   \* owners of a lock
          None,         \* no header, no time to invalidate from, no argument
          Kinds,        \* of subtitles: MEDIATYPE_Text, or MEDIATYPE_Subtitle of subtype
                        \* UTF8, WEBVTT, SSA and ASS, or a bitmap (VobSub, PGS, DVB)
          MaxSamples,   \* bound: samples delivered
          MaxSegments   \* bound: new segments and connections

ASSUME PinAssumption ==
    /\ Starts \subseteq Nat /\ Tables \subseteq SUBSET Nat
    /\ Free # Graph /\ Free # Decoder /\ Graph # Decoder
    /\ None \notin Headers \cup Nat
    /\ Kinds \subseteq {"text", "utf8", "vtt", "ass", "bitmap"}
    /\ MaxSamples \in Nat /\ MaxSegments \in Nat

VARIABLES queue,        \* m_sampleQueue
          lastHeader,   \* m_lastHeader
          bStop, bExit, \* m_bStopDecoding, m_bExitDecodingThread
          mutex,        \* owner of m_mutexQueue
          subLock,      \* owner of m_pSubLock
          kind,         \* m_mt, by what the pin tells apart
          stream,       \* m_pSubStream: 0 when null, else its connection's number
          entries,      \* the subtitles of the stream
          styles,       \* the headers the stream has taken its styles from
          libass,       \* m_LibassContext.IsLibassActive()
          vtt,          \* m_subtitleType = Subtitle::VTT
          allowClear,   \* m_webvtt_allow_clear
          unannounced,  \* entries added and not yet invalidated for, whoever draws them
          dpc, rtInvalidate,      \* the decoding thread
          gpc, op, arg,           \* the graph's call under way
          segment, sent           \* connections and segments begun; samples sent

queueVars == <<queue, lastHeader>>
streamVars == <<kind, stream, entries, styles, libass, vtt, allowClear, unannounced>>
decoderVars == <<dpc, rtInvalidate>>
graphVars == <<gpc, op, arg, segment, sent>>
vars == <<queueVars, bStop, bExit, mutex, subLock, streamVars, decoderVars, graphVars>>

Header(h) == [kind |-> "header", header |-> h, seg |-> segment]
EndMark == [kind |-> "end", seg |-> segment]

(* A sample is blank; or one subtitle with the sample's times ("line"); or,   *)
(* for MEDIATYPE_Text, entries with times of their own (GAB1, "table") or a   *)
(* whole file (GAB2), whose type the stream takes over.  Add may find nothing *)
(* to add in any of them.                                                     *)
Files == {"file", "vttfile"}
Forms == {"blank", "line", "table"} \cup Files
Sample(t, h, f, T) ==
    [kind |-> "sample", start |-> t, header |-> h, seg |-> segment, form |-> f, times |-> T]
(* SRT and WebVTT may come as one blob with the connection.                   *)
Blob == [start |-> 0, at |-> 0, header |-> None, seg |-> 0]

Init ==
    /\ queue = <<>> /\ lastHeader = None
    /\ bStop = FALSE /\ bExit = FALSE
    /\ mutex = Free /\ subLock = Free
    /\ kind \in Kinds /\ stream = 0 /\ entries = {} /\ styles = {}
    /\ libass = FALSE /\ vtt = FALSE /\ allowClear = FALSE /\ unannounced = {}
    /\ dpc = "top" /\ rtInvalidate = None
    /\ gpc = "idle" /\ op = "none" /\ arg = None
    /\ segment = 0 /\ sent = 0

-----------------------------------------------------------------------------
(* The decoding thread, DecodeSamples.                                        *)
NeedStop == bStop \/ bExit

(* Mutant: a sample is queued and nobody told.                                *)
Notify_Never == UNCHANGED dpc

(* notify_one: the only thread that waits on m_condQueueReady.                *)
Notify == dpc' = IF dpc = "sleeping" THEN "woken" ELSE dpc

Top ==
    /\ dpc = "top"
    /\ IF bExit THEN dpc' = "done" /\ UNCHANGED mutex
       ELSE mutex = Free /\ mutex' = Decoder /\ dpc' = "wait"
    /\ UNCHANGED <<queueVars, bStop, bExit, subLock, streamVars, rtInvalidate, graphVars>>

(* The predicate, and then the wait, which gives the mutex back.              *)
TestQueue ==
    /\ dpc = "wait"
    /\ IF queue # <<>> \/ NeedStop
       THEN mutex' = Free /\ dpc' = "check"
       ELSE UNCHANGED mutex /\ dpc' = "block"
    /\ UNCHANGED <<queueVars, bStop, bExit, subLock, streamVars, rtInvalidate, graphVars>>

Block ==
    /\ dpc = "block"
    /\ mutex' = Free /\ dpc' = "sleeping"
    /\ UNCHANGED <<queueVars, bStop, bExit, subLock, streamVars, rtInvalidate, graphVars>>

Wake ==
    /\ dpc = "woken" /\ mutex = Free
    /\ mutex' = Decoder /\ dpc' = "wait"
    /\ UNCHANGED <<queueVars, bStop, bExit, subLock, streamVars, rtInvalidate, graphVars>>

Check ==
    /\ dpc = "check"
    /\ dpc' = IF NeedStop THEN "top" ELSE "enter"
    /\ UNCHANGED <<queueVars, bStop, bExit, mutex, subLock, streamVars, rtInvalidate, graphVars>>

EnterSubLock ==
    /\ dpc = "enter" /\ subLock = Free
    /\ subLock' = Decoder /\ dpc' = "relock"
    /\ UNCHANGED <<queueVars, bStop, bExit, mutex, streamVars, rtInvalidate, graphVars>>

Relock ==
    /\ dpc = "relock" /\ mutex = Free
    /\ mutex' = Decoder /\ dpc' = "decode"
    /\ UNCHANGED <<queueVars, bStop, bExit, subLock, streamVars, rtInvalidate, graphVars>>

(* The subtitles of a sample; "at" is the sample's own time.  A file takes    *)
(* the place of what the stream had.                                          *)
Added(s) == {[start |-> t, at |-> s.start, header |-> s.header, seg |-> s.seg] : t \in s.times}
Kept(s, E) == IF s.form \in Files THEN {} ELSE E
OwnParser == kind # "bitmap" /\ ~libass

(* Mutant: the latest sample of the batch wins.                               *)
Earliest_Last(t) == t

Earliest(t) == IF rtInvalidate = None \/ t < rtInvalidate THEN t ELSE rtInvalidate

(* The own parser and libass both add to the styles they have.                *)
ApplyHeaderChange(s) ==
    styles' = IF s.kind = "header" THEN styles \cup {s.header} ELSE styles

(* DecodeSample: a header adds its styles, a sample its entries.  Only those  *)
(* the own parser added ask for an invalidation, from the sample's time.      *)
DecodeSample(s) ==
    /\ ApplyHeaderChange(s)
    /\ IF s.kind = "sample"
       THEN /\ entries' = Kept(s, entries) \cup Added(s)
            /\ unannounced' = Kept(s, unannounced) \cup Added(s)
            /\ vtt' = IF s.form \in Files THEN s.form = "vttfile" ELSE vtt
            /\ allowClear' = IF kind \in {"utf8", "vtt"} /\ vtt /\ OwnParser
                                 /\ s.form # "blank" THEN TRUE ELSE allowClear
            /\ rtInvalidate' = IF OwnParser /\ s.form # "blank" THEN Earliest(s.start)
                               ELSE rtInvalidate
       ELSE UNCHANGED <<entries, unannounced, vtt, allowClear, rtInvalidate>>

Decode ==
    /\ dpc = "decode" /\ queue # <<>> /\ ~NeedStop
    /\ DecodeSample(Head(queue))
    /\ queue' = Tail(queue)
    /\ UNCHANGED <<lastHeader, bStop, bExit, mutex, subLock, kind, stream, libass, dpc,
                   graphVars>>

(* Mutant: m_pSubLock is kept for the invalidation.                           *)
EndBatch_SubLocked ==
    /\ dpc = "decode" /\ (queue = <<>> \/ NeedStop)
    /\ IF rtInvalidate = None THEN dpc' = "top" /\ mutex' = Free /\ subLock' = Free
       ELSE dpc' = "invalidate" /\ UNCHANGED <<mutex, subLock>>
    /\ UNCHANGED <<queueVars, bStop, bExit, streamVars, rtInvalidate, graphVars>>

(* Mutant: both locks are released at the end of the batch.                   *)
EndBatch_Unlocked ==
    /\ dpc = "decode" /\ (queue = <<>> \/ NeedStop)
    /\ subLock' = Free /\ mutex' = Free
    /\ dpc' = IF rtInvalidate = None THEN "top" ELSE "invalidate"
    /\ UNCHANGED <<queueVars, bStop, bExit, streamVars, rtInvalidate, graphVars>>

(* The end of the batch.  m_pSubLock is released, m_mutexQueue only after     *)
(* the invalidation.                                                          *)
EndBatch ==
    /\ dpc = "decode" /\ (queue = <<>> \/ NeedStop)
    /\ subLock' = Free
    /\ IF rtInvalidate = None THEN dpc' = "top" /\ mutex' = Free
       ELSE dpc' = "invalidate" /\ UNCHANGED mutex
    /\ UNCHANGED <<queueVars, bStop, bExit, streamVars, rtInvalidate, graphVars>>

(* InvalidateSubtitle(t, m_pSubStream). *)
Announce(t) == unannounced' = {e \in unannounced : e.start < t}

InvalidateSubtitle ==
    /\ dpc = "invalidate"
    /\ Announce(rtInvalidate)
    /\ rtInvalidate' = None /\ mutex' = Free /\ dpc' = "top"
    /\ UNCHANGED <<queueVars, bStop, bExit, subLock, kind, stream, entries, styles,
                   libass, vtt, allowClear, graphVars>>

DecodeSamples == Top \/ TestQueue \/ Block \/ Wake \/ Check \/ EnterSubLock \/ Relock
                 \/ Decode \/ EndBatch \/ InvalidateSubtitle

-----------------------------------------------------------------------------
(* The graph.                                                                 *)
Push(item) == mutex = Free /\ queue' = Append(queue, item) /\ Notify

(* Receive: a media type with a header other than the last goes first.  The   *)
(* splitter attaches it when the header changes, and may attach it again.     *)
Receive(t, h, f, T) ==
    /\ gpc = "idle" /\ stream # 0 /\ sent < MaxSamples
    /\ h = None <=> kind # "ass"
    /\ T \in (CASE f = "blank" -> {{}}
               [] f = "line" -> {{}, {t}}
               [] OTHER -> IF kind = "text" THEN Tables ELSE {})
    /\ gpc' = IF kind = "ass" /\ h # lastHeader THEN "header" ELSE "sample"
    /\ arg' = Sample(t, h, f, T) /\ sent' = sent + 1
    /\ UNCHANGED <<queueVars, bStop, bExit, mutex, subLock, streamVars, decoderVars,
                   op, segment>>

PushHeader ==
    /\ gpc = "header" /\ Push(Header(arg.header))
    /\ lastHeader' = arg.header /\ gpc' = "sample"
    /\ UNCHANGED <<bStop, bExit, mutex, subLock, streamVars, rtInvalidate,
                   op, arg, segment, sent>>

PushSample ==
    /\ gpc = "sample" /\ Push(arg)
    /\ gpc' = "idle" /\ arg' = None
    /\ UNCHANGED <<lastHeader, bStop, bExit, mutex, subLock, streamVars, rtInvalidate,
                   op, segment, sent>>

(* A sample that has no times or no data is not queued; its header was.       *)
DropSample ==
    /\ gpc = "sample" /\ gpc' = "idle" /\ arg' = None
    /\ UNCHANGED <<queueVars, bStop, bExit, mutex, subLock, streamVars, decoderVars,
                   op, segment, sent>>

EndOfStream ==
    /\ gpc = "idle" /\ stream # 0 /\ sent < MaxSamples
    /\ Push(EndMark) /\ sent' = sent + 1
    /\ UNCHANGED <<lastHeader, bStop, bExit, mutex, subLock, streamVars, rtInvalidate,
                   gpc, op, arg, segment>>

(* InvalidateSamples begins NewSegment, BreakConnect, ReceiveConnection on a  *)
(* connected pin, and CompleteConnect.                                        *)
InvalidateSamples(o, a) ==
    /\ bStop' = TRUE /\ op' = o /\ arg' = a /\ gpc' = "clear"
    /\ segment' = IF o \in {"segment", "connect"} THEN segment + 1 ELSE segment

Continue ==
    UNCHANGED <<queueVars, bExit, mutex, subLock, streamVars, decoderVars, sent>>

NewSegment(t) ==
    /\ gpc = "idle" /\ stream # 0 /\ segment < MaxSegments
    /\ InvalidateSamples("segment", [start |-> t]) /\ Continue

CompleteConnect(k, h) ==
    /\ gpc = "idle" /\ stream = 0 /\ ~bExit /\ segment < MaxSegments
    /\ k \in {"text", "bitmap"} => h = None
    /\ InvalidateSamples("connect", [kind |-> k, header |-> h]) /\ Continue

BreakConnect ==
    /\ gpc = "idle" /\ stream # 0
    /\ InvalidateSamples("break", None) /\ Continue

(* Mutant: the thread is stopped and the samples are left to it.              *)
ClearSamples_Stop ==
    /\ gpc = "clear" /\ mutex = Free
    /\ bStop' = FALSE /\ gpc' = op
    /\ UNCHANGED <<queueVars, bExit, mutex, subLock, streamVars, decoderVars,
                   op, arg, segment, sent>>

ClearSamples ==
    /\ gpc = "clear" /\ mutex = Free
    /\ queue' = <<>> /\ bStop' = FALSE
    /\ gpc' = op
    /\ UNCHANGED <<lastHeader, bExit, mutex, subLock, streamVars, decoderVars,
                   op, arg, segment, sent>>

Return == gpc' = "idle" /\ op' = "none" /\ arg' = None /\ UNCHANGED <<segment, sent>>

(* The rest of NewSegment: the stream is emptied under m_pSubLock, then       *)
(* invalidated without it.                                                    *)
EmptyStream ==
    /\ gpc = "segment" /\ subLock = Free
    /\ IF vtt /\ ~allowClear THEN UNCHANGED <<entries, unannounced>>
       ELSE entries' = {} /\ unannounced' = {}
    /\ gpc' = "announce"
    /\ UNCHANGED <<queueVars, bStop, bExit, mutex, subLock, kind, stream, styles, libass, vtt,
                   allowClear, decoderVars, op, arg, segment, sent>>

AnnounceSegment ==
    /\ gpc = "announce" /\ Announce(arg.start) /\ Return
    /\ UNCHANGED <<queueVars, bStop, bExit, mutex, subLock, kind, stream, entries, styles,
                   libass, vtt, allowClear, decoderVars>>

(* A new stream, with the header of the media type if that has one.  Then     *)
(* libass may take over, if the settings say so for SRT or for SSA and ASS.   *)
Connected ==
    /\ gpc = "connect" /\ Return
    /\ kind' = arg.kind /\ stream' = segment
    /\ entries' = IF arg.kind \in {"utf8", "vtt"} /\ arg.header # None THEN {Blob} ELSE {}
    /\ styles' = IF arg.kind = "ass" THEN {arg.header} \ {None} ELSE {}
    /\ libass' \in (IF arg.kind \in {"utf8", "ass"} /\ arg.header # None THEN BOOLEAN
                                                                       ELSE {FALSE})
    /\ vtt' = (arg.kind = "vtt") /\ allowClear' = FALSE /\ unannounced' = {}
    /\ lastHeader' = IF arg.kind = "ass" THEN arg.header ELSE None
    /\ UNCHANGED <<queue, bStop, bExit, mutex, subLock, decoderVars>>

Disconnected ==
    /\ gpc = "break" /\ Return
    /\ stream' = 0 /\ entries' = {} /\ styles' = {} /\ libass' = FALSE /\ vtt' = FALSE
    /\ allowClear' = FALSE /\ unannounced' = {}
    /\ UNCHANGED <<queueVars, bStop, bExit, mutex, subLock, kind, decoderVars>>

(* The destructor, of a pin that has been disconnected: the flags, the        *)
(* wake-up, the join.                                                         *)
Destroy ==
    /\ gpc = "idle" /\ stream = 0 /\ ~bExit
    /\ bExit' = TRUE /\ bStop' = TRUE /\ gpc' = "notify"
    /\ UNCHANGED <<queueVars, mutex, subLock, streamVars, decoderVars, op, arg, segment, sent>>

NotifyExit ==
    /\ gpc = "notify" /\ Notify /\ gpc' = "join"
    /\ UNCHANGED <<queueVars, bStop, bExit, mutex, subLock, streamVars, rtInvalidate,
                   op, arg, segment, sent>>

Join ==
    /\ gpc = "join" /\ dpc = "done" /\ gpc' = "gone"
    /\ UNCHANGED <<queueVars, bStop, bExit, mutex, subLock, streamVars, decoderVars,
                   op, arg, segment, sent>>

GraphContinues == PushHeader \/ PushSample \/ DropSample \/ ClearSamples \/ EmptyStream
                  \/ AnnounceSegment \/ Connected \/ Disconnected \/ NotifyExit \/ Join
GraphCalls ==
    \/ \E t \in Starts, h \in Headers \cup {None}, f \in Forms :
          \E T \in Tables \cup {{}, {t}} : Receive(t, h, f, T)
    \/ EndOfStream
    \/ \E t \in Starts : NewSegment(t)
    \/ \E k \in Kinds, h \in Headers \cup {None} : CompleteConnect(k, h)
    \/ BreakConnect \/ Destroy

Next == DecodeSamples \/ GraphContinues \/ GraphCalls

Spec == Init /\ [][Next]_vars

(* Both threads are scheduled.  While InvalidateSamples waits for the mutex   *)
(* the decoding thread takes it and gives it back in a busy loop; that a lock *)
(* given back again and again is one day had needs strong fairness.           *)
FairSpec == Spec /\ WF_vars(DecodeSamples) /\ SF_vars(GraphContinues)

-----------------------------------------------------------------------------
DecoderLabels == {"top", "wait", "block", "sleeping", "woken", "check", "enter",
                  "relock", "decode", "invalidate", "done"}
GraphLabels == {"idle", "header", "sample", "clear", "segment", "announce", "connect",
                "break", "notify", "join", "gone"}
Entries == [start : Nat, at : Nat, header : Headers \cup {None}, seg : Nat]
Samples == [kind : {"sample"}, start : Starts, header : Headers \cup {None}, seg : Nat,
            form : Forms, times : SUBSET Nat]
Items == [kind : {"header"}, header : Headers, seg : Nat] \cup [kind : {"end"}, seg : Nat]
         \cup Samples

(* Types, with who holds which lock.                                          *)
TypeOK ==
    /\ queue \in Seq(Items) /\ lastHeader \in Headers \cup {None}
    /\ bStop \in BOOLEAN /\ bExit \in BOOLEAN
    /\ mutex = IF dpc \in {"wait", "block", "decode", "invalidate"} THEN Decoder ELSE Free
    /\ subLock = IF dpc \in {"relock", "decode"} THEN Decoder ELSE Free
    /\ kind \in Kinds /\ stream \in Nat /\ entries \subseteq Entries /\ styles \subseteq Headers
    /\ libass \in BOOLEAN /\ vtt \in BOOLEAN /\ allowClear \in BOOLEAN
    /\ unannounced \subseteq entries
    /\ dpc \in DecoderLabels /\ rtInvalidate \in Nat \cup {None}
    /\ gpc \in GraphLabels /\ op \in {"none", "segment", "connect", "break"}
    /\ segment \in Nat /\ sent \in Nat

(* NewSegment and a new connection leave nothing of what was delivered        *)
(* before: when they have returned, every subtitle of the stream and every    *)
(* sample still to be decoded was delivered since, although the thread was in *)
(* the middle of a batch when they came.  Only a WebVTT blob stays, and       *)
(* NewSegment does not touch a stream that has taken a WebVTT file of GAB2.   *)
SegmentClean ==
    gpc = "idle" /\ stream # 0 =>
        /\ ~(kind = "text" /\ vtt) => \A e \in entries : e.seg \in {0, segment}
        /\ \A i \in DOMAIN queue : queue[i].seg = segment

(* A text subtitle the own parser added is still to be invalidated for only   *)
(* while the thread is in its batch: when the batch is over the subpicture    *)
(* queue has been told of a time no later than the start of each of its       *)
(* subtitles, in whatever order they came and however the batch was cut       *)
(* short.  What a GAB table or file puts before its own sample's time is not  *)
(* announced, nor is anything that libass draws.                              *)
BatchAnnounced ==
    OwnParser /\ dpc \notin {"decode", "invalidate"} => \A e \in unannounced : e.start < e.at

(* The thread works on m_pSubStream, or names it in an invalidation, only     *)
(* while there is one; and as the pin is destroyed only when there is none,   *)
(* it does not call InvalidateSubtitle, a method of the derived class, on a   *)
(* pin whose derived part is gone.                                            *)
StreamInUse ==
    /\ dpc = "decode" /\ queue # <<>> /\ ~NeedStop => stream # 0
    /\ dpc = "invalidate" => stream # 0 /\ ~bExit

(* Receive queues a new header "so it is applied in decode order, ahead of    *)
(* the samples that reference the new styles" (SubtitleInputPin.cpp:281).     *)
StylesFirst == kind = "ass" => \A e \in entries : e.header \in styles

(* What was queued is decoded, or dropped by a new segment: no wake-up of the *)
(* thread is lost while the pin lives.                                        *)
QueueDrains == queue # <<>> ~> queue = <<>>
=============================================================================
