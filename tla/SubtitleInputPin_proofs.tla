------------------------ MODULE SubtitleInputPin_proofs ------------------------
(***************************************************************************)
(* Proofs about SubtitleInputPin for any start times and headers and any   *)
(* number of samples, segments and connections.                            *)
(*                                                                         *)
(* The properties speak of moments (the graph's call has returned, the     *)
(* batch is over).  The invariant says what makes them come true on the    *)
(* way: the queue is empty from ClearSamples to the end of the call, and a *)
(* batch in progress of the own parser remembers a time no later than each *)
(* subtitle added whose time is not before its sample's.                   *)
(***************************************************************************)
EXTENDS SubtitleInputPin, TLAPS

(* What the graph's call carries, and between which calls it may come.        *)
CallInv ==
    /\ gpc = "clear" => op \in {"segment", "connect", "break"}
    /\ gpc \in {"header", "sample"} => arg \in Samples /\ arg.seg = segment
    /\ gpc = "header" => arg.header \in Headers
    /\ gpc = "connect" \/ (gpc = "clear" /\ op = "connect")
          => arg \in [kind : Kinds, header : Headers \cup {None}]
    /\ gpc \in {"header", "sample"} => stream # 0
    /\ gpc \in {"segment", "announce"} \/ (gpc = "clear" /\ op = "segment") => stream # 0
    /\ bExit => stream = 0 /\ gpc \in {"notify", "join", "gone"}

(* The queue is empty from ClearSamples to the end of the call, and while     *)
(* there is no stream.                                                        *)
ClearedInv ==
    gpc \in {"segment", "announce", "connect", "break"} \/ stream = 0 => queue = <<>>

(* A batch has a time to announce only if it has decoded something, and the   *)
(* pin then has a stream.                                                     *)
BatchInv ==
    /\ rtInvalidate # None => dpc \in {"decode", "invalidate"} /\ stream # 0
    /\ rtInvalidate # None => gpc \notin {"connect", "break"}
    /\ dpc = "invalidate" => rtInvalidate # None
    /\ OwnParser => \A e \in unannounced :
                        e.start < e.at \/ (rtInvalidate # None /\ rtInvalidate <= e.start)

(* A sample fits the stream it is for: only MEDIATYPE_Text has files, and     *)
(* what is blank brings nothing.  libass draws only SRT, SSA and ASS.         *)
Fits(s) == s.kind = "sample" => /\ s.form = "blank" => s.times = {}
                                /\ s.form \in Files => kind = "text"
KindInv ==
    /\ \A i \in DOMAIN queue : Fits(queue[i])
    /\ gpc \in {"header", "sample"} => Fits(arg)
    /\ vtt => kind \in {"text", "vtt"}
    /\ libass => kind \in {"utf8", "ass"}

(* What was delivered before the current segment is gone once the stream has  *)
(* been emptied; only a blob, or a WebVTT file, may be kept.                  *)
SegmentInv ==
    /\ kind = "vtt" /\ vtt /\ ~allowClear => \A e \in entries : e.seg = 0
    /\ gpc \in {"idle", "header", "sample", "announce"} /\ stream # 0
          => /\ ~(kind = "text" /\ vtt) => \A e \in entries : e.seg \in {0, segment}
             /\ \A i \in DOMAIN queue : queue[i].seg = segment

IInv == TypeOK /\ CallInv /\ ClearedInv /\ BatchInv /\ KindInv /\ SegmentInv

-----------------------------------------------------------------------------
(* What DecodeSamples takes off the front of the queue is an item, and what   *)
(* stays behind is a queue of the items that were there.                      *)
LEMMA HeadOfQueue ==
  ASSUME queue \in Seq(Items), queue # <<>>
  PROVE  /\ Head(queue) \in Items /\ Head(queue) = queue[1] /\ 1 \in DOMAIN queue
         /\ Tail(queue) \in Seq(Items)
         /\ \A i \in DOMAIN Tail(queue) : i + 1 \in DOMAIN queue
                                          /\ Tail(queue)[i] = queue[i + 1]
  OBVIOUS

(* A push leaves the items of the queue where they are.                       *)
LEMMA AppendToQueue ==
  ASSUME queue \in Seq(Items), NEW x \in Items
  PROVE  /\ Append(queue, x) \in Seq(Items)
         /\ \A i \in DOMAIN Append(queue, x) :
               \/ i \in DOMAIN queue /\ Append(queue, x)[i] = queue[i]
               \/ Append(queue, x)[i] = x
  OBVIOUS

(* Before the first connection nothing is queued, decoded or announced.       *)
THEOREM InitIInv == Init => IInv
  <1> SUFFICES ASSUME Init PROVE IInv
    OBVIOUS
  <1>1. <<>> \in Seq(Items)
    OBVIOUS
  <1>2. TypeOK
    BY <1>1, PinAssumption DEF Init, TypeOK, DecoderLabels, GraphLabels
  <1>3. CallInv /\ ClearedInv /\ BatchInv /\ KindInv /\ SegmentInv
    BY DEF Init, CallInv, ClearedInv, BatchInv, KindInv,
         Fits, OwnParser, SegmentInv
  <1> QED BY <1>2, <1>3 DEF IInv

(* DecodeSamples takes one sample off the queue and decodes it: a subtitle    *)
(* that must be announced leaves a time to invalidate from no later than its  *)
(* start, and no later than the time left by those before it.                 *)
LEMMA DecodeKeepsIInv == IInv /\ Decode => IInv'
  <1> SUFFICES ASSUME IInv, Decode PROVE IInv'
    OBVIOUS
  <1> USE PinAssumption DEF queueVars, streamVars, decoderVars, graphVars
  <1>0. TypeOK /\ CallInv /\ ClearedInv /\ BatchInv /\ KindInv /\ SegmentInv /\ Decode
    BY DEF IInv
  <1> DEFINE s == Head(queue)
  <1>1. /\ s \in Items /\ s = queue[1] /\ 1 \in DOMAIN queue
        /\ queue' \in Seq(Items)
        /\ \A i \in DOMAIN queue' : i + 1 \in DOMAIN queue /\ queue'[i] = queue[i + 1]
    BY <1>0, HeadOfQueue DEF Decode, TypeOK
  <1>2. dpc = "decode" /\ stream # 0 /\ UNCHANGED <<dpc, gpc, op, arg, stream, segment,
                                                    kind, libass, bExit, mutex, subLock,
                                                    lastHeader, bStop, sent>>
    BY <1>0 DEF Decode, ClearedInv
  <1>3. Fits(s)
    BY <1>0, <1>1 DEF KindInv
  <1>4. CallInv' /\ ClearedInv'
    BY <1>0, <1>2 DEF CallInv, ClearedInv, Decode
  <1>5. CASE s.kind = "sample"
    <2>1. s \in Samples
      BY <1>1, <1>5 DEF Items
    <2>2. /\ s.start \in Nat /\ s.seg \in Nat /\ s.header \in Headers \cup {None}
          /\ s.times \subseteq Nat
      BY <2>1 DEF Samples
    <2>3. /\ styles' = styles
          /\ entries' = Kept(s, entries) \cup Added(s)
          /\ unannounced' = Kept(s, unannounced) \cup Added(s)
          /\ vtt' = IF s.form \in Files THEN s.form = "vttfile" ELSE vtt
          /\ allowClear' = IF kind \in {"utf8", "vtt"} /\ vtt /\ OwnParser
                              /\ s.form # "blank" THEN TRUE ELSE allowClear
          /\ rtInvalidate' = IF OwnParser /\ s.form # "blank" THEN Earliest(s.start)
                             ELSE rtInvalidate
      BY <1>0, <1>5 DEF Decode, DecodeSample, ApplyHeaderChange
    <2>4. /\ Added(s) \subseteq Entries
          /\ \A e \in Added(s) : e.at = s.start /\ e.seg = s.seg
      BY <2>2 DEF Added, Entries
    <2>5. \A E : Kept(s, E) \subseteq E
      BY DEF Kept
    <2>6. TypeOK'
      <3>1. entries' \subseteq Entries /\ unannounced' \subseteq entries'
        BY <1>0, <2>3, <2>4 DEF TypeOK, Kept
      <3>2. vtt' \in BOOLEAN /\ allowClear' \in BOOLEAN
        <4>1. vtt \in BOOLEAN /\ allowClear \in BOOLEAN
          BY <1>0 DEF TypeOK
        <4> QED BY <2>3, <4>1, Zenon
      <3>3. rtInvalidate' \in Nat \cup {None}
        BY <1>0, <2>2, <2>3 DEF TypeOK, Earliest
      <3> QED BY <1>0, <1>1, <1>2, <2>3, <3>1, <3>2, <3>3 DEF TypeOK
    <2>7. BatchInv'
      <3>1. ASSUME OwnParser', NEW e \in unannounced'
            PROVE  e.start < e.at \/ (rtInvalidate' # None /\ rtInvalidate' <= e.start)
        <4>1. OwnParser
          BY <1>2, <3>1 DEF OwnParser
        <4>2. rtInvalidate \in Nat \cup {None} /\ e.start \in Nat
          BY <1>0, <2>3, <2>4, <2>5 DEF TypeOK, Entries
        <4>3. CASE s.form = "blank"
          <5>1. e \in unannounced /\ rtInvalidate' = rtInvalidate
            BY <1>3, <1>5, <2>3, <2>5, <4>3 DEF Fits, Added
          <5> QED BY <1>0, <4>1, <5>1 DEF BatchInv
        <4>4. CASE s.form # "blank"
          <5>1. /\ rtInvalidate' \in Nat /\ rtInvalidate' <= s.start
                /\ rtInvalidate # None => rtInvalidate' <= rtInvalidate
            BY <2>2, <2>3, <4>1, <4>2, <4>4 DEF Earliest
          <5>2. CASE e \in Added(s)
            BY <2>2, <2>4, <4>2, <5>1, <5>2
          <5>3. CASE e \in unannounced
            BY <1>0, <4>1, <4>2, <5>1, <5>3 DEF BatchInv
          <5> QED BY <2>3, <2>5, <5>2, <5>3
        <4> QED BY <4>3, <4>4
      <3>2. rtInvalidate' # None => gpc' \notin {"connect", "break"}
        BY <1>0, <1>2 DEF Decode, ClearedInv
      <3> QED BY <1>2, <3>1, <3>2 DEF BatchInv
    <2>8. KindInv'
      <3>1. \A i \in DOMAIN queue' :
               queue'[i].kind = "sample" =>
                  /\ queue'[i].form = "blank" => queue'[i].times = {}
                  /\ queue'[i].form \in Files => kind' = "text"
        BY <1>0, <1>1, <1>2 DEF KindInv, Fits
      <3>2. vtt' => kind' \in {"text", "vtt"}
        BY <1>0, <1>2, <1>3, <1>5, <2>3 DEF KindInv, Fits
      <3> QED BY <1>0, <1>2, <3>1, <3>2 DEF KindInv, Fits
    <2>9. SegmentInv'
      <3>1. ASSUME kind = "vtt", vtt', ~allowClear' PROVE \A e \in entries' : e.seg = 0
        <4>1. s.form \notin Files /\ ~libass /\ vtt
          BY <1>0, <1>3, <1>5, <2>3, <3>1 DEF KindInv, Fits
        <4>2. s.form = "blank" /\ ~allowClear
          BY <2>3, <3>1, <4>1 DEF OwnParser
        <4>3. entries' = entries
          BY <1>3, <1>5, <2>3, <4>1, <4>2 DEF Fits, Added, Kept
        <4> QED BY <1>0, <3>1, <4>1, <4>2, <4>3 DEF SegmentInv
      <3>2. ASSUME gpc \in {"idle", "header", "sample", "announce"}
            PROVE  /\ ~(kind = "text" /\ vtt') => \A e \in entries' : e.seg \in {0, segment}
                   /\ \A i \in DOMAIN queue' : queue'[i].seg = segment
        <4>1. s.seg = segment /\ \A i \in DOMAIN queue' : queue'[i].seg = segment
          BY <1>0, <1>1, <1>2, <3>2 DEF SegmentInv
        <4>2. ASSUME ~(kind = "text" /\ vtt'), NEW e \in entries'
              PROVE  e.seg \in {0, segment}
          <5>1. CASE e \in Added(s)
            BY <2>4, <4>1, <5>1
          <5>2. CASE e \in Kept(s, entries)
            <6>1. s.form \notin Files /\ e \in entries
              BY <5>2 DEF Kept
            <6>2. vtt' = vtt
              BY <2>3, <6>1
            <6> QED BY <1>0, <1>2, <3>2, <4>2, <6>1, <6>2 DEF SegmentInv
          <5> QED BY <2>3, <5>1, <5>2
        <4> QED BY <4>1, <4>2
      <3> QED BY <1>2, <3>1, <3>2 DEF SegmentInv
    <2> QED BY <1>4, <2>6, <2>7, <2>8, <2>9 DEF IInv
  <1>6. CASE s.kind # "sample"
    <2>1. /\ UNCHANGED <<entries, unannounced, vtt, allowClear, rtInvalidate>>
          /\ styles' \subseteq Headers
      BY <1>0, <1>1, <1>6 DEF Decode, DecodeSample, ApplyHeaderChange, TypeOK, Items, Samples
    <2>2. TypeOK'
      BY <1>0, <1>1, <1>2, <2>1 DEF TypeOK
    <2>3. BatchInv' /\ KindInv'
      BY <1>0, <1>1, <1>2, <2>1 DEF BatchInv, KindInv, Fits, OwnParser
    <2>4. SegmentInv'
      BY <1>0, <1>1, <1>2, <2>1 DEF SegmentInv
    <2> QED BY <1>4, <2>2, <2>3, <2>4 DEF IInv
  <1> QED BY <1>5, <1>6

(* Every step of the decoding thread and of the graph's calls keeps it.       *)
THEOREM StepIInv == IInv /\ [Next]_vars => IInv'
  <1> SUFFICES ASSUME IInv, [Next]_vars PROVE IInv'
    OBVIOUS
  <1> USE PinAssumption DEF queueVars, streamVars, decoderVars, graphVars
  <1>0. TypeOK /\ CallInv /\ ClearedInv /\ BatchInv /\ KindInv /\ SegmentInv
    BY DEF IInv
  <1>1. CASE Top
    <2>1. TypeOK'
      BY <1>0, <1>1 DEF Top, TypeOK, Items, DecoderLabels, GraphLabels
    <2>2. CallInv' /\ ClearedInv' /\ BatchInv' /\ KindInv' /\ SegmentInv'
      BY <1>0, <1>1 DEF Top, TypeOK, Items, Entries, Samples, CallInv, ClearedInv,
         BatchInv, KindInv, Fits, OwnParser, SegmentInv
    <2> QED BY <2>1, <2>2 DEF IInv
  <1>2. CASE TestQueue
    <2>1. TypeOK'
      BY <1>0, <1>2 DEF TestQueue, NeedStop, TypeOK, Items, DecoderLabels, GraphLabels
    <2>2. CallInv' /\ ClearedInv' /\ BatchInv' /\ KindInv' /\ SegmentInv'
      BY <1>0, <1>2 DEF TestQueue, NeedStop, TypeOK, Items, Entries, Samples, CallInv,
         ClearedInv, BatchInv, KindInv, Fits, OwnParser, SegmentInv
    <2> QED BY <2>1, <2>2 DEF IInv
  <1>3. CASE Block
    <2>1. TypeOK'
      BY <1>0, <1>3 DEF Block, TypeOK, Items, DecoderLabels, GraphLabels
    <2>2. CallInv' /\ ClearedInv' /\ BatchInv' /\ KindInv' /\ SegmentInv'
      BY <1>0, <1>3 DEF Block, TypeOK, Items, Entries, Samples, CallInv, ClearedInv,
         BatchInv, KindInv, Fits, OwnParser, SegmentInv
    <2> QED BY <2>1, <2>2 DEF IInv
  <1>4. CASE Wake
    <2>1. TypeOK'
      BY <1>0, <1>4 DEF Wake, TypeOK, Items, DecoderLabels, GraphLabels
    <2>2. CallInv' /\ ClearedInv' /\ BatchInv' /\ KindInv' /\ SegmentInv'
      BY <1>0, <1>4 DEF Wake, TypeOK, Items, Entries, Samples, CallInv, ClearedInv,
         BatchInv, KindInv, Fits, OwnParser, SegmentInv
    <2> QED BY <2>1, <2>2 DEF IInv
  <1>5. CASE Check
    <2>1. TypeOK'
      BY <1>0, <1>5 DEF Check, NeedStop, TypeOK, Items, DecoderLabels, GraphLabels
    <2>2. CallInv' /\ ClearedInv' /\ BatchInv' /\ KindInv' /\ SegmentInv'
      BY <1>0, <1>5 DEF Check, NeedStop, TypeOK, Items, Entries, Samples, CallInv,
         ClearedInv, BatchInv, KindInv, Fits, OwnParser, SegmentInv
    <2> QED BY <2>1, <2>2 DEF IInv
  <1>6. CASE EnterSubLock
    <2>1. TypeOK'
      BY <1>0, <1>6 DEF EnterSubLock, TypeOK, Items, DecoderLabels, GraphLabels
    <2>2. CallInv' /\ ClearedInv' /\ BatchInv' /\ KindInv' /\ SegmentInv'
      BY <1>0, <1>6 DEF EnterSubLock, TypeOK, Items, Entries, Samples, CallInv,
         ClearedInv, BatchInv, KindInv, Fits, OwnParser, SegmentInv
    <2> QED BY <2>1, <2>2 DEF IInv
  <1>7. CASE Relock
    <2>1. TypeOK'
      BY <1>0, <1>7 DEF Relock, TypeOK, Items, DecoderLabels, GraphLabels
    <2>2. CallInv' /\ ClearedInv' /\ BatchInv' /\ KindInv' /\ SegmentInv'
      BY <1>0, <1>7 DEF Relock, TypeOK, Items, Entries, Samples, CallInv, ClearedInv,
         BatchInv, KindInv, Fits, OwnParser, SegmentInv
    <2> QED BY <2>1, <2>2 DEF IInv
  <1>8. CASE Decode
    BY <1>8, DecodeKeepsIInv
  <1>9. CASE EndBatch
    <2>1. TypeOK'
      BY <1>0, <1>9 DEF EndBatch, NeedStop, TypeOK, Items, DecoderLabels, GraphLabels
    <2>2. CallInv' /\ ClearedInv' /\ BatchInv' /\ KindInv' /\ SegmentInv'
      BY <1>0, <1>9 DEF EndBatch, NeedStop, TypeOK, Items, Entries, Samples, CallInv,
         ClearedInv, BatchInv, KindInv, Fits, OwnParser, SegmentInv
    <2> QED BY <2>1, <2>2 DEF IInv
  <1>10. CASE InvalidateSubtitle
    <2>1. TypeOK'
      BY <1>0, <1>10 DEF InvalidateSubtitle, Announce, TypeOK, Items, DecoderLabels,
         GraphLabels
    <2>2. CallInv' /\ ClearedInv' /\ BatchInv' /\ KindInv' /\ SegmentInv'
      BY <1>0, <1>10 DEF InvalidateSubtitle, Announce, TypeOK, Items, Entries,
         Samples, CallInv, ClearedInv, BatchInv, KindInv,
         Fits, OwnParser, SegmentInv
    <2> QED BY <2>1, <2>2 DEF IInv
  <1>11. CASE PushHeader
    <2>1. arg \in Samples /\ arg.seg = segment /\ stream # 0 /\ Header(arg.header) \in Items
          /\ Header(arg.header).seg = segment /\ Header(arg.header).kind = "header"
      BY <1>0, <1>11 DEF PushHeader, CallInv, TypeOK, Header, Items, Samples
    <2>2. queue' \in Seq(Items)
          /\ \A i \in DOMAIN queue' : \/ i \in DOMAIN queue /\ queue'[i] = queue[i]
                                      \/ queue'[i] = Header(arg.header)
      BY <1>0, <1>11, <2>1, AppendToQueue DEF PushHeader, Push, TypeOK
    <2>3. TypeOK'
      BY <1>0, <1>11, <2>1, <2>2 DEF PushHeader, Push, Notify, TypeOK, CallInv, DecoderLabels,
         GraphLabels
    <2>4. CallInv' /\ ClearedInv' /\ BatchInv'
      BY <1>0, <1>11, <2>1 DEF PushHeader, Push, Notify, CallInv, ClearedInv, BatchInv,
         OwnParser
    <2>5. KindInv' /\ SegmentInv'
      BY <1>0, <1>11, <2>1, <2>2 DEF PushHeader, KindInv, Fits, SegmentInv
    <2> QED BY <2>3, <2>4, <2>5 DEF IInv
  <1>12. CASE PushSample
    <2>1. arg \in Items /\ arg.seg = segment /\ stream # 0
      BY <1>0, <1>12 DEF PushSample, CallInv, Items
    <2>2. queue' \in Seq(Items)
          /\ \A i \in DOMAIN queue' : \/ i \in DOMAIN queue /\ queue'[i] = queue[i]
                                      \/ queue'[i] = arg
      BY <1>0, <1>12, <2>1, AppendToQueue DEF PushSample, Push, TypeOK
    <2>3. TypeOK'
      BY <1>0, <1>12, <2>2 DEF PushSample, Push, Notify, TypeOK, DecoderLabels, GraphLabels
    <2>4. CallInv' /\ ClearedInv' /\ BatchInv'
      BY <1>0, <1>12, <2>1 DEF PushSample, Push, Notify, CallInv, ClearedInv, BatchInv,
         OwnParser
    <2>5. KindInv' /\ SegmentInv'
      BY <1>0, <1>12, <2>1, <2>2 DEF PushSample, KindInv, Fits, SegmentInv
    <2> QED BY <2>3, <2>4, <2>5 DEF IInv
  <1>13. CASE ClearSamples
    <2>1. queue' = <<>> /\ <<>> \in Seq(Items)
      BY <1>13 DEF ClearSamples
    <2>2. op \in {"segment", "connect", "break"} /\ gpc' = op /\ rtInvalidate = None
      BY <1>0, <1>13 DEF ClearSamples, CallInv, BatchInv, TypeOK
    <2>3. TypeOK'
      BY <1>0, <1>13, <2>1, <2>2 DEF ClearSamples, TypeOK, GraphLabels
    <2>4. CallInv' /\ ClearedInv' /\ BatchInv' /\ KindInv' /\ SegmentInv'
      BY <1>0, <1>13, <2>1, <2>2 DEF ClearSamples, CallInv, ClearedInv, BatchInv, KindInv,
         Fits, OwnParser, SegmentInv
    <2> QED BY <2>3, <2>4 DEF IInv
  <1>14. CASE EmptyStream
    <2>1. TypeOK'
      BY <1>0, <1>14 DEF EmptyStream, TypeOK, GraphLabels
    <2>2. CallInv' /\ ClearedInv' /\ BatchInv' /\ KindInv'
      BY <1>0, <1>14 DEF EmptyStream, CallInv, ClearedInv, BatchInv, KindInv, Fits, OwnParser
    <2>3. queue' = <<>>
      BY <1>0, <1>14 DEF EmptyStream, ClearedInv
    <2>4. entries' = {} \/ (vtt /\ ~allowClear /\ entries' = entries)
      BY <1>14 DEF EmptyStream
    <2>5. ~(kind = "text" /\ vtt) => \A e \in entries' : e.seg = 0
      BY <1>0, <2>4 DEF KindInv, SegmentInv
    <2>6. SegmentInv'
      BY <1>0, <1>14, <2>3, <2>4, <2>5 DEF EmptyStream, SegmentInv
    <2> QED BY <2>1, <2>2, <2>6 DEF IInv
  <1>15. CASE AnnounceSegment
    <2>1. TypeOK'
      BY <1>0, <1>15 DEF AnnounceSegment, Announce, Return, TypeOK, Items,
         DecoderLabels, GraphLabels
    <2>2. CallInv' /\ ClearedInv' /\ BatchInv' /\ KindInv' /\ SegmentInv'
      BY <1>0, <1>15 DEF AnnounceSegment, Announce, Return, TypeOK, Items, Entries,
         Samples, CallInv, ClearedInv, BatchInv, KindInv,
         Fits, OwnParser, SegmentInv
    <2> QED BY <2>1, <2>2 DEF IInv
  <1>16. CASE Connected
    <2>1. /\ arg.kind \in Kinds /\ arg.header \in Headers \cup {None}
          /\ queue' = <<>> /\ rtInvalidate = None
      BY <1>0, <1>16 DEF Connected, CallInv, ClearedInv, BatchInv
    <2>2. Blob \in Entries /\ Blob.seg = 0
      BY DEF Blob, Entries
    <2>3. /\ kind' = arg.kind /\ libass' \in BOOLEAN /\ vtt' \in BOOLEAN
          /\ libass' => kind' \in {"utf8", "ass"}
          /\ vtt' => kind' = "vtt"
      BY <1>16 DEF Connected
    <2>4. /\ entries' \subseteq {Blob} /\ styles' \subseteq Headers /\ unannounced' = {}
          /\ lastHeader' \in Headers \cup {None} /\ allowClear' = FALSE
      BY <1>16, <2>1 DEF Connected
    <2>5. /\ UNCHANGED <<bStop, bExit, mutex, subLock, dpc, rtInvalidate, segment, sent>>
          /\ gpc' = "idle" /\ op' = "none" /\ stream' = segment /\ gpc = "connect"
      BY <1>16 DEF Connected, Return
    <2>6. TypeOK'
      <3>1. queue' \in Seq(Items)
        BY <2>1
      <3>2. entries' \subseteq Entries /\ unannounced' \subseteq entries'
        BY <2>2, <2>4
      <3> QED BY <1>0, <2>1, <2>3, <2>4, <2>5, <3>1, <3>2 DEF TypeOK, GraphLabels
    <2>7. CallInv' /\ ClearedInv' /\ BatchInv' /\ KindInv'
      BY <1>0, <2>1, <2>3, <2>4, <2>5 DEF CallInv, ClearedInv, BatchInv, KindInv, Fits
    <2>8. SegmentInv'
      BY <2>1, <2>2, <2>4, <2>5 DEF SegmentInv
    <2> QED BY <2>6, <2>7, <2>8 DEF IInv
  <1>17. CASE Disconnected
    <2>1. TypeOK'
      BY <1>0, <1>17 DEF Disconnected, Return, TypeOK, Items, DecoderLabels,
         GraphLabels
    <2>2. CallInv' /\ ClearedInv' /\ BatchInv' /\ KindInv' /\ SegmentInv'
      BY <1>0, <1>17 DEF Disconnected, Return, TypeOK, Items, Entries, Samples,
         CallInv, ClearedInv, BatchInv, KindInv,
         Fits, OwnParser, SegmentInv
    <2> QED BY <2>1, <2>2 DEF IInv
  <1>18. CASE NotifyExit
    <2>1. TypeOK'
      BY <1>0, <1>18 DEF NotifyExit, Notify, TypeOK, Items, DecoderLabels, GraphLabels
    <2>2. CallInv' /\ ClearedInv' /\ BatchInv' /\ KindInv' /\ SegmentInv'
      BY <1>0, <1>18 DEF NotifyExit, Notify, TypeOK, Items, Entries, Samples, CallInv,
         ClearedInv, BatchInv, KindInv, Fits, OwnParser, SegmentInv
    <2> QED BY <2>1, <2>2 DEF IInv
  <1>19. CASE Join
    <2>1. TypeOK'
      BY <1>0, <1>19 DEF Join, TypeOK, Items, DecoderLabels, GraphLabels
    <2>2. CallInv' /\ ClearedInv' /\ BatchInv' /\ KindInv' /\ SegmentInv'
      BY <1>0, <1>19 DEF Join, TypeOK, Items, Entries, Samples, CallInv, ClearedInv,
         BatchInv, KindInv, Fits, OwnParser, SegmentInv
    <2> QED BY <2>1, <2>2 DEF IInv
  <1>20. ASSUME NEW t \in Starts, NEW h \in Headers \cup {None}, NEW f \in Forms,
                NEW T \in Tables \cup {{}, {t}}, Receive(t, h, f, T)
         PROVE  IInv'
    <2>1. Sample(t, h, f, T) \in Samples /\ Sample(t, h, f, T).seg = segment
      BY <1>0 DEF Sample, Samples, TypeOK
    <2>2. Fits(Sample(t, h, f, T))
      BY <1>20 DEF Receive, Fits, Sample, Files
    <2>3. gpc' = "header" => Sample(t, h, f, T).header \in Headers
      BY <1>20 DEF Receive, Sample
    <2>4. TypeOK'
      BY <1>0, <1>20 DEF Receive, TypeOK, GraphLabels
    <2>5. CallInv' /\ ClearedInv' /\ BatchInv'
      BY <1>0, <1>20, <2>1, <2>3 DEF Receive, CallInv, ClearedInv, BatchInv, OwnParser
    <2>6. KindInv' /\ SegmentInv'
      BY <1>0, <1>20, <2>1, <2>2 DEF Receive, KindInv, Fits, SegmentInv
    <2> QED BY <2>4, <2>5, <2>6 DEF IInv
  <1>21. CASE EndOfStream
    <2>1. EndMark \in Items /\ EndMark.seg = segment
      BY <1>0 DEF EndMark, Items, TypeOK
    <2>2. queue' \in Seq(Items)
          /\ \A i \in DOMAIN queue' : \/ i \in DOMAIN queue /\ queue'[i] = queue[i]
                                      \/ queue'[i] = EndMark
      BY <1>0, <1>21, <2>1, AppendToQueue DEF EndOfStream, Push, TypeOK
    <2>3. TypeOK'
      BY <1>0, <1>21, <2>2 DEF EndOfStream, Push, Notify, TypeOK, DecoderLabels, GraphLabels
    <2>4. CallInv' /\ ClearedInv' /\ BatchInv'
      BY <1>0, <1>21 DEF EndOfStream, Push, Notify, CallInv, ClearedInv, BatchInv, OwnParser
    <2>5. KindInv' /\ SegmentInv'
      BY <1>0, <1>21, <2>1, <2>2 DEF EndOfStream, EndMark, KindInv, Fits, SegmentInv
    <2> QED BY <2>3, <2>4, <2>5 DEF IInv
  <1>22. ASSUME NEW t \in Starts, NewSegment(t) PROVE IInv'
    <2>1. TypeOK'
      BY <1>0, <1>22 DEF NewSegment, InvalidateSamples, Continue, TypeOK, Items,
         DecoderLabels, GraphLabels
    <2>2. CallInv' /\ ClearedInv' /\ BatchInv' /\ KindInv' /\ SegmentInv'
      BY <1>0, <1>22 DEF NewSegment, InvalidateSamples, Continue, TypeOK, Items,
         Entries, Samples, CallInv, ClearedInv, BatchInv, KindInv,
         Fits, OwnParser, SegmentInv
    <2> QED BY <2>1, <2>2 DEF IInv
  <1>23. ASSUME NEW k \in Kinds, NEW h \in Headers \cup {None}, CompleteConnect(k, h)
         PROVE  IInv'
    <2>1. TypeOK'
      BY <1>0, <1>23 DEF CompleteConnect, InvalidateSamples, Continue, TypeOK, Items,
         DecoderLabels, GraphLabels
    <2>2. CallInv' /\ ClearedInv' /\ BatchInv' /\ KindInv' /\ SegmentInv'
      BY <1>0, <1>23 DEF CompleteConnect, InvalidateSamples, Continue, TypeOK, Items,
         Entries, Samples, CallInv, ClearedInv, BatchInv, KindInv,
         Fits, OwnParser, SegmentInv
    <2> QED BY <2>1, <2>2 DEF IInv
  <1>24. CASE BreakConnect
    <2>1. TypeOK'
      BY <1>0, <1>24 DEF BreakConnect, InvalidateSamples, Continue, TypeOK, Items,
         DecoderLabels, GraphLabels
    <2>2. CallInv' /\ ClearedInv' /\ BatchInv' /\ KindInv' /\ SegmentInv'
      BY <1>0, <1>24 DEF BreakConnect, InvalidateSamples, Continue, TypeOK, Items,
         Entries, Samples, CallInv, ClearedInv, BatchInv, KindInv,
         Fits, OwnParser, SegmentInv
    <2> QED BY <2>1, <2>2 DEF IInv
  <1>25. CASE Destroy
    <2>1. TypeOK'
      BY <1>0, <1>25 DEF Destroy, TypeOK, Items, DecoderLabels, GraphLabels
    <2>2. CallInv' /\ ClearedInv' /\ BatchInv' /\ KindInv' /\ SegmentInv'
      BY <1>0, <1>25 DEF Destroy, TypeOK, Items, Entries, Samples, CallInv,
         ClearedInv, BatchInv, KindInv, Fits, OwnParser, SegmentInv
    <2> QED BY <2>1, <2>2 DEF IInv
  <1>26. CASE DropSample
    <2>1. TypeOK'
      BY <1>0, <1>26 DEF DropSample, TypeOK, GraphLabels
    <2>2. CallInv' /\ ClearedInv' /\ BatchInv' /\ KindInv' /\ SegmentInv'
      BY <1>0, <1>26 DEF DropSample, CallInv, ClearedInv, BatchInv, KindInv, Fits, OwnParser,
         SegmentInv
    <2> QED BY <2>1, <2>2 DEF IInv
  <1>27. CASE UNCHANGED vars
    BY <1>0, <1>27 DEF IInv, TypeOK, CallInv, ClearedInv, BatchInv, KindInv, Fits, OwnParser,
       SegmentInv, vars
  <1> QED
    BY <1>1, <1>2, <1>3, <1>4, <1>5, <1>6, <1>7, <1>8, <1>9, <1>10, <1>11, <1>12,
       <1>13, <1>14, <1>15, <1>16, <1>17, <1>18, <1>19, <1>20, <1>21, <1>22, <1>23,
       <1>24, <1>25, <1>26, <1>27 DEF Next, DecodeSamples, GraphContinues, GraphCalls

(* The invariant holds in every reachable state, whenever the thread is       *)
(* stopped, woken or in the middle of a batch.                                *)
THEOREM InductiveInvariant == Spec => []IInv
  BY InitIInv, StepIInv, PTL DEF Spec

(* Types, with who holds m_mutexQueue and m_pSubLock.                         *)
THEOREM TypeCorrect == Spec => []TypeOK
  <1>1. IInv => TypeOK
    BY DEF IInv
  <1> QED BY <1>1, InductiveInvariant, PTL

(* NewSegment and CompleteConnect leave nothing of what was delivered before. *)
THEOREM SegmentsClean == Spec => []SegmentClean
  <1>1. IInv => SegmentClean
    BY DEF IInv, SegmentInv, SegmentClean
  <1> QED BY <1>1, InductiveInvariant, PTL

(* A batch of the own parser ends with an invalidation no later than its      *)
(* first subtitle, those that a GAB table puts before its sample apart.       *)
THEOREM BatchesAnnounced == Spec => []BatchAnnounced
  <1>1. IInv => BatchAnnounced
    BY DEF IInv, BatchInv, BatchAnnounced
  <1> QED BY <1>1, InductiveInvariant, PTL

(* DecodeSamples uses m_pSubStream only while there is one, and names it in   *)
(* InvalidateSubtitle only on a pin that is not being destroyed.              *)
THEOREM StreamsInUse == Spec => []StreamInUse
  <1>1. IInv => StreamInUse
    BY DEF IInv, BatchInv, ClearedInv, CallInv, StreamInUse
  <1> QED BY <1>1, InductiveInvariant, PTL
===============================================================================
