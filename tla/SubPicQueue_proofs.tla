-------------------------- MODULE SubPicQueue_proofs --------------------------
(***************************************************************************)
(* Proofs about SubPicQueue for any size of the queue, any subtitles, any  *)
(* edits and any number of seeks and of changes of the provider.           *)
(*                                                                         *)
(* The queue stays sorted because the thread never renders anything that   *)
(* ends before what it added, although it reads the tail once and works    *)
(* with what it read: whatever the others do to the queue meanwhile takes  *)
(* subpictures away, and a bound on what is in it stays one.               *)
(*                                                                         *)
(* The second half is about a calm queue, of one script that nobody edits  *)
(* or replaces: what is not over and lies behind the thread is rendered,   *)
(* and before the thread sleeps so is everything of the next minute.       *)
(***************************************************************************)
EXTENDS SubPicQueue, FiniteSetTheorems, SequenceTheorems, WellFoundedInduction, TLAPS

Under(x) == \A n \in 1 .. Len(queue) : queue[n].stop <= x
LastSegment == pos = Len(content[held.prov])
AtASegment == {"segment", "render", "enqueue", "advance"}

(* A pass has a provider and, until its end, one of the provider's segments.  *)
PassInv ==
    /\ qpc = "lock" \/ InPass => held.prov \in Providers
    /\ qpc \in AtASegment => pos \in 1 .. Len(content[held.prov])

(* A subpicture in hand ends after everything in the queue.                   *)
PicInv ==
    /\ qpc \in {"enqueue", "blocked"} => pic # NoPic
    /\ pic # NoPic =>
          /\ qpc \in {"segment", "render", "enqueue", "unlock", "blocked"}
          /\ \A n \in 1 .. Len(queue) : queue[n].stop < pic.stop

(* How far the thread has come, and so how far the queue may reach.  Only the *)
(* last segment can be one without known end, whose subpictures may end after *)
(* it does.                                                                   *)
FrontInv ==
    /\ qpc = "position" => Under(rtStart)
    /\ qpc = "segment" => Under(Larger(Seg.start, rtStart))
    /\ qpc = "render" => rtCur \in Nat /\ rtCur < Seg.stop /\ Under(rtCur)
    /\ qpc = "enqueue" => pic.stop <= rtCur /\ (~LastSegment => pic.stop <= Seg.stop)
    /\ qpc = "advance" => Under(rtCur) /\ (~LastSegment => Under(Seg.stop))

(* What the renderer has found on the way is current already.                 *)
FoundInv ==
    rpc \in {"search", "searchAgain", "ask", "save"} /\ found # NoPic => InSegment(found, rt)

IInv == TypeOK /\ QueueSorted /\ InvalidatedIsGone /\ PassInv /\ PicInv /\ FrontInv /\ FoundInv

-----------------------------------------------------------------------------
(* A set of natural numbers has a least one: without it, the sets of numbers  *)
(* up to each member would go down for ever.                                  *)
LEMMA Least ==
    ASSUME NEW S, S \subseteq Nat, S # {}
    PROVE  \E n \in S : \A m \in S : n <= m
<1> DEFINE UpTo(n) == {m \in S : m <= n}
           T == {UpTo(n) : n \in S}
<1>1. T \subseteq FiniteSubsetsOf(S) /\ T # {}
  <2>1. ASSUME NEW n \in S PROVE IsFiniteSet(UpTo(n))
    <3>1. IsFiniteSet(0 .. n)
      BY FS_Interval
    <3>2. ASSUME NEW m \in UpTo(n) PROVE m \in 0 .. n
      <4>1. m \in Nat /\ n \in Nat /\ m <= n
        OBVIOUS
      <4> QED BY <4>1
    <3> QED BY <3>1, <3>2, FS_Subset
  <2> QED BY <2>1 DEF FiniteSubsetsOf
<1>2. PICK U \in T : \A V \in T : <<V, U>> \notin StrictSubsetOrdering(S)
  <2> HIDE DEF T
  <2> QED BY <1>1, FS_StrictSubsetOrderingWellFounded, WFMin
<1>3. PICK n \in S : U = UpTo(n)
  OBVIOUS
<1>4. ASSUME NEW m \in S, m < n PROVE FALSE
  <2>0. m \in Nat /\ n \in Nat
    OBVIOUS
  <2>1. UpTo(m) \in T /\ UpTo(m) \subseteq UpTo(n) /\ n \in UpTo(n) /\ n \notin UpTo(m)
    <3>1. n \in UpTo(n) /\ n \notin UpTo(m)
      BY <1>4, <2>0
    <3>2. ASSUME NEW k \in UpTo(m) PROVE k \in UpTo(n)
      <4>1. k \in Nat /\ k \in S /\ k <= m
        OBVIOUS
      <4> QED BY <1>4, <2>0, <4>1
    <3> QED BY <3>1, <3>2
  <2>2. <<UpTo(m), U>> \in StrictSubsetOrdering(S)
    BY <1>3, <2>1 DEF StrictSubsetOrdering
  <2> QED BY <1>2, <2>1, <2>2
<1>5. ASSUME NEW m \in S PROVE n <= m
  <2>1. m \in Nat /\ n \in Nat
    OBVIOUS
  <2> QED BY <1>4, <2>1
<1> QED BY <1>5

LEMMA MinIsLeast ==
    ASSUME NEW S, S \subseteq Nat, S # {}
    PROVE  Min(S) \in S /\ \A n \in S : Min(S) <= n
  <1>1. \E n \in S : \A m \in S : n <= m
    BY Least
  <1> QED BY <1>1 DEF Min

(* Three quarters of a sub-frame are no more than one, and more than nothing. *)
LEMMA SubFramePart ==
    (SubFrame * 3) \div 4 \in Nat /\ (SubFrame * 3) \div 4 > 0 /\ (SubFrame * 3) \div 4 <= SubFrame
  BY QueueAssumption

(* The segments of a script.                                                  *)
LEMMA ScriptSegments ==
    ASSUME NEW s \in Scripts
    PROVE  /\ s \in Seq(Segment) /\ DOMAIN s = 1 .. Len(s) /\ Len(s) \in Nat
           /\ \A i \in 1 .. Len(s) :
                 /\ s[i] \in Segment /\ s[i].start \in Nat /\ s[i].stop \in Nat
                 /\ s[i].text \in Texts
                 /\ s[i].start < s[i].stop /\ s[i].stop <= Unknown
           /\ \A i, j \in 1 .. Len(s) : i < j => s[i].stop <= s[j].start
  <1>1. IsScript(s)
    BY QueueAssumption
  <1>2. s \in Seq(Segment) /\ DOMAIN s = 1 .. Len(s) /\ Len(s) \in Nat
    BY <1>1, LenProperties DEF IsScript
  <1>3. ASSUME NEW i \in 1 .. Len(s)
        PROVE  s[i] \in Segment
    BY <1>2, ElementOfSeq
  <1> QED BY <1>1, <1>2, <1>3 DEF IsScript, Segment

(* GetStartPosition returns a position of the script or none.                 *)
LEMMA StartPositionIsOne ==
    ASSUME NEW s \in Scripts, NEW t
    PROVE  StartPosition(s, t) \in Nat /\ (StartPosition(s, t) # 0 => StartPosition(s, t) \in 1 .. Len(s))
  <1> DEFINE later == {i \in DOMAIN s : s[i].stop > t}
  <1>1. later \subseteq Nat /\ later \subseteq 1 .. Len(s)
    BY ScriptSegments
  <1>2. CASE later = {}
    BY <1>2 DEF StartPosition
  <1>3. CASE later # {}
    <2>1. Min(later) \in later
      <3> HIDE DEF later
      <3> QED BY <1>1, <1>3, MinIsLeast
    <2>2. StartPosition(s, t) = Min(later)
      BY <1>3 DEF StartPosition
    <2> HIDE DEF later
    <2> QED BY <1>1, <2>1, <2>2
  <1> QED BY <1>2, <1>3

(* What a provider has for a time is one of its texts or nothing.             *)
LEMMA TextIsTyped ==
    ASSUME TypeOK, NEW p \in Providers, NEW t
    PROVE  TextAt(p, t) \in Texts \cup {NoText}
  <1> DEFINE s == content[p]
             here == {i \in DOMAIN s : s[i].start <= t /\ t < s[i].stop}
  <1>1. s \in Scripts
    BY DEF TypeOK
  <1>2. here \subseteq Nat /\ here \subseteq 1 .. Len(s)
    <2> HIDE DEF s
    <2> QED BY <1>1, ScriptSegments
  <1>3. CASE here = {}
    BY <1>3 DEF TextAt
  <1>4. CASE here # {}
    <2>1. Min(here) \in here
      <3> HIDE DEF here
      <3> QED BY <1>2, <1>4, MinIsLeast
    <2>2. TextAt(p, t) = s[Min(here)].text
      BY <1>4 DEF TextAt
    <2>3. Min(here) \in 1 .. Len(s)
      <3> HIDE DEF here, s
      <3> QED BY <1>2, <2>1
    <2>4. s[Min(here)].text \in Texts
      <3> HIDE DEF here, s
      <3> QED BY <1>1, <2>3, ScriptSegments
    <2> QED BY <2>2, <2>4
  <1> QED BY <1>3, <1>4

-----------------------------------------------------------------------------
(* What the search has found after n subpictures of the queue.                *)
BestStep(g, n) ==
    IF n = 0 THEN found
    ELSE IF n <= Len(queue) /\ TakenAt(queue[n], g[n - 1]) THEN queue[n] ELSE g[n - 1]

(* The search is defined however long the queue is: were it not, there would  *)
(* be a least length for which it is not.                                     *)
LEMMA BestIsDefined == Best = [n \in 0 .. QueueSize |-> BestStep(Best, n)]
  <1> DEFINE Fails == {k \in Nat : ~ \E g : g = [n \in 0 .. k |-> BestStep(g, n)]}
  <1>1. ASSUME Fails # {} PROVE FALSE
    <2>1. PICK k \in Fails : \A m \in Fails : k <= m
      <3>1. Fails \subseteq Nat
        OBVIOUS
      <3> HIDE DEF Fails
      <3> QED BY <1>1, <3>1, Least
    <2>2. k \in Nat
      OBVIOUS
    <2>3. CASE k = 0
      <3> DEFINE h == [n \in 0 .. 0 |-> found]
      <3>1. h = [n \in 0 .. 0 |-> BestStep(h, n)]
        <4>1. \A n \in 0 .. 0 : n = 0
          OBVIOUS
        <4> QED BY <4>1 DEF BestStep
      <3> QED BY <2>3, <3>1
    <2>4. CASE k # 0
      <3>1. k - 1 \in Nat /\ k - 1 \notin Fails
        BY <2>1, <2>2, <2>4
      <3>2. PICK g : g = [n \in 0 .. k - 1 |-> BestStep(g, n)]
        BY <3>1
      <3> DEFINE h == [n \in 0 .. k |-> IF n = k THEN BestStep(g, k) ELSE g[n]]
      <3>3. ASSUME NEW n \in 0 .. k PROVE h[n] = BestStep(h, n)
        <4>1. n # 0 => n - 1 \in 0 .. k /\ n - 1 # k /\ h[n - 1] = g[n - 1]
          BY <2>2
        <4>2. BestStep(h, n) = BestStep(g, n)
          <5> HIDE DEF h
          <5> QED BY <4>1 DEF BestStep
        <4>3. CASE n = k
          BY <4>2, <4>3
        <4>4. CASE n # k
          <5>1. n \in 0 .. k - 1 /\ h[n] = g[n]
            BY <2>2, <4>4
          <5>2. g[n] = BestStep(g, n)
            <6> HIDE DEF h
            <6> QED BY <3>2, <5>1
          <5> QED BY <4>2, <5>1, <5>2
        <4> QED BY <4>3, <4>4
      <3>4. h = [n \in 0 .. k |-> h[n]]
        OBVIOUS
      <3>5. h = [n \in 0 .. k |-> BestStep(h, n)]
        <4> HIDE DEF h
        <4> QED BY <3>3, <3>4
      <3> QED BY <3>5
    <2> QED BY <2>3, <2>4
  <1>2. \E g : g = [n \in 0 .. QueueSize |-> BestStep(g, n)]
    BY <1>1, QueueAssumption
  <1> QED BY <1>2 DEF Best, BestStep

(* Whatever the search has found is a subpicture of the time looked up.       *)
LEMMA BestIsCurrent ==
    ASSUME TypeOK, found # NoPic => InSegment(found, rt), NEW k \in 0 .. Len(queue)
    PROVE  Best[k] \in SubPic /\ (Best[k] # NoPic => InSegment(Best[k], rt))
  <1> DEFINE Good(n) == Best[n] \in SubPic /\ (Best[n] # NoPic => InSegment(Best[n], rt))
             Fails == {n \in 0 .. Len(queue) : ~Good(n)}
  <1>1. Len(queue) \in Nat /\ QueueSize \in Nat /\ Len(queue) <= QueueSize
    BY QueueAssumption DEF TypeOK
  <1>2. ASSUME NEW n \in 0 .. Len(queue) PROVE Best[n] = BestStep(Best, n)
    BY <1>1, BestIsDefined
  <1>3. ASSUME Fails # {} PROVE FALSE
    <2>1. PICK n \in Fails : \A m \in Fails : n <= m
      <3>1. Fails \subseteq Nat
        BY <1>1
      <3> HIDE DEF Fails
      <3> QED BY <1>3, <3>1, Least
    <2>2. n \in 0 .. Len(queue) /\ n \in Nat /\ ~Good(n)
      BY <1>1
    <2>3. CASE n = 0
      <3>1. Best[n] = found
        BY <1>2, <2>2, <2>3 DEF BestStep
      <3> QED BY <2>2, <3>1 DEF TypeOK
    <2>4. CASE n # 0
      <3>1. n - 1 \in 0 .. Len(queue) /\ n - 1 \notin Fails /\ Good(n - 1)
        BY <1>1, <2>1, <2>2, <2>4
      <3>2. queue[n] \in SubPic
        BY <1>1, <2>2, <2>4, ElementOfSeq DEF TypeOK
      <3>3. \/ Best[n] = queue[n] /\ InSegment(queue[n], rt)
            \/ Best[n] = Best[n - 1]
        BY <1>2, <2>2, <2>4 DEF BestStep, TakenAt
      <3> QED BY <2>2, <3>1, <3>2, <3>3
    <2> QED BY <2>3, <2>4
  <1> QED BY <1>3

(* What is in the queue is a subpicture.                                      *)
LEMMA QueueElements ==
    ASSUME TypeOK
    PROVE  /\ Len(queue) \in Nat
           /\ \A n \in 1 .. Len(queue) :
                 queue[n] \in SubPic /\ queue[n].stop \in Int /\ queue[n].segStop \in Int
  <1>1. queue \in Seq(SubPic)
    BY DEF TypeOK
  <1>2. ASSUME NEW n \in 1 .. Len(queue) PROVE queue[n] \in SubPic
    BY <1>1, ElementOfSeq
  <1> QED BY <1>1, <1>2, SMTT(20) DEF SubPic

(* A bound of the queue may be raised.                                        *)
LEMMA UnderMore ==
    ASSUME TypeOK, NEW x \in Int, NEW y \in Int, x <= y, Under(x)
    PROVE  Under(y)
  BY QueueElements DEF Under

(* Cutting the tail leaves the head, and of a sorted queue what ends by t.    *)
LEMMA CutTail ==
    ASSUME TypeOK, NEW t \in Int
    PROVE  /\ KeptBy(t) \in Seq(SubPic) /\ Len(KeptBy(t)) <= Len(queue)
           /\ \A n \in 1 .. Len(KeptBy(t)) : n \in 1 .. Len(queue) /\ KeptBy(t)[n] = queue[n]
           /\ QueueSorted => \A n \in 1 .. Len(KeptBy(t)) : KeptBy(t)[n].stop <= t
  <1> DEFINE cut == {n \in 0 .. Len(queue) : \A i \in n + 1 .. Len(queue) : queue[i].stop > t}
             m == Min(cut)
  <1>0. Len(queue) \in Nat
    BY DEF TypeOK
  <1>1. cut \subseteq Nat /\ Len(queue) \in cut
    BY <1>0
  <1>2. m \in cut /\ \A n \in cut : m <= n
    <2> HIDE DEF cut
    <2> QED BY <1>1, MinIsLeast
  <1>3. m \in 0 .. Len(queue) /\ KeptBy(t) = SubSeq(queue, 1, m)
    BY <1>2 DEF KeptBy
  <1>4. \A n \in 1 .. Len(queue) : queue[n] \in SubPic /\ queue[n].stop \in Int
    BY QueueElements
  <1>5. /\ KeptBy(t) \in Seq(SubPic) /\ Len(KeptBy(t)) = m
        /\ \A n \in 1 .. m : KeptBy(t)[n] = queue[n]
    <2>1. \A n \in 1 .. m : queue[n] \in SubPic
      <3> HIDE DEF m
      <3> QED BY <1>0, <1>3, <1>4
    <2> HIDE DEF m
    <2> QED BY <1>3, <2>1, SubSeqProperties
  <1>6. ASSUME QueueSorted, NEW n \in 1 .. m PROVE queue[n].stop <= t
    <2>1. m - 1 \in 0 .. Len(queue) /\ m - 1 \notin cut
      <3> HIDE DEF cut
      <3> QED BY <1>0, <1>2, <1>3
    <2>2. PICK i \in m .. Len(queue) : ~(queue[i].stop > t)
      <3>1. m \in Int /\ (m - 1) + 1 = m
        <4> HIDE DEF m
        <4> QED BY <1>0, <1>3
      <3> HIDE DEF m
      <3> QED BY <2>1, <3>1
    <2>3. i = m
      BY <1>0, <1>2, <1>3, <2>2
    <2> HIDE DEF m, cut
    <2>4. n \in 1 .. Len(queue) /\ m \in 1 .. Len(queue) /\ n <= m
      BY <1>0, <1>3
    <2>5. queue[m].stop <= t
      BY <1>4, <2>2, <2>3, <2>4
    <2> QED BY <1>4, <1>6, <2>4, <2>5 DEF QueueSorted
  <1> HIDE DEF m
  <1> QED BY <1>0, <1>3, <1>5, <1>6

-----------------------------------------------------------------------------
(* Taking subpictures away from the head and the tail.                        *)
Shrinks ==
    /\ queue' \in Seq(SubPic) /\ Len(queue') <= Len(queue)
    /\ \E k \in Nat : \A n \in 1 .. Len(queue') : n + k \in 1 .. Len(queue) /\ queue'[n] = queue[n + k]

(* What bounds the queue bounds what is left of it.                           *)
LEMMA ShrinkingKeeps ==
    ASSUME TypeOK, Shrinks
    PROVE  /\ QueueSorted => QueueSorted'
           /\ \A x : Under(x) => \A n \in 1 .. Len(queue') : queue'[n].stop <= x
           /\ \A x : (\A n \in 1 .. Len(queue) : queue[n].stop < x)
                     => \A n \in 1 .. Len(queue') : queue'[n].stop < x
  <1>1. Len(queue') \in Nat /\ Len(queue) \in Nat
    BY DEF Shrinks, TypeOK
  <1>2. PICK k \in Nat : \A n \in 1 .. Len(queue') : n + k \in 1 .. Len(queue) /\ queue'[n] = queue[n + k]
    BY DEF Shrinks
  <1>3. QueueSorted => QueueSorted'
    <2> SUFFICES ASSUME QueueSorted, NEW i \in 1 .. Len(queue'), NEW j \in 1 .. Len(queue'), i < j
                 PROVE  queue'[i].stop < queue'[j].stop
      BY DEF QueueSorted
    <2>1. i + k < j + k
      BY <1>1, <1>2
    <2> QED BY <1>2, <2>1 DEF QueueSorted
  <1> QED BY <1>2, <1>3 DEF Under

(* Nobody but the queue thread adds to the queue or moves the thread.         *)
LEMMA OthersKeep ==
    ASSUME IInv, Shrinks, UNCHANGED queueThreadVars, InPass => UNCHANGED content
    PROVE  QueueSorted' /\ PassInv' /\ PicInv' /\ FrontInv'
  <1>1. /\ qpc' = qpc /\ held' = held /\ pos' = pos /\ rtStart' = rtStart
        /\ rtCur' = rtCur /\ pic' = pic
    BY DEF queueThreadVars
  <1>2. QueueSorted'
    BY ShrinkingKeeps DEF IInv
  <1>3. PassInv'
    BY <1>1 DEF IInv, PassInv, InPass, AtASegment
  <1>4. PicInv'
    BY <1>1, ShrinkingKeeps DEF IInv, PicInv
  <1>5. \A x : Under(x) => Under(x)'
    BY ShrinkingKeeps DEF IInv, Under
  <1>6. qpc \in {"segment", "enqueue", "advance"} => UNCHANGED <<Seg, LastSegment>>
    BY <1>1 DEF InPass, Seg, LastSegment
  <1>7. qpc = "render" => UNCHANGED Seg
    BY <1>1 DEF InPass, Seg
  <1>8. FrontInv'
    <2>1. CASE qpc = "position"
      BY <1>1, <1>5, <2>1 DEF IInv, FrontInv
    <2>2. CASE qpc = "segment"
      BY <1>1, <1>5, <1>6, <2>2 DEF IInv, FrontInv
    <2>3. CASE qpc = "render"
      BY <1>1, <1>5, <1>7, <2>3 DEF IInv, FrontInv
    <2>4. CASE qpc = "enqueue"
      BY <1>1, <1>6, <2>4 DEF IInv, FrontInv
    <2>5. CASE qpc = "advance"
      BY <1>1, <1>5, <1>6, <2>5 DEF IInv, FrontInv
    <2>6. CASE qpc \notin {"position", "segment", "render", "enqueue", "advance"}
      BY <1>1, <2>6 DEF FrontInv
    <2> QED BY <2>1, <2>2, <2>3, <2>4, <2>5, <2>6
  <1> QED BY <1>2, <1>3, <1>4, <1>8

(* Invalidate leaves nothing that ends after its time.                        *)
LEMMA InvalidateKeeps ==
    ASSUME IInv, NEW t \in Int, Invalidate(t)
    PROVE  /\ Shrinks /\ Len(queue') <= QueueSize /\ InvalidatedIsGone'
           /\ shown' \in SubPic /\ rtNow' \in Nat /\ rtNowLast' \in Nat \cup {ERROR}
           /\ bInvalidate' \in BOOLEAN /\ rtInvalidate' \in Int /\ event' \in BOOLEAN
  <1>0. TypeOK /\ QueueSorted
    BY DEF IInv
  <1>1. /\ queue' = KeptBy(t) /\ bInvalidate' = TRUE /\ rtInvalidate' = t /\ event' = TRUE
        /\ rtNowLast' = ERROR /\ shown' \in {NoPic, shown}
        /\ rtNow' = IF t < rtNow THEN Larger(t, 0) ELSE rtNow
    BY DEF Invalidate
  <1>2. Shrinks
    <2>1. \A n \in 1 .. Len(KeptBy(t)) : n + 0 \in 1 .. Len(queue) /\ KeptBy(t)[n] = queue[n + 0]
      BY <1>0, CutTail
    <2> QED BY <1>0, <1>1, <2>1, CutTail DEF Shrinks
  <1>3. InvalidatedIsGone'
    BY <1>0, <1>1, CutTail DEF InvalidatedIsGone
  <1>4. Len(queue') <= QueueSize
    <2>1. Len(queue') \in Nat /\ Len(queue) \in Nat /\ Len(queue) <= QueueSize /\ Len(queue') <= Len(queue)
      BY <1>0, <1>2 DEF TypeOK, Shrinks
    <2> QED BY <2>1, QueueAssumption
  <1>5. NoPic \in SubPic
    BY DEF NoPic, SubPic
  <1>6. rtNow' \in Nat
    BY <1>0, <1>1 DEF TypeOK, Larger
  <1> QED BY <1>0, <1>1, <1>2, <1>3, <1>4, <1>5, <1>6 DEF TypeOK

-----------------------------------------------------------------------------
(* The segment a pass is at.                                                  *)
LEMMA SegIsTyped ==
    ASSUME IInv, qpc \in AtASegment
    PROVE  /\ Seg \in Segment /\ Seg.start \in Nat /\ Seg.stop \in Nat /\ Seg.text \in Texts
           /\ Seg.animated \in BOOLEAN
           /\ Seg.start < Seg.stop /\ Seg.stop <= Unknown
           /\ held.prov \in Providers /\ content[held.prov] \in Scripts
           /\ ~LastSegment =>
                 /\ pos + 1 \in 1 .. Len(content[held.prov])
                 /\ content[held.prov][pos + 1].start \in Nat
                 /\ Seg.stop <= content[held.prov][pos + 1].start
                 /\ Seg.stop < Unknown
  <1>1. held.prov \in Providers /\ pos \in 1 .. Len(content[held.prov])
    BY DEF IInv, PassInv, AtASegment, InPass
  <1> DEFINE s == content[held.prov]
  <1>2. s \in Scripts
    BY <1>1 DEF IInv, TypeOK
  <1>3. /\ Seg \in Segment /\ Seg.start \in Nat /\ Seg.stop \in Nat /\ Seg.text \in Texts
        /\ Seg.start < Seg.stop /\ Seg.stop <= Unknown
    <2>1. Seg = s[pos] /\ pos \in 1 .. Len(s)
      BY <1>1 DEF Seg
    <2> HIDE DEF s
    <2> QED BY <1>1, <1>2, <2>1, ScriptSegments
  <1>4. ASSUME ~LastSegment
        PROVE  /\ pos + 1 \in 1 .. Len(s) /\ s[pos + 1].start \in Nat
               /\ Seg.stop <= s[pos + 1].start /\ Seg.stop < Unknown
    <2>1. Seg = s[pos] /\ pos # Len(s) /\ pos \in 1 .. Len(s)
      BY <1>1, <1>4 DEF Seg, LastSegment
    <2> HIDE DEF s
    <2>2. Len(s) \in Nat
      BY <1>2, ScriptSegments
    <2>3. pos + 1 \in 1 .. Len(s) /\ pos < pos + 1
      BY <2>1, <2>2
    <2>4. /\ s[pos].stop <= s[pos + 1].start /\ s[pos + 1].start < s[pos + 1].stop
          /\ s[pos + 1].stop <= Unknown /\ s[pos + 1].start \in Nat /\ s[pos + 1].stop \in Nat
      BY <1>2, <2>1, <2>3, ScriptSegments
    <2>5. Seg.stop < Unknown
      BY <1>3, <2>1, <2>4, QueueAssumption
    <2> QED BY <2>1, <2>3, <2>4, <2>5
  <1>5. Seg.animated \in BOOLEAN
    BY <1>3 DEF Segment
  <1> QED BY <1>1, <1>2, <1>3, <1>4, <1>5

(* Going on to the next segment, or to the end of the pass.                   *)
LEMMA NextSegmentKeeps ==
    ASSUME IInv, qpc \in AtASegment, NextSegment, UNCHANGED <<held, content, queue, rtStart>>,
           ~LastSegment => Under(Larger(Seg.stop, rtStart)),
           pic' # NoPic => \A n \in 1 .. Len(queue) : queue[n].stop < pic'.stop
    PROVE  qpc' \in QueueLabels /\ pos' \in Nat /\ PassInv' /\ PicInv' /\ FrontInv'
  <1> DEFINE s == content[held.prov]
  <1>1. held.prov \in Providers
    BY SegIsTyped
  <1>2. CASE LastSegment
    <2>1. pos' = 0 /\ qpc' = "unlock"
      BY <1>2 DEF NextSegment, LastSegment
    <2> QED BY <1>1, <2>1 DEF QueueLabels, PassInv, InPass, AtASegment, PicInv, FrontInv
  <1>3. CASE ~LastSegment
    <2>1. pos' = pos + 1 /\ qpc' = "segment"
      BY <1>3 DEF NextSegment, LastSegment
    <2>2. /\ pos + 1 \in 1 .. Len(s) /\ s[pos + 1].start \in Nat /\ Seg.stop <= s[pos + 1].start
          /\ Seg.stop \in Nat
      BY <1>3, SegIsTyped
    <2>3. pos' \in Nat
      BY <2>1 DEF IInv, TypeOK
    <2>4. PassInv' /\ PicInv'
      BY <1>1, <2>1, <2>2 DEF PassInv, InPass, AtASegment, PicInv
    <2>5. Seg' = s[pos + 1]
      BY <2>1 DEF Seg
    <2>6. Under(Larger(Seg.start, rtStart))'
      <3>1. rtStart \in Int
        BY DEF IInv, TypeOK
      <3>2. /\ Larger(s[pos + 1].start, rtStart) \in Int /\ Larger(Seg.stop, rtStart) \in Int
            /\ Larger(Seg.stop, rtStart) <= Larger(s[pos + 1].start, rtStart)
        BY <2>2, <3>1 DEF Larger
      <3>3. Under(Larger(s[pos + 1].start, rtStart))
        BY <1>3, <3>2, UnderMore DEF IInv
      <3> QED BY <2>1, <2>5, <3>3 DEF Under
    <2>7. FrontInv'
      BY <2>1, <2>6 DEF FrontInv
    <2> QED BY <2>1, <2>3, <2>4, <2>7 DEF QueueLabels
  <1> QED BY <1>2, <1>3

(* The times of a subpicture that is rendered now: it ends after what the     *)
(* thread has come to, and no later than where the thread goes on.            *)
GoesOnAt == IF Seg.animated THEN Smaller(rtCur + SubFrame, SegStop) ELSE SegStop

LEMMA NewPicIsLater ==
    ASSUME IInv, qpc = "render", wrapper.prov # NoProvider
    PROVE  /\ NewPic \in SubPic /\ NewPic # NoPic /\ GoesOnAt \in Int
           /\ NewPic.stop \in Int /\ rtCur < NewPic.stop /\ NewPic.stop <= GoesOnAt
           /\ ~LastSegment => NewPic.stop <= Seg.stop
  <1>1. /\ Seg.start \in Nat /\ Seg.stop \in Nat /\ Seg.animated \in BOOLEAN /\ Seg.stop <= Unknown
        /\ held.prov \in Providers /\ (~LastSegment => Seg.stop < Unknown)
    BY SegIsTyped DEF AtASegment
  <1>2. rtCur \in Nat /\ rtCur < Seg.stop
    BY DEF IInv, FrontInv
  <1>3. SegStop \in Nat /\ rtCur < SegStop /\ (~LastSegment => SegStop = Seg.stop)
    BY <1>1, <1>2, QueueAssumption DEF SegStop
  <1> DEFINE src == {TextAt(held.prov, rtCur), TextAt(wrapper.prov, rtCur)}
             part == (SubFrame * 3) \div 4
  <1>4. src \in SUBSET (Texts \cup {NoText})
    <2>1. wrapper.prov \in Providers
      BY DEF IInv, TypeOK, Wrapper
    <2> QED BY <1>1, <2>1, TextIsTyped DEF IInv
  <1>5. part \in Nat /\ part > 0 /\ part <= SubFrame /\ SubFrame \in Nat /\ Frame \in Nat
    BY SubFramePart, QueueAssumption
  <1> HIDE DEF src, part
  <1>6. CASE Seg.animated
    <2> DEFINE stop == Smaller(rtCur + part, SegStop)
    <2>1. NewPic = [start |-> rtCur, stop |-> stop, segStart |-> Seg.start,
                    segStop |-> Larger(rtCur + Frame, SegStop), src |-> src]
      BY <1>6 DEF NewPic, src, part
    <2>2. GoesOnAt = Smaller(rtCur + SubFrame, SegStop)
      BY <1>6 DEF GoesOnAt
    <2>3. stop \in Nat /\ rtCur < stop /\ stop <= SegStop /\ stop <= GoesOnAt /\ GoesOnAt \in Int
      BY <1>2, <1>3, <1>5, <2>2 DEF Smaller
    <2>4. Larger(rtCur + Frame, SegStop) \in Int
      BY <1>2, <1>3, <1>5 DEF Larger
    <2> HIDE DEF stop
    <2>5. NewPic \in SubPic /\ NewPic.stop = stop /\ NewPic.start = rtCur
      BY <1>1, <1>2, <1>4, <2>1, <2>3, <2>4 DEF SubPic
    <2>6. NewPic # NoPic
      BY <1>2, <2>5 DEF NoPic
    <2> QED BY <1>1, <1>2, <1>3, <2>3, <2>5, <2>6
  <1>7. CASE ~Seg.animated
    <2>1. NewPic = [start |-> Seg.start, stop |-> SegStop, segStart |-> Seg.start,
                    segStop |-> SegStop, src |-> src]
      BY <1>7 DEF NewPic, src
    <2>2. GoesOnAt = SegStop
      BY <1>7 DEF GoesOnAt
    <2>3. NewPic \in SubPic /\ NewPic.stop = SegStop /\ NewPic.start = Seg.start
      BY <1>1, <1>3, <1>4, <2>1 DEF SubPic
    <2>4. NewPic # NoPic
      BY <1>1, <2>3 DEF NoPic
    <2> QED BY <1>1, <1>2, <1>3, <2>2, <2>3, <2>4
  <1> QED BY <1>1, <1>6, <1>7

(* Adding a subpicture that ends after all others and is not cut off by an    *)
(* invalidation.                                                              *)
LEMMA PutKeeps ==
    ASSUME IInv, pic # NoPic, HasRoom, ~Dropped, Put, UNCHANGED <<bInvalidate, rtInvalidate>>
    PROVE  /\ queue' \in Seq(SubPic) /\ Len(queue') <= QueueSize
           /\ QueueSorted' /\ InvalidatedIsGone'
           /\ \A x \in Int : pic.stop <= x => Under(x)'
  <1>1. pic \in SubPic /\ pic.stop \in Int /\ queue \in Seq(SubPic) /\ Len(queue) \in Nat
    BY DEF IInv, TypeOK, SubPic
  <1>2. /\ queue' \in Seq(SubPic) /\ Len(queue') = Len(queue) + 1
        /\ \A n \in 1 .. Len(queue) : queue'[n] = queue[n]
        /\ queue'[Len(queue) + 1] = pic
    BY <1>1, AppendProperties DEF Put
  <1>3. Len(queue') <= QueueSize
    BY <1>1, <1>2, QueueAssumption DEF HasRoom
  <1>4. \A n \in 1 .. Len(queue') : n \in 1 .. Len(queue) \/ n = Len(queue) + 1
    BY <1>1, <1>2
  <1>5. \A n \in 1 .. Len(queue) : queue[n].stop < pic.stop /\ queue[n].stop \in Int
    BY QueueElements DEF IInv, PicInv
  <1>6. QueueSorted'
    <2> SUFFICES ASSUME NEW i \in 1 .. Len(queue'), NEW j \in 1 .. Len(queue'), i < j
                 PROVE  queue'[i].stop < queue'[j].stop
      BY DEF QueueSorted
    <2>1. i \in 1 .. Len(queue)
      BY <1>1, <1>2
    <2>2. CASE j = Len(queue) + 1
      BY <1>2, <1>5, <2>1, <2>2
    <2>3. CASE j \in 1 .. Len(queue)
      BY <1>2, <2>1, <2>3 DEF IInv, QueueSorted
    <2> QED BY <1>4, <2>2, <2>3
  <1>7. InvalidatedIsGone'
    <2> SUFFICES ASSUME bInvalidate, NEW n \in 1 .. Len(queue')
                 PROVE  queue'[n].stop <= rtInvalidate
      BY DEF InvalidatedIsGone
    <2>1. pic.stop <= rtInvalidate
      BY <1>1 DEF Dropped, IInv, TypeOK
    <2>2. CASE n \in 1 .. Len(queue)
      BY <1>2, <2>2 DEF IInv, InvalidatedIsGone
    <2>3. CASE n = Len(queue) + 1
      BY <1>2, <2>1, <2>3
    <2> QED BY <1>4, <2>2, <2>3
  <1>8. ASSUME NEW x \in Int, pic.stop <= x PROVE Under(x)'
    BY <1>1, <1>2, <1>4, <1>5, <1>8 DEF Under
  <1> QED BY <1>2, <1>3, <1>6, <1>7, <1>8

(* The search takes subpictures off the head; the one it finds is current.    *)
LEMMA SearchKeeps ==
    ASSUME IInv, Search
    PROVE  /\ Shrinks /\ Len(queue') <= QueueSize
           /\ found' \in SubPic /\ (found' # NoPic => InSegment(found', rt))
           /\ rpc' \in {"ask", "save"}
  <1> DEFINE stops == {n \in 1 .. Len(queue) : StopsAt(queue[n])}
             last == IF stops = {} THEN Len(queue) ELSE Min(stops)
             popped == IF stops # {} /\ KeptAt(queue[last], Best[last - 1]) THEN last - 1 ELSE last
  <1>1. /\ rpc \in {"search", "searchAgain"} /\ found' = Best[last]
        /\ queue' = SubSeq(queue, popped + 1, Len(queue)) /\ rpc' \in {"ask", "save"}
    BY DEF Search
  <1>2. Len(queue) \in Nat /\ Len(queue) <= QueueSize /\ QueueSize \in Nat
    BY QueueAssumption DEF IInv, TypeOK
  <1>3. last \in 0 .. Len(queue) /\ (stops # {} => last \in 1 .. Len(queue))
    <2>1. stops \subseteq Nat /\ stops \subseteq 1 .. Len(queue)
      BY <1>2
    <2>2. CASE stops = {}
      BY <1>2, <2>2
    <2>3. CASE stops # {}
      <3>1. Min(stops) \in stops
        <4> HIDE DEF stops
        <4> QED BY <2>1, <2>3, MinIsLeast
      <3>2. last = Min(stops)
        BY <2>3
      <3> HIDE DEF stops, last
      <3>3. last \in 1 .. Len(queue)
        BY <2>1, <3>1, <3>2
      <3> QED BY <1>2, <3>3
    <2> QED BY <2>2, <2>3
  <1> HIDE DEF stops, last
  <1>4. found' \in SubPic /\ (found' # NoPic => InSegment(found', rt))
    <2>1. found # NoPic => InSegment(found, rt)
      BY <1>1 DEF IInv, FoundInv
    <2>2. Best[last] \in SubPic /\ (Best[last] # NoPic => InSegment(Best[last], rt))
      BY <1>3, <2>1, BestIsCurrent DEF IInv
    <2> QED BY <1>1, <2>2
  <1>5. popped \in 0 .. Len(queue)
    BY <1>2, <1>3
  <1> HIDE DEF popped
  <1>6. \A n \in popped + 1 .. Len(queue) : queue[n] \in SubPic
    BY <1>2, <1>5, QueueElements DEF IInv
  <1>7. /\ queue' \in Seq(SubPic) /\ Len(queue') = Len(queue) - popped
        /\ \A n \in 1 .. Len(queue') : queue'[n] = queue[n + popped]
    <2>1. /\ SubSeq(queue, popped + 1, Len(queue)) \in Seq(SubPic)
          /\ Len(SubSeq(queue, popped + 1, Len(queue)))
                = IF popped + 1 <= Len(queue) THEN Len(queue) - (popped + 1) + 1 ELSE 0
          /\ \A n \in 1 .. Len(queue) - (popped + 1) + 1 :
                SubSeq(queue, popped + 1, Len(queue))[n] = queue[popped + 1 + n - 1]
      <3>1. popped + 1 \in Int /\ Len(queue) \in Int
        BY <1>2, <1>5
      <3> QED BY <1>6, <3>1, SubSeqProperties
    <2>2. Len(queue') = Len(queue) - popped /\ Len(queue) - (popped + 1) + 1 = Len(queue) - popped
      BY <1>1, <1>2, <1>5, <2>1
    <2>3. \A n \in 1 .. Len(queue') : popped + 1 + n - 1 = n + popped
      BY <1>2, <1>5, <2>2
    <2> QED BY <1>1, <2>1, <2>2, <2>3
  <1>8. Shrinks
    <2>1. popped \in Nat /\ Len(queue') <= Len(queue)
      BY <1>2, <1>5, <1>7
    <2>2. \A n \in 1 .. Len(queue') : n + popped \in 1 .. Len(queue)
      BY <1>2, <1>5, <1>7
    <2> QED BY <1>7, <2>1, <2>2 DEF Shrinks
  <1>9. Len(queue') <= QueueSize
    BY <1>2, <1>5, <1>7
  <1> QED BY <1>1, <1>4, <1>8, <1>9

-----------------------------------------------------------------------------
LEMMA InitIInv == Init => IInv
  <1> SUFFICES ASSUME Init PROVE IInv
    OBVIOUS
  <1>1. queue = <<>> /\ queue \in Seq(SubPic) /\ Len(queue) = 0
    BY DEF Init
  <1>2. NoPic \in SubPic
    BY DEF NoPic, SubPic
  <1>3. TypeOK
    <2>1. wrapper \in Wrapper /\ held \in Wrapper
      BY QueueAssumption DEF Init, Wrapper
    <2>2. content \in [Providers -> Scripts] /\ QueueSize \in Nat
      BY QueueAssumption DEF Init
    <2>3. bInvalidate \in BOOLEAN /\ {event, bExit, bWait, bTry} \subseteq BOOLEAN
      <3>1. CASE FirstProvider = NoProvider
        BY <3>1 DEF Init
      <3>2. CASE FirstProvider # NoProvider
        BY <3>2 DEF Init
      <3> QED BY <3>1, <3>2
    <2>6. rtNow \in Nat /\ rt \in Nat /\ rtNowLast \in Nat \cup {ERROR} /\ rtInvalidate \in Int
      BY DEF Init
    <2>4. /\ qpc \in QueueLabels /\ pos \in Nat /\ rtStart \in Int /\ rtCur \in Int
          /\ rpc = "idle" /\ upc = "idle" /\ pending = <<>> /\ seeks \in Nat /\ edits \in Nat
      BY DEF Init, QueueLabels
    <2>5. shown \in SubPic /\ found \in SubPic /\ pic \in SubPic
      BY <1>2 DEF Init
    <2> QED BY <1>1, <2>1, <2>2, <2>3, <2>4, <2>5, <2>6 DEF TypeOK
  <1>4. QueueSorted /\ InvalidatedIsGone
    BY <1>1 DEF QueueSorted, InvalidatedIsGone
  <1>5. PassInv /\ PicInv /\ FrontInv /\ FoundInv
    BY DEF Init, PassInv, PicInv, FrontInv, FoundInv, InPass, AtASegment
  <1> QED BY <1>3, <1>4, <1>5 DEF IInv

(* The queue thread, step by step.                                            *)
LEMMA ThreadKeeps == ASSUME IInv, ThreadProc PROVE IInv'
  <1> USE DEF rendererVars, callerVars, sharedVars
  <1>0. UNCHANGED <<shown, rtNow, rtNowLast, rtInvalidate, bExit, wrapper, content,
                    rpc, rt, found, bTry, upc, pending, seeks, edits>>
    BY DEF ThreadProc, Top, Wake, Grab, LockProvider, BeginPass, Position, AtSegment, RenderPic,
           RenderFails, CopyFails, Enqueue, Advance, EndPass, EnqueueBlocking
  <1>f. FoundInv'
    BY <1>0 DEF IInv, FoundInv, InSegment
  <1>t. TypeOK
    BY DEF IInv
  <1>1. CASE Top
    <2>1. /\ UNCHANGED <<sharedVars, held, pos, rtStart, rtCur, pic>> /\ bWait' = FALSE
          /\ qpc = "top" /\ qpc' \in {"done", "wait", "grab"}
      BY <1>1 DEF Top
    <2>2. TypeOK'
      BY <1>0, <1>t, <2>1, ZenonT(40) DEF TypeOK, QueueLabels
    <2> QED BY <1>f, <2>1, <2>2
            DEF IInv, QueueSorted, InvalidatedIsGone, PassInv, PicInv, FrontInv, InPass, AtASegment
  <1>2. CASE Wake
    <2>1. /\ UNCHANGED <<queue, bInvalidate, bWait, held, pos, rtStart, rtCur, pic>> /\ event' = FALSE
          /\ qpc = "wait" /\ qpc' = "grab"
      BY <1>2 DEF Wake
    <2>2. TypeOK'
      BY <1>0, <1>t, <2>1 DEF TypeOK, QueueLabels
    <2> QED BY <1>0, <1>f, <2>1, <2>2
            DEF IInv, QueueSorted, InvalidatedIsGone, PassInv, PicInv, FrontInv, InPass, AtASegment
  <1>3. CASE Grab
    <2>1. /\ UNCHANGED <<sharedVars, pos, rtStart, rtCur, pic>> /\ held' = wrapper
          /\ qpc = "grab" /\ bWait' \in BOOLEAN
          /\ qpc' = "top" \/ (qpc' = "lock" /\ wrapper.prov # NoProvider)
      BY <1>3, <1>t DEF Grab, TypeOK
    <2>2. TypeOK'
      BY <1>0, <1>t, <2>1 DEF TypeOK, QueueLabels
    <2>3. wrapper.prov # NoProvider => wrapper.prov \in Providers
      BY <1>t DEF TypeOK, Wrapper
    <2> QED BY <1>0, <1>f, <2>1, <2>2, <2>3
            DEF IInv, QueueSorted, InvalidatedIsGone, PassInv, PicInv, FrontInv, InPass, AtASegment
  <1>4. CASE LockProvider
    <2>1. /\ UNCHANGED <<queue, event, bWait, held, pos, rtStart, rtCur, pic>> /\ bInvalidate' = FALSE
          /\ qpc = "lock" /\ qpc' = "begin"
      BY <1>4 DEF LockProvider
    <2>2. TypeOK'
      BY <1>0, <1>t, <2>1 DEF TypeOK, QueueLabels
    <2> QED BY <1>f, <2>1, <2>2
            DEF IInv, QueueSorted, InvalidatedIsGone, PassInv, PicInv, FrontInv, InPass, AtASegment
  <1>5. CASE BeginPass
    <2>1. /\ UNCHANGED <<sharedVars, bWait, held, pos, rtCur, pic>> /\ rtStart' = TailStop
          /\ qpc = "begin" /\ qpc' = "position"
      BY <1>5 DEF BeginPass
    <2>2. Len(queue) \in Nat /\ (queue # <<>> => Len(queue) \in 1 .. Len(queue))
      BY <1>t, EmptySeq DEF TypeOK
    <2>3. TailStop \in Int /\ Under(TailStop)
      <3>1. CASE queue = <<>>
        BY <3>1 DEF TailStop, Under
      <3>2. CASE queue # <<>>
        <4>1. TailStop = queue[Len(queue)].stop /\ TailStop \in Int
          BY <1>t, <2>2, <3>2, QueueElements DEF TailStop
        <4>2. ASSUME NEW n \in 1 .. Len(queue) PROVE queue[n].stop <= TailStop
          <5>1. CASE n = Len(queue)
            BY <4>1, <5>1
          <5>2. CASE n # Len(queue)
            <6>1. n < Len(queue) /\ queue[n].stop \in Int
              BY <1>t, <2>2, <5>2, QueueElements
            <6>2. queue[n].stop < TailStop
              BY <2>2, <3>2, <4>1, <6>1 DEF IInv, QueueSorted
            <6> QED BY <4>1, <6>1, <6>2
          <5> QED BY <5>1, <5>2
        <4> QED BY <4>1, <4>2 DEF Under
      <3> QED BY <3>1, <3>2
    <2>4. TypeOK'
      BY <1>0, <1>t, <2>1, <2>3 DEF TypeOK, QueueLabels
    <2>5. FrontInv'
      BY <2>1, <2>3 DEF FrontInv, Under
    <2> QED BY <1>0, <1>f, <2>1, <2>4, <2>5
            DEF IInv, QueueSorted, InvalidatedIsGone, PassInv, PicInv, InPass, AtASegment
  <1>6. CASE Position
    <2>1. /\ UNCHANGED <<sharedVars, held, rtCur, pic>> /\ qpc = "position"
          /\ rtStart' = Larger(rtStart, rtNow) /\ bWait' \in BOOLEAN
          /\ pos' = StartPosition(content[held.prov], rtStart')
          /\ qpc' = IF pos' = 0 THEN "unlock" ELSE "segment"
      BY <1>6 DEF Position
    <2>2. held.prov \in Providers /\ content[held.prov] \in Scripts
      BY <1>t, <2>1 DEF IInv, PassInv, InPass, TypeOK
    <2>3. pos' \in Nat /\ (pos' # 0 => pos' \in 1 .. Len(content[held.prov]))
      BY <2>1, <2>2, StartPositionIsOne
    <2>4. rtStart' \in Int /\ rtStart <= rtStart' /\ rtStart \in Int
      BY <1>t, <2>1 DEF TypeOK, Larger
    <2>5. TypeOK'
      BY <1>0, <1>t, <2>1, <2>3, <2>4 DEF TypeOK, QueueLabels
    <2>6. PassInv' /\ PicInv'
      BY <1>0, <2>1, <2>2, <2>3 DEF IInv, PassInv, PicInv, InPass, AtASegment
    <2>7. FrontInv'
      <3>1. CASE qpc' = "unlock"
        BY <3>1 DEF FrontInv
      <3>2. CASE qpc' = "segment"
        <4> DEFINE start == content[held.prov][pos'].start
        <4>1. start \in Nat /\ Seg'.start = start
          BY <1>0, <2>1, <2>2, <2>3, <3>2, ScriptSegments DEF Seg
        <4>2. Larger(start, rtStart') \in Int /\ rtStart <= Larger(start, rtStart')
          <5> HIDE DEF start
          <5> QED BY <2>4, <4>1 DEF Larger
        <4>3. \A n \in 1 .. Len(queue) : queue[n].stop \in Int /\ queue[n].stop <= rtStart
          BY <1>t, <2>1, QueueElements DEF IInv, FrontInv, Under
        <4> HIDE DEF start
        <4>4. \A n \in 1 .. Len(queue) : queue[n].stop <= Larger(start, rtStart')
          BY <2>4, <4>2, <4>3
        <4> QED BY <2>1, <3>2, <4>1, <4>4 DEF FrontInv, Under
      <3> QED BY <2>1, <3>1, <3>2
    <2> QED BY <1>0, <1>f, <2>1, <2>5, <2>6, <2>7 DEF IInv, QueueSorted, InvalidatedIsGone
  <1>7. CASE AtSegment
    <2>1. /\ UNCHANGED <<sharedVars, held, rtStart, pic>> /\ qpc = "segment" /\ bWait' \in BOOLEAN
      BY <1>7, <1>t DEF AtSegment, TypeOK
    <2>2. Seg.start \in Nat /\ Seg.stop \in Nat /\ Seg.start < Seg.stop /\ held.prov \in Providers
      BY <2>1, SegIsTyped DEF AtASegment
    <2>3. rtStart \in Int /\ rtNow \in Nat /\ rtCur \in Int
      BY <1>t DEF TypeOK
    <2> DEFINE front == Larger(Seg.start, rtStart)
    <2>4. Under(front) /\ front \in Int
      BY <2>1, <2>2, <2>3 DEF IInv, FrontInv, Larger
    <2>5. CASE qpc' = "unlock" /\ pos' = 0 /\ UNCHANGED rtCur
      <3>1. TypeOK'
        BY <1>0, <1>t, <2>1, <2>5 DEF TypeOK, QueueLabels
      <3>2. PassInv' /\ PicInv' /\ FrontInv'
        BY <2>1, <2>2, <2>5 DEF IInv, PassInv, PicInv, FrontInv, InPass, AtASegment
      <3> QED BY <1>0, <1>f, <2>1, <3>1, <3>2 DEF IInv, QueueSorted, InvalidatedIsGone
    <2>6. CASE /\ rtCur' = Larger(front, rtNow) /\ rtCur' < Seg.stop
               /\ qpc' = "render" /\ UNCHANGED pos
      <3>1. rtCur' \in Nat /\ front <= rtCur'
        BY <2>2, <2>3, <2>4, <2>6 DEF Larger
      <3> HIDE DEF front
      <3>2. TypeOK'
        BY <1>0, <1>t, <2>1, <2>6, <3>1 DEF TypeOK, QueueLabels
      <3>3. Under(rtCur')
        BY <1>t, <2>4, <3>1, UnderMore
      <3>4. Seg' = Seg
        BY <1>0, <2>1, <2>6 DEF Seg
      <3>5. FrontInv'
        BY <2>1, <2>6, <3>1, <3>3, <3>4 DEF FrontInv, Under
      <3>6. PassInv' /\ PicInv'
        BY <1>0, <2>1, <2>6 DEF IInv, PassInv, PicInv, InPass, AtASegment
      <3> QED BY <1>0, <1>f, <2>1, <3>2, <3>5, <3>6 DEF IInv, QueueSorted, InvalidatedIsGone
    <2>7. CASE rtCur' = Larger(front, rtNow) /\ NextSegment
      <3>1. rtCur' \in Int
        BY <2>3, <2>4, <2>7 DEF Larger
      <3>2. Larger(Seg.stop, rtStart) \in Int /\ front <= Larger(Seg.stop, rtStart)
        BY <2>2, <2>3 DEF Larger
      <3> HIDE DEF front
      <3>3. Under(Larger(Seg.stop, rtStart))
        BY <1>t, <2>4, <3>2, UnderMore
      <3>4. pic' # NoPic => \A n \in 1 .. Len(queue) : queue[n].stop < pic'.stop
        BY <2>1 DEF IInv, PicInv
      <3>5. qpc' \in QueueLabels /\ pos' \in Nat /\ PassInv' /\ PicInv' /\ FrontInv'
        BY <1>0, <2>1, <2>7, <3>3, <3>4, NextSegmentKeeps DEF AtASegment
      <3>6. TypeOK'
        BY <1>0, <1>t, <2>1, <3>1, <3>5 DEF TypeOK
      <3> QED BY <1>0, <1>f, <2>1, <3>5, <3>6 DEF IInv, QueueSorted, InvalidatedIsGone
    <2> QED BY <1>7, <2>5, <2>6, <2>7 DEF AtSegment
  <1>8. CASE RenderPic
    <2>1. /\ UNCHANGED <<sharedVars, bWait, held, pos, rtStart>> /\ pic' = NewPic
          /\ qpc = "render" /\ wrapper.prov # NoProvider /\ qpc' = "enqueue" /\ rtCur' = GoesOnAt
      BY <1>8 DEF RenderPic, GoesOnAt
    <2>2. /\ NewPic \in SubPic /\ NewPic # NoPic /\ GoesOnAt \in Int
          /\ NewPic.stop \in Int /\ rtCur < NewPic.stop /\ NewPic.stop <= GoesOnAt
          /\ ~LastSegment => NewPic.stop <= Seg.stop
      BY <2>1, NewPicIsLater
    <2> HIDE DEF NewPic, GoesOnAt
    <2>3. \A n \in 1 .. Len(queue) : queue[n].stop < NewPic.stop
      BY <1>t, <2>1, <2>2, QueueElements DEF IInv, FrontInv, Under
    <2>4. TypeOK'
      BY <1>0, <1>t, <2>1, <2>2 DEF TypeOK, QueueLabels
    <2>5. Seg' = Seg /\ LastSegment' = LastSegment
      BY <1>0, <2>1 DEF Seg, LastSegment
    <2>6. PassInv' /\ PicInv'
      BY <1>0, <2>1, <2>2, <2>3 DEF IInv, PassInv, PicInv, InPass, AtASegment
    <2>7. FrontInv'
      BY <2>1, <2>2, <2>5 DEF FrontInv
    <2> QED BY <1>0, <1>f, <2>1, <2>4, <2>6, <2>7 DEF IInv, QueueSorted, InvalidatedIsGone
  <1>9. CASE RenderFails \/ CopyFails
    <2>1. /\ UNCHANGED <<sharedVars, bWait, held, rtStart, rtCur>> /\ qpc = "render" /\ NextSegment
          /\ \/ pic' = pic
             \/ wrapper.prov # NoProvider /\ pic' \in {NoPic, [NewPic EXCEPT !.src = {}]}
      BY <1>9 DEF RenderFails, CopyFails
    <2>2. rtCur \in Nat /\ rtCur < Seg.stop /\ Under(rtCur)
      BY <2>1 DEF IInv, FrontInv
    <2>3. pic' \in SubPic /\ (pic' # NoPic => \A n \in 1 .. Len(queue) : queue[n].stop < pic'.stop)
      <3>1. CASE pic' = pic
        BY <1>t, <3>1 DEF IInv, PicInv, TypeOK
      <3>2. CASE pic' = NoPic
        BY <3>2 DEF NoPic, SubPic
      <3>3. CASE wrapper.prov # NoProvider /\ pic' = [NewPic EXCEPT !.src = {}]
        <4>1. NewPic \in SubPic /\ NewPic.stop \in Int /\ rtCur < NewPic.stop
          BY <2>1, <3>3, NewPicIsLater
        <4> HIDE DEF NewPic
        <4>2. pic' \in SubPic /\ pic'.stop = NewPic.stop
          BY <3>3, <4>1 DEF SubPic
        <4>3. \A n \in 1 .. Len(queue) : queue[n].stop < NewPic.stop
          BY <1>t, <2>2, <4>1, QueueElements DEF Under
        <4> QED BY <4>2, <4>3
      <3> QED BY <2>1, <3>1, <3>2, <3>3
    <2>4. Under(Larger(Seg.stop, rtStart))
      <3>1. Larger(Seg.stop, rtStart) \in Int /\ rtCur <= Larger(Seg.stop, rtStart)
        <4>1. Seg.stop \in Nat /\ rtStart \in Int
          BY <1>t, <2>1, SegIsTyped DEF AtASegment, TypeOK
        <4> QED BY <2>2, <4>1 DEF Larger
      <3> QED BY <1>t, <2>2, <3>1, UnderMore
    <2>5. qpc' \in QueueLabels /\ pos' \in Nat /\ PassInv' /\ PicInv' /\ FrontInv'
      BY <1>0, <2>1, <2>3, <2>4, NextSegmentKeeps DEF AtASegment
    <2>6. TypeOK'
      BY <1>0, <1>t, <2>1, <2>3, <2>5 DEF TypeOK
    <2> QED BY <1>0, <1>f, <2>1, <2>5, <2>6 DEF IInv, QueueSorted, InvalidatedIsGone
  <1>10. CASE Enqueue
    <2>1. /\ UNCHANGED <<bInvalidate, event, bWait, held, rtStart>> /\ qpc = "enqueue"
      BY <1>10 DEF Enqueue
    <2>2. pic # NoPic /\ pic.stop \in Int /\ pic.stop <= rtCur /\ rtCur \in Int
      BY <1>t, <2>1 DEF IInv, PicInv, FrontInv, TypeOK, SubPic
    <2>3. CASE ~HasRoom \/ Dropped
      <3>1. /\ qpc' = "unlock" /\ pos' = 0 /\ pic' \in {NoPic, pic} /\ UNCHANGED <<queue, rtCur>>
        BY <1>10, <2>3 DEF Enqueue
      <3>2. NoPic \in SubPic
        BY DEF NoPic, SubPic
      <3>3. TypeOK'
        BY <1>0, <1>t, <2>1, <3>1, <3>2 DEF TypeOK, QueueLabels
      <3>4. PassInv' /\ PicInv' /\ FrontInv'
        BY <2>1, <3>1 DEF IInv, PassInv, PicInv, FrontInv, InPass, AtASegment
      <3> QED BY <1>0, <1>f, <2>1, <3>1, <3>3, <3>4 DEF IInv, QueueSorted, InvalidatedIsGone
    <2>4. CASE HasRoom /\ ~Dropped
      <3>1. /\ Put /\ pic' = NoPic /\ qpc' = "advance" /\ UNCHANGED <<pos, rtCur>>
        BY <1>10, <2>4 DEF Enqueue
      <3>2. /\ queue' \in Seq(SubPic) /\ Len(queue') <= QueueSize
            /\ QueueSorted' /\ InvalidatedIsGone'
            /\ \A x \in Int : pic.stop <= x => Under(x)'
        BY <1>0, <2>1, <2>2, <2>4, <3>1, PutKeeps
      <3>3. NoPic \in SubPic
        BY DEF NoPic, SubPic
      <3>4. TypeOK'
        BY <1>0, <1>t, <2>1, <3>1, <3>2, <3>3 DEF TypeOK, QueueLabels
      <3>5. PassInv' /\ PicInv'
        BY <1>0, <2>1, <3>1 DEF IInv, PassInv, PicInv, InPass, AtASegment
      <3>6. FrontInv'
        <4>1. Seg' = Seg /\ LastSegment' = LastSegment /\ Seg.stop \in Int
          BY <1>0, <2>1, <3>1, SegIsTyped DEF Seg, LastSegment, AtASegment
        <4>2. Under(rtCur)' /\ (~LastSegment => Under(Seg.stop)')
          <5>1. \A n \in 1 .. Len(queue') : queue'[n].stop <= rtCur
            BY <2>2, <3>2 DEF Under
          <5>2. ~LastSegment => \A n \in 1 .. Len(queue') : queue'[n].stop <= Seg.stop
            BY <2>1, <3>2, <4>1 DEF IInv, FrontInv, Under
          <5> QED BY <3>1, <4>1, <5>1, <5>2 DEF Under
        <4> QED BY <3>1, <4>1, <4>2 DEF FrontInv
      <3> QED BY <1>f, <3>2, <3>4, <3>5, <3>6 DEF IInv
    <2> QED BY <2>3, <2>4
  <1>11. CASE Advance
    <2>1. /\ UNCHANGED <<sharedVars, bWait, held, rtStart, pic>> /\ qpc = "advance"
          /\ rtCur' = Larger(rtCur, rtNow)
          /\ \/ rtCur' < Seg.stop /\ qpc' = "render" /\ UNCHANGED pos
             \/ NextSegment
      BY <1>11 DEF Advance
    <2>2. rtCur \in Int /\ rtNow \in Nat
      BY <1>t DEF TypeOK
    <2>3. rtCur' \in Nat /\ rtCur <= rtCur'
      BY <2>1, <2>2 DEF Larger
    <2>4. Under(rtCur) /\ (~LastSegment => Under(Seg.stop)) /\ pic = NoPic
      BY <2>1 DEF IInv, FrontInv, PicInv
    <2>5. CASE qpc' = "render" /\ UNCHANGED pos /\ rtCur' < Seg.stop
      <3>1. TypeOK'
        BY <1>0, <1>t, <2>1, <2>3, <2>5 DEF TypeOK, QueueLabels
      <3>2. Seg' = Seg
        BY <1>0, <2>1, <2>5 DEF Seg
      <3>3. Under(rtCur')
        BY <1>t, <2>2, <2>3, <2>4, UnderMore
      <3>4. FrontInv'
        BY <2>1, <2>3, <2>5, <3>2, <3>3 DEF FrontInv, Under
      <3>5. PassInv' /\ PicInv'
        BY <1>0, <2>1, <2>4, <2>5 DEF IInv, PassInv, PicInv, InPass, AtASegment
      <3> QED BY <1>0, <1>f, <2>1, <3>1, <3>4, <3>5 DEF IInv, QueueSorted, InvalidatedIsGone
    <2>6. CASE NextSegment
      <3>1. ~LastSegment => Under(Larger(Seg.stop, rtStart))
        <4>1. Seg.stop \in Nat /\ rtStart \in Int
          BY <1>t, <2>1, SegIsTyped DEF AtASegment, TypeOK
        <4>2. Larger(Seg.stop, rtStart) \in Int /\ Seg.stop <= Larger(Seg.stop, rtStart)
          BY <4>1 DEF Larger
        <4> QED BY <1>t, <2>4, <4>1, <4>2, UnderMore
      <3>2. qpc' \in QueueLabels /\ pos' \in Nat /\ PassInv' /\ PicInv' /\ FrontInv'
        BY <1>0, <2>1, <2>4, <2>6, <3>1, NextSegmentKeeps DEF AtASegment
      <3>3. TypeOK'
        BY <1>0, <1>t, <2>1, <2>3, <3>2 DEF TypeOK
      <3> QED BY <1>0, <1>f, <2>1, <3>2, <3>3 DEF IInv, QueueSorted, InvalidatedIsGone
    <2> QED BY <2>1, <2>5, <2>6
  <1>12. CASE EndPass
    <2>1. /\ UNCHANGED <<sharedVars, bWait, held, pos, rtStart, rtCur, pic>>
          /\ qpc = "unlock" /\ qpc' = IF pic = NoPic THEN "top" ELSE "blocked"
      BY <1>12 DEF EndPass
    <2>2. TypeOK'
      BY <1>0, <1>t, <2>1 DEF TypeOK, QueueLabels
    <2> QED BY <1>0, <1>f, <2>1, <2>2
            DEF IInv, QueueSorted, InvalidatedIsGone, PassInv, PicInv, FrontInv, InPass, AtASegment
  <1>13. CASE EnqueueBlocking
    <2>1. /\ UNCHANGED <<bInvalidate, event, bWait, held, pos, rtStart, rtCur>>
          /\ qpc = "blocked" /\ HasRoom /\ pic' = NoPic /\ qpc' = "top"
          /\ (Dropped /\ UNCHANGED queue) \/ (~Dropped /\ Put)
      BY <1>13 DEF EnqueueBlocking
    <2>2. queue' \in Seq(SubPic) /\ Len(queue') <= QueueSize /\ QueueSorted' /\ InvalidatedIsGone'
      <3>1. CASE UNCHANGED queue
        BY <1>0, <1>t, <2>1, <3>1 DEF IInv, TypeOK, QueueSorted, InvalidatedIsGone
      <3>2. CASE ~Dropped /\ Put
        BY <1>0, <2>1, <3>2, PutKeeps DEF IInv, PicInv
      <3> QED BY <2>1, <3>1, <3>2
    <2>3. NoPic \in SubPic
      BY DEF NoPic, SubPic
    <2>4. TypeOK'
      BY <1>0, <1>t, <2>1, <2>2, <2>3 DEF TypeOK, QueueLabels
    <2>5. PassInv' /\ PicInv' /\ FrontInv'
      BY <2>1 DEF PassInv, PicInv, FrontInv, InPass, AtASegment
    <2> QED BY <1>f, <2>2, <2>4, <2>5 DEF IInv
  <1> QED BY <1>1, <1>2, <1>3, <1>4, <1>5, <1>6, <1>7, <1>8, <1>9, <1>10, <1>11, <1>12, <1>13 DEF ThreadProc

-----------------------------------------------------------------------------
(* The video renderer.                                                        *)
LEMMA NothingShrinks == ASSUME TypeOK, UNCHANGED queue PROVE Shrinks
  <1>1. queue' \in Seq(SubPic) /\ Len(queue') \in Nat /\ Len(queue') <= Len(queue)
    BY DEF TypeOK
  <1>2. \A n \in 1 .. Len(queue') : n + 0 \in 1 .. Len(queue) /\ queue'[n] = queue[n + 0]
    BY <1>1
  <1> QED BY <1>1, <1>2 DEF Shrinks

LEMMA RendererKeeps == ASSUME IInv, Renderer PROVE IInv'
  <1>0. TypeOK /\ UNCHANGED queueThreadVars /\ UNCHANGED callerVars
    BY DEF IInv, Renderer, SetTime, CheckSeek, SetLast, Reuse, Search, Ask, Save
  <1>1. UNCHANGED <<qpc, bWait, held, pos, rtStart, rtCur, pic>>
    BY <1>0 DEF queueThreadVars
  <1>2. UNCHANGED <<bExit, wrapper, content, upc, pending, edits>>
    BY <1>0 DEF callerVars
  <1>3. ASSUME UNCHANGED queue
        PROVE  QueueSorted' /\ PassInv' /\ PicInv' /\ FrontInv'
    BY <1>0, <1>2, <1>3, NothingShrinks, OthersKeep
  <1>4. NoPic \in SubPic
    BY DEF NoPic, SubPic
  <1>5. ASSUME NEW t \in Times, SetTime(t) PROVE IInv'
    <2>1. /\ UNCHANGED <<queue, shown, rtNowLast, bInvalidate, rtInvalidate, event, found, bTry>>
          /\ rt' = t /\ rtNow' = t /\ rpc' = "checkSeek" /\ t \in Nat /\ seeks' \in Nat
      BY <1>0, <1>5, QueueAssumption DEF SetTime, TypeOK
    <2>2. TypeOK'
      BY <1>0, <1>1, <1>2, <2>1 DEF TypeOK
    <2> QED BY <1>3, <2>1, <2>2 DEF IInv, InvalidatedIsGone, FoundInv
  <1>6. CASE CheckSeek
    <2>1. /\ UNCHANGED <<rt, found, bTry, seeks>> /\ rpc' = "setLast"
          /\ Invalidate(rtNow) \/ UNCHANGED sharedVars
      BY <1>6 DEF CheckSeek
    <2>2. CASE UNCHANGED sharedVars
      <3>1. UNCHANGED <<queue, shown, rtNow, rtNowLast, bInvalidate, rtInvalidate, event>>
        BY <2>2 DEF sharedVars
      <3>2. TypeOK'
        BY <1>0, <1>1, <1>2, <2>1, <3>1 DEF TypeOK
      <3> QED BY <1>3, <2>1, <3>1, <3>2 DEF IInv, InvalidatedIsGone, FoundInv
    <2>3. CASE Invalidate(rtNow)
      <3>1. /\ Shrinks /\ Len(queue') <= QueueSize /\ InvalidatedIsGone'
            /\ shown' \in SubPic /\ rtNow' \in Nat /\ rtNowLast' \in Nat \cup {ERROR}
            /\ bInvalidate' \in BOOLEAN /\ rtInvalidate' \in Int /\ event' \in BOOLEAN
        <4>1. rtNow \in Int
          BY <1>0 DEF TypeOK
        <4> QED BY <2>3, <4>1, InvalidateKeeps
      <3>2. QueueSorted' /\ PassInv' /\ PicInv' /\ FrontInv'
        BY <1>0, <1>2, <3>1, OthersKeep
      <3>3. TypeOK'
        BY <1>0, <1>1, <1>2, <2>1, <3>1 DEF TypeOK, Shrinks
      <3> QED BY <2>1, <3>1, <3>2, <3>3 DEF IInv, FoundInv
    <2> QED BY <2>1, <2>2, <2>3
  <1>7. CASE SetLast
    <2>1. /\ UNCHANGED <<queue, shown, rtNow, bInvalidate, rtInvalidate, rt, found, bTry, seeks>>
          /\ rtNowLast' = rtNow /\ event' = TRUE /\ rpc' = "reuse"
      BY <1>7 DEF SetLast
    <2>2. TypeOK'
      BY <1>0, <1>1, <1>2, <2>1 DEF TypeOK
    <2> QED BY <1>3, <2>1, <2>2 DEF IInv, InvalidatedIsGone, FoundInv
  <1>8. CASE Reuse
    <2>1. /\ UNCHANGED <<queue, rtNow, rtNowLast, bInvalidate, rtInvalidate, event, rt, seeks>>
          /\ bTry' = Blocking /\ shown' \in {NoPic, shown} /\ rpc' \in {"save", "search"}
          /\ found' = IF InSegment(shown, rt) THEN shown ELSE NoPic
      BY <1>8 DEF Reuse
    <2>2. TypeOK'
      BY <1>0, <1>1, <1>2, <1>4, <2>1, QueueAssumption DEF TypeOK
    <2>3. FoundInv'
      BY <2>1 DEF FoundInv, InSegment
    <2> QED BY <1>3, <2>1, <2>2, <2>3 DEF IInv, InvalidatedIsGone
  <1>9. CASE Search
    <2>1. UNCHANGED <<shown, rtNow, rtNowLast, bInvalidate, rtInvalidate, event, rt, bTry, seeks>>
      BY <1>9 DEF Search
    <2>2. /\ Shrinks /\ Len(queue') <= QueueSize
          /\ found' \in SubPic /\ (found' # NoPic => InSegment(found', rt))
          /\ rpc' \in {"ask", "save"}
      BY <1>9, SearchKeeps
    <2>3. QueueSorted' /\ PassInv' /\ PicInv' /\ FrontInv'
      BY <1>0, <1>2, <2>2, OthersKeep
    <2>4. TypeOK'
      BY <1>0, <1>1, <1>2, <2>1, <2>2 DEF TypeOK, Shrinks
    <2>5. InvalidatedIsGone'
      BY <1>0, <2>1, <2>2, ShrinkingKeeps DEF IInv, InvalidatedIsGone, Under
    <2>6. FoundInv'
      BY <2>1, <2>2 DEF FoundInv, InSegment
    <2> QED BY <2>3, <2>4, <2>5, <2>6 DEF IInv
  <1>10. CASE Ask
    <2>1. /\ UNCHANGED sharedVars /\ UNCHANGED <<rt, found, seeks>> /\ bTry' = FALSE
          /\ rpc = "ask" /\ rpc' \in {"searchAgain", "save"}
      BY <1>10 DEF Ask
    <2>2. UNCHANGED <<queue, shown, rtNow, rtNowLast, bInvalidate, rtInvalidate, event>>
      BY <2>1 DEF sharedVars
    <2>3. TypeOK'
      BY <1>0, <1>1, <1>2, <2>1, <2>2 DEF TypeOK
    <2>4. FoundInv'
      BY <2>1 DEF IInv, FoundInv, InSegment
    <2> QED BY <1>3, <2>2, <2>3, <2>4 DEF IInv, InvalidatedIsGone
  <1>11. CASE Save
    <2>1. /\ UNCHANGED <<queue, rtNow, rtNowLast, bInvalidate, rtInvalidate, event, rt, bTry, seeks>>
          /\ shown' \in {shown, found} /\ found' = NoPic /\ rpc' = "idle"
      BY <1>11 DEF Save
    <2>2. TypeOK'
      BY <1>0, <1>1, <1>2, <1>4, <2>1 DEF TypeOK
    <2> QED BY <1>3, <2>1, <2>2 DEF IInv, InvalidatedIsGone, FoundInv
  <1> QED BY <1>5, <1>6, <1>7, <1>8, <1>9, <1>10, <1>11 DEF Renderer

(* The user interface, and whoever edits subtitles: no edit while a pass has  *)
(* the provider locked.                                                       *)
LEMMA CallersKeep == ASSUME IInv, Caller \/ Editor PROVE IInv'
  <1>0. TypeOK /\ UNCHANGED queueThreadVars /\ UNCHANGED rendererVars
    BY DEF IInv, Caller, CallerContinues, Editor, SetSubPicProvider, Destroy, InvalidateAfterSwap,
           DropProvider, Close, Edit, InvalidateAfterEdit
  <1>1. UNCHANGED <<qpc, bWait, held, pos, rtStart, rtCur, pic>>
    BY <1>0 DEF queueThreadVars
  <1>2. UNCHANGED <<rpc, rt, found, bTry, seeks>>
    BY <1>0 DEF rendererVars
  <1>3. FoundInv'
    BY <1>2 DEF IInv, FoundInv, InSegment
  <1> DEFINE Sound ==
           /\ InPass => UNCHANGED content
           /\ content' \in [Providers -> Scripts] /\ wrapper' \in Wrapper /\ bExit' \in BOOLEAN
           /\ upc' \in {"idle", "swapped", "exiting", "destroying", "closing", "destroyed"}
           /\ pending' \in {<<>>} \cup (Providers \X Int) /\ edits' \in Nat
           /\ UNCHANGED sharedVars \/ \E t \in Int : Invalidate(t)
  <1>4. Sound
    <2>1. ASSUME NEW p \in Providers \cup {NoProvider}, SetSubPicProvider(p) PROVE Sound
      BY <1>0, <2>1 DEF TypeOK, SetSubPicProvider, Swap, Wrapper
    <2>2. CASE Destroy
      BY <1>0, <2>2 DEF TypeOK, Destroy
    <2>3. CASE InvalidateAfterSwap
      BY <1>0, <2>3 DEF TypeOK, InvalidateAfterSwap
    <2>4. CASE DropProvider
      BY <1>0, <2>4 DEF TypeOK, DropProvider, Swap, Wrapper
    <2>5. CASE Close
      BY <1>0, <2>5 DEF TypeOK, Close
    <2>6. ASSUME NEW e \in Edits, Edit(e) PROVE Sound
      <3>1. e[2] \in Scripts /\ e[3] \in Int /\ wrapper.prov \in Providers
        BY <1>0, <2>6, QueueAssumption DEF Edit, TypeOK, Wrapper
      <3> QED BY <1>0, <2>6, <3>1 DEF TypeOK, Edit
    <2>7. CASE InvalidateAfterEdit
      <3>1. pending \in Providers \X Int
        BY <1>0, <2>7 DEF TypeOK, InvalidateAfterEdit
      <3> QED BY <1>0, <2>7, <3>1 DEF TypeOK, InvalidateAfterEdit
    <2> QED BY <2>1, <2>2, <2>3, <2>4, <2>5, <2>6, <2>7 DEF Caller, CallerContinues, Editor
  <1>5. /\ Shrinks /\ Len(queue') <= QueueSize /\ InvalidatedIsGone'
        /\ shown' \in SubPic /\ rtNow' \in Nat /\ rtNowLast' \in Nat \cup {ERROR}
        /\ bInvalidate' \in BOOLEAN /\ rtInvalidate' \in Int /\ event' \in BOOLEAN
    <2>1. CASE UNCHANGED sharedVars
      <3>1. UNCHANGED <<queue, shown, rtNow, rtNowLast, bInvalidate, rtInvalidate, event>>
        BY <2>1 DEF sharedVars
      <3> QED BY <1>0, <3>1, NothingShrinks DEF IInv, TypeOK, InvalidatedIsGone
    <2>2. CASE \E t \in Int : Invalidate(t)
      BY <2>2, InvalidateKeeps
    <2> QED BY <1>4, <2>1, <2>2
  <1>6. QueueSorted' /\ PassInv' /\ PicInv' /\ FrontInv'
    BY <1>0, <1>4, <1>5, OthersKeep
  <1>7. TypeOK'
    BY <1>0, <1>1, <1>2, <1>4, <1>5 DEF TypeOK, Shrinks
  <1> QED BY <1>3, <1>5, <1>6, <1>7 DEF IInv

LEMMA NextKeeps == ASSUME IInv, [Next]_vars PROVE IInv'
  <1>1. CASE UNCHANGED vars
    BY <1>1 DEF vars, sharedVars, queueThreadVars, rendererVars, callerVars, IInv, TypeOK,
                QueueSorted, InvalidatedIsGone, PassInv, PicInv, FrontInv, FoundInv, InPass, Under,
                Seg, LastSegment, InSegment
  <1> QED BY <1>1, ThreadKeeps, RendererKeeps, CallersKeep DEF Next, Terminated

LEMMA Invariant == Spec => []IInv
  <1>1. Init => IInv
    BY InitIInv
  <1>2. IInv /\ [Next]_vars => IInv'
    BY NextKeeps
  <1> QED BY <1>1, <1>2, PTL DEF Spec

-----------------------------------------------------------------------------
(* The variables keep their types and the queue its bound, whatever blocks    *)
(* and fails: EnqueueSubPic adds only when there is room.                     *)
THEOREM QueueIsBounded == Spec => []TypeOK
  <1>1. IInv => TypeOK
    BY DEF IInv
  <1> QED BY <1>1, Invariant, PTL

(* The queue stays sorted by time, although the thread reads its tail once a  *)
(* pass and the other threads cut the tail and pop the head under it: the     *)
(* searches of LookupSubPic and the cut of Invalidate rely on it.             *)
THEOREM QueueStaysSorted == Spec => []QueueSorted
  <1>1. IInv => QueueSorted
    BY DEF IInv
  <1> QED BY <1>1, Invariant, PTL

(* After Invalidate and until the next pass nothing that ends after the time  *)
(* invalidated is in the queue: neither a pass under way nor a thread blocked *)
(* on a full queue adds it.                                                   *)
THEOREM InvalidatedStaysGone == Spec => []InvalidatedIsGone
  <1>1. IInv => InvalidatedIsGone
    BY DEF IInv
  <1> QED BY <1>1, Invariant, PTL

(* Whatever LookupSubPic is about to show belongs to the segment of its time, *)
(* however often it searched and whatever happened to the queue in between.   *)
THEOREM LookupsAreCurrent == Spec => []LookupIsCurrent
  <1>1. IInv => LookupIsCurrent
    BY DEF IInv, FoundInv, LookupIsCurrent
  <1> QED BY <1>1, Invariant, PTL

-----------------------------------------------------------------------------
(* What RenderedAhead assumes: one script, which nobody edits or replaces,    *)
(* and renderings that do not fail.  A step back of less than a frame is no   *)
(* seek to SetTime, and nothing is rendered for it.                           *)
Calm ==
    /\ Edits = {} /\ Failures = {} /\ MaxSwaps = 0 /\ FirstProvider \in Providers
    /\ \A a, b \in Times \cup {0} : a < b => b - a >= Frame

Script == FirstScript[FirstProvider]
Positions == 1 .. Len(Script)

(* A subpicture of segment g, and one that shows it to its end.  Those of a   *)
(* segment without known end show a frame of it each.                         *)
Of(p, g) == p.segStart = g.start
Mine(p, g) == p.segStart = g.start /\ p.segStop >= g.stop
Belongs(p, g) ==
    /\ Of(p, g) /\ g.start < p.stop /\ p.start < p.stop /\ p.stop <= p.segStop
    /\ IF g.stop = Unknown THEN p.segStop < p.stop + Frame ELSE p.stop <= g.stop /\ g.stop <= p.segStop
BelongsIn(p) == \E i \in Positions : Belongs(p, Script[i])

(* What the renderer has, unless the queue has better.                        *)
InHand == IF found # NoPic THEN found ELSE shown

(* The segment is in the queue, or it is what the renderer has and nothing in *)
(* the queue replaces that.                                                   *)
ReadyAt(i) ==
    \/ \E n \in 1 .. Len(queue) : Mine(queue[n], Script[i])
    \/ Mine(InHand, Script[i]) /\ \A n \in 1 .. Len(queue) : ~Of(queue[n], Script[i])

(* The time was set back, and the queue is about to be invalidated.           *)
Deferred == rpc = "checkSeek" /\ rtNowLast > rtNow

TimeInv ==
    /\ rtNow = rt /\ rt \in Times \cup {0} /\ rtNowLast \in Times \cup {0, ERROR}
    /\ rpc \notin {"checkSeek", "setLast"} => rtNowLast = rtNow \/ (rtNowLast = ERROR /\ rtNow = 0)
    /\ rpc \in {"idle", "checkSeek", "setLast", "reuse"} => found = NoPic
    /\ rpc \in {"search", "searchAgain", "ask", "save"} /\ InSegment(shown, rt) => found # NoPic
    /\ bInvalidate /\ ~Deferred => rtInvalidate <= rtNow
    /\ bInvalidate /\ ~event => qpc \in {"grab", "lock"}

CallerInv ==
    /\ content = FirstScript /\ pending = <<>> /\ upc # "swapped"
    /\ upc = "idle" => wrapper = [gen |-> 0, prov |-> FirstProvider]

StepInv ==
    /\ held = wrapper
    /\ qpc \in AtASegment \cup {"blocked"} => ~bWait
    /\ qpc = "unlock" /\ bWait => pic = NoPic
    /\ pic # NoPic => qpc \in {"enqueue", "unlock", "blocked"}
    /\ qpc \in AtASegment => rtStart < Script[pos].stop
    /\ qpc \in {"render", "enqueue", "advance"} => Script[pos].start <= rtCur

BelongInv ==
    /\ shown = NoPic \/ BelongsIn(shown)
    /\ found = NoPic \/ BelongsIn(found)
    /\ pic = NoPic \/ BelongsIn(pic)
    /\ \A n \in 1 .. Len(queue) : BelongsIn(queue[n])
    /\ qpc = "enqueue" =>
          /\ Belongs(pic, Script[pos])
          /\ Mine(pic, Script[pos]) \/ (Script[pos].stop = Unknown /\ rtCur < Unknown)

(* What the renderer has is of no later segment than the queue and the pass.  *)
OrderInv ==
    /\ shown.segStart <= rtNow \/ Deferred
    /\ \A n \in 1 .. Len(queue) :
          /\ found.segStart <= queue[n].segStart
          /\ shown.segStart <= queue[n].segStart \/ (Deferred /\ rtNow < queue[n].stop)
    /\ qpc \in AtASegment =>
          /\ found.segStart <= Script[pos].start
          /\ \/ shown.segStart <= Script[pos].start
             \/ Deferred /\ rtNow < Script[pos].stop /\ (qpc = "render" => rtNow <= rtCur)
    /\ pic # NoPic =>
          /\ found.segStart <= pic.segStart
          /\ shown.segStart <= pic.segStart \/ (Deferred /\ rtNow < pic.stop)

(* Once a subpicture shows a segment to its end, so do the later ones.        *)
StaysInv ==
    \A i \in Positions :
        /\ \A n, m \in 1 .. Len(queue) :
              n < m /\ Mine(queue[n], Script[i]) /\ Of(queue[m], Script[i]) => Mine(queue[m], Script[i])
        /\ \A n \in 1 .. Len(queue) :
              Mine(queue[n], Script[i]) /\ Of(pic, Script[i]) => Mine(pic, Script[i])

(* What is not over and lies behind the thread is ready.                      *)
Behind(i) ==
    /\ Script[i].stop <= TailStop => ReadyAt(i)
    /\ qpc = "position" /\ Script[i].stop <= rtStart => ReadyAt(i)
    /\ qpc \in AtASegment /\ i < pos => ReadyAt(i)
    /\ qpc = "advance" /\ i = pos => ReadyAt(i) \/ (Script[i].stop = Unknown /\ rtCur < Unknown)
    /\ qpc \in {"unlock", "blocked"} /\ pic # NoPic /\ Script[i].stop <= pic.stop =>
          ReadyAt(i) \/ Mine(pic, Script[i])
ReadyInv ==
    ~bInvalidate /\ ~Deferred => \A i \in Positions : rtNow < Script[i].stop => Behind(i)

(* Before it sleeps the thread has rendered what there is to render.          *)
GoesToSleep == qpc = "wait" \/ (bWait /\ qpc \in {"unlock", "top"})
DoneInv ==
    ~event /\ rpc \notin {"checkSeek", "setLast"} /\ GoesToSleep =>
        \A i \in Positions :
            rtNow < Script[i].stop /\ Script[i].start < rtNow + Ahead => ReadyAt(i)

AheadInv == TimeInv /\ StepInv /\ BelongInv /\ OrderInv /\ StaysInv /\ ReadyInv /\ DoneInv

-----------------------------------------------------------------------------
(* A script is in order of time.                                              *)
LEMMA ScriptIsOrdered ==
    ASSUME Calm
    PROVE  /\ Len(Script) \in Nat /\ DOMAIN Script = Positions
           /\ \A i \in Positions :
                 /\ i \in Nat /\ Script[i].start \in Nat /\ Script[i].stop \in Nat
                 /\ Script[i].start < Script[i].stop /\ Script[i].stop <= Unknown
           /\ \A i, j \in Positions : i < j =>
                 /\ Script[i].start < Script[j].start /\ Script[i].stop <= Script[j].start
                 /\ Script[i].stop < Script[j].stop /\ Script[i].stop < Unknown
  <1>1. Script \in Scripts
    BY QueueAssumption DEF Calm, Script
  <1>2. /\ Len(Script) \in Nat /\ DOMAIN Script = Positions
        /\ \A i \in Positions :
                 /\ Script[i].start \in Nat /\ Script[i].stop \in Nat
                 /\ Script[i].start < Script[i].stop /\ Script[i].stop <= Unknown
        /\ \A i, j \in Positions : i < j => Script[i].stop <= Script[j].start
    BY <1>1, ScriptSegments DEF Positions
  <1>3. ASSUME NEW i \in Positions, NEW j \in Positions, i < j
        PROVE  /\ Script[i].start < Script[j].start /\ Script[i].stop <= Script[j].start
               /\ Script[i].stop < Script[j].stop /\ Script[i].stop < Unknown
    <2>1. /\ Script[i].start \in Nat /\ Script[i].stop \in Nat /\ Script[i].start < Script[i].stop
          /\ Script[j].start \in Nat /\ Script[j].stop \in Nat /\ Script[j].start < Script[j].stop
          /\ Script[i].stop <= Script[j].start /\ Script[j].stop <= Unknown /\ Unknown \in Nat
      BY <1>2, <1>3, QueueAssumption
    <2> QED BY <2>1
  <1>4. \A i \in Positions : i \in Nat
    BY <1>2 DEF Positions
  <1> QED BY <1>2, <1>3, <1>4

(* Segments are told apart by their starts.                                   *)
LEMMA StartsTell ==
    ASSUME Calm, NEW i \in Positions, NEW j \in Positions
    PROVE  /\ Script[i].start <= Script[j].start <=> i <= j
           /\ Script[i].start < Script[j].stop => i <= j
           /\ Script[i].start = Script[j].start => i = j
           /\ i <= j => Script[i].stop <= Script[j].stop
  <1>1. /\ i \in Nat /\ j \in Nat
        /\ Script[i].start \in Nat /\ Script[i].stop \in Nat /\ Script[j].start \in Nat /\ Script[j].stop \in Nat
        /\ i < j => Script[i].start < Script[j].start /\ Script[i].stop < Script[j].stop
        /\ j < i => Script[j].start < Script[i].start /\ Script[j].stop <= Script[i].start
    BY ScriptIsOrdered
  <1>2. i < j \/ i = j \/ j < i
    BY <1>1
  <1>3. CASE i < j
    BY <1>1, <1>3
  <1>4. CASE j < i
    BY <1>1, <1>4
  <1>5. CASE i = j
    BY <1>1, <1>5
  <1> QED BY <1>2, <1>3, <1>4, <1>5

(* A subpicture that ends earlier is of no later segment.                     *)
LEMMA PicsInOrder ==
    ASSUME Calm, NEW p \in SubPic, NEW q \in SubPic, p.stop <= q.stop,
           NEW i \in Positions, Belongs(p, Script[i]), NEW j \in Positions, Belongs(q, Script[j])
    PROVE  i <= j /\ p.segStart <= q.segStart
  <1>1. /\ i \in Nat /\ j \in Nat
        /\ Script[i].start \in Nat /\ Script[i].stop \in Nat /\ Script[j].start \in Nat /\ Script[j].stop \in Nat
        /\ j < i => Script[j].stop <= Script[i].start /\ Script[j].stop < Unknown
    BY ScriptIsOrdered
  <1>2. p.stop \in Int /\ q.stop \in Int
    BY DEF SubPic
  <1>3. ASSUME j < i PROVE FALSE
    <2>1. q.stop <= Script[j].stop
      BY <1>1, <1>3, QueueAssumption DEF Belongs
    <2>2. Script[i].start < p.stop
      BY DEF Belongs
    <2> QED BY <1>1, <1>2, <1>3, <2>1, <2>2
  <1>4. i <= j
    BY <1>1, <1>3
  <1>5. Script[i].start <= Script[j].start
    BY <1>4, StartsTell
  <1> QED BY <1>4, <1>5 DEF Belongs, Of

(* A subpicture that ends before a segment does is of no later one.           *)
LEMMA PicsBefore ==
    ASSUME Calm, NEW p \in SubPic, NEW i \in Positions, Belongs(p, Script[i]),
           NEW j \in Positions, p.stop <= Script[j].stop \/ j = Len(Script)
    PROVE  i <= j /\ p.segStart <= Script[j].start
  <1>1. /\ i \in Nat /\ j \in Nat /\ Script[i].start \in Nat /\ Script[j].stop \in Nat
        /\ Len(Script) \in Nat
    BY ScriptIsOrdered
  <1>2. CASE p.stop <= Script[j].stop
    <2>1. p.stop \in Int /\ Script[i].start < p.stop /\ p.segStart = Script[i].start
      BY DEF SubPic, Belongs, Of
    <2>2. Script[i].start < Script[j].stop
      BY <1>1, <1>2, <2>1
    <2> QED BY <2>1, <2>2, StartsTell
  <1>3. CASE j = Len(Script)
    <2>1. i <= j
      BY <1>1, <1>3 DEF Positions
    <2> QED BY <2>1, StartsTell DEF Belongs, Of
  <1> QED BY <1>2, <1>3

-----------------------------------------------------------------------------
(* The subpicture that is rendered now belongs to the segment of the pass,    *)
(* and shows it to its end when the thread has come that far.                 *)
LEMMA RenderedBelongs ==
    ASSUME Calm, IInv, qpc = "render", wrapper.prov # NoProvider,
           pos \in Positions, Seg = Script[pos], Script[pos].start <= rtCur
    PROVE  /\ Belongs(NewPic, Script[pos])
           /\ Mine(NewPic, Script[pos]) \/ (Script[pos].stop = Unknown /\ GoesOnAt < Unknown)
           /\ Script[pos].stop = Unknown => NewPic.segStop >= rtCur + Frame
  <1> DEFINE g == Script[pos]
  <1>1. /\ g.start \in Nat /\ g.stop \in Nat /\ g.start < g.stop /\ g.stop <= Unknown
    BY ScriptIsOrdered
  <1>0. g.start <= rtCur
    OBVIOUS
  <1>2. rtCur \in Nat /\ rtCur < g.stop /\ Seg.animated \in BOOLEAN
    BY SegIsTyped DEF IInv, FrontInv, AtASegment
  <1>3. /\ Frame \in Nat /\ Frame > 0 /\ Unknown \in Nat /\ SubFrame \in Nat /\ SubFrame >= Frame
    BY QueueAssumption
  <1> DEFINE part == (SubFrame * 3) \div 4
  <1>4. part \in Nat /\ part > 0
    BY SubFramePart
  <1>5. /\ SegStop \in Nat /\ rtCur < SegStop
        /\ g.stop = Unknown => SegStop = rtCur + Frame
        /\ g.stop # Unknown => SegStop = g.stop
    BY <1>1, <1>2, <1>3 DEF SegStop
  <1> HIDE DEF part, g
  <1>6. CASE Seg.animated
    <2>1. /\ NewPic.start = rtCur /\ NewPic.stop = Smaller(rtCur + part, SegStop)
          /\ NewPic.segStart = g.start /\ NewPic.segStop = Larger(rtCur + Frame, SegStop)
      BY <1>6 DEF NewPic, part, g
    <2>2. GoesOnAt = Smaller(rtCur + SubFrame, SegStop)
      BY <1>6 DEF GoesOnAt
    <2>3. /\ NewPic.stop \in Nat /\ rtCur < NewPic.stop /\ NewPic.stop <= SegStop
          /\ NewPic.segStop \in Nat /\ SegStop <= NewPic.segStop /\ rtCur + Frame <= NewPic.segStop
          /\ g.stop = Unknown => NewPic.segStop = rtCur + Frame
      BY <1>2, <1>3, <1>4, <1>5, <2>1 DEF Smaller, Larger
    <2>4. g.stop = Unknown => GoesOnAt = rtCur + Frame
      BY <1>2, <1>3, <1>5, <2>2 DEF Smaller
    <2>5. g.start < NewPic.stop
      BY <1>0, <1>1, <1>2, <2>3
    <2>6. Belongs(NewPic, g)
      BY <1>2, <1>3, <1>5, <2>1, <2>3, <2>5 DEF Belongs, Of
    <2>7. Mine(NewPic, g) \/ (g.stop = Unknown /\ GoesOnAt < Unknown)
      BY <1>1, <1>2, <1>3, <1>5, <2>1, <2>3, <2>4 DEF Mine
    <2> QED BY <2>3, <2>6, <2>7 DEF g
  <1>7. CASE ~Seg.animated
    <2>1. /\ NewPic.start = g.start /\ NewPic.stop = SegStop
          /\ NewPic.segStart = g.start /\ NewPic.segStop = SegStop
      BY <1>7 DEF NewPic, g
    <2>2. GoesOnAt = SegStop
      BY <1>7 DEF GoesOnAt
    <2>3. Belongs(NewPic, g)
      BY <1>0, <1>1, <1>2, <1>3, <1>5, <2>1 DEF Belongs, Of
    <2>4. Mine(NewPic, g) \/ (g.stop = Unknown /\ GoesOnAt < Unknown)
      BY <1>1, <1>2, <1>3, <1>5, <2>1, <2>2 DEF Mine
    <2>5. g.stop = Unknown => NewPic.segStop >= rtCur + Frame
      BY <1>2, <1>3, <1>5, <2>1
    <2> QED BY <2>3, <2>4, <2>5 DEF g
  <1> QED BY <1>2, <1>6, <1>7

(* What the search has found at the end is what it had at some point, or was  *)
(* taken from the queue since.                                                *)
LEMMA BestIsFrom ==
    ASSUME TypeOK, NEW n \in 0 .. Len(queue), NEW k \in n .. Len(queue)
    PROVE  \/ Best[k] = Best[n]
           \/ \E m \in n + 1 .. k : Best[k] = queue[m] /\ InSegment(queue[m], rt)
  <1> DEFINE Good(m) == \/ Best[m] = Best[n]
                        \/ \E l \in n + 1 .. m : Best[m] = queue[l] /\ InSegment(queue[l], rt)
             Fails == {m \in n .. Len(queue) : ~Good(m)}
  <1>1. Len(queue) \in Nat /\ QueueSize \in Nat /\ Len(queue) <= QueueSize
    BY QueueAssumption DEF TypeOK
  <1>2. ASSUME NEW m \in 0 .. Len(queue) PROVE Best[m] = BestStep(Best, m)
    BY <1>1, BestIsDefined
  <1>3. ASSUME Fails # {} PROVE FALSE
    <2>1. PICK m \in Fails : \A l \in Fails : m <= l
      <3>1. Fails \subseteq Nat
        BY <1>1
      <3> HIDE DEF Fails
      <3> QED BY <1>3, <3>1, Least
    <2>2. m \in n .. Len(queue) /\ m \in Nat /\ ~Good(m)
      BY <1>1
    <2>3. m # n
      BY <2>2
    <2>4. m - 1 \in n .. Len(queue) /\ m - 1 \notin Fails /\ Good(m - 1) /\ m \in 0 .. Len(queue) /\ m # 0
      BY <1>1, <2>1, <2>2, <2>3
    <2>5. \/ Best[m] = queue[m] /\ InSegment(queue[m], rt)
          \/ Best[m] = Best[m - 1]
      BY <1>2, <2>4 DEF BestStep, TakenAt
    <2>6. CASE Best[m] = queue[m] /\ InSegment(queue[m], rt)
      BY <1>1, <2>2, <2>3, <2>6
    <2>7. CASE Best[m] = Best[m - 1]
      <3>1. CASE Best[m - 1] = Best[n]
        BY <2>2, <2>7, <3>1
      <3>2. CASE \E l \in n + 1 .. m - 1 : Best[m - 1] = queue[l] /\ InSegment(queue[l], rt)
        <4>1. PICK l \in n + 1 .. m - 1 : Best[m - 1] = queue[l] /\ InSegment(queue[l], rt)
          BY <3>2
        <4>2. l \in n + 1 .. m
          BY <1>1, <2>2
        <4> QED BY <2>2, <2>7, <4>1, <4>2
      <3> QED BY <2>4, <3>1, <3>2
    <2> QED BY <2>5, <2>6, <2>7
  <1> QED BY <1>3

(* Where the search stops, and what it takes off the queue.                   *)
LEMMA SearchStops ==
    ASSUME IInv, Search
    PROVE  \E last \in 0 .. Len(queue), popped \in 0 .. Len(queue) :
              /\ found' = Best[last] /\ popped \in {last - 1, last}
              /\ Len(queue') = Len(queue) - popped
              /\ \A n \in 1 .. Len(queue') : n + popped \in 1 .. Len(queue) /\ queue'[n] = queue[n + popped]
              /\ \A n \in 1 .. last : n < last => ~StopsAt(queue[n])
              /\ popped = last - 1 => KeptAt(queue[last], Best[last - 1])
              /\ popped = last /\ last # 0 /\ StopsAt(queue[last]) => ~KeptAt(queue[last], Best[last - 1])
  <1> DEFINE stops == {n \in 1 .. Len(queue) : StopsAt(queue[n])}
             last == IF stops = {} THEN Len(queue) ELSE Min(stops)
             popped == IF stops # {} /\ KeptAt(queue[last], Best[last - 1]) THEN last - 1 ELSE last
  <1>1. found' = Best[last] /\ queue' = SubSeq(queue, popped + 1, Len(queue))
    BY DEF Search
  <1>2. Len(queue) \in Nat /\ queue \in Seq(SubPic)
    BY DEF IInv, TypeOK
  <1>3. /\ last \in 0 .. Len(queue) /\ (stops # {} => last \in stops)
        /\ \A n \in 1 .. last : n < last => n \notin stops
    <2>1. stops \subseteq Nat /\ stops \subseteq 1 .. Len(queue)
      BY <1>2
    <2>2. CASE stops = {}
      BY <1>2, <2>2
    <2>3. CASE stops # {}
      <3>1. Min(stops) \in stops /\ \A n \in stops : Min(stops) <= n
        <4> HIDE DEF stops
        <4> QED BY <2>1, <2>3, MinIsLeast
      <3>2. last = Min(stops)
        BY <2>3
      <3> HIDE DEF stops, last
      <3>3. last \in 1 .. Len(queue)
        BY <2>1, <3>1, <3>2
      <3>4. ASSUME NEW n \in 1 .. last, n < last PROVE n \notin stops
        <4>1. n \in Nat /\ last \in Nat
          BY <1>2, <3>3
        <4> QED BY <3>1, <3>2, <3>4, <4>1
      <3> QED BY <1>2, <3>1, <3>2, <3>3, <3>4
    <2> QED BY <2>2, <2>3
  <1>4. \A n \in 1 .. Len(queue) : n \in stops <=> StopsAt(queue[n])
    OBVIOUS
  <1>5. last \in stops => last \in 1 .. Len(queue)
    OBVIOUS
  <1> HIDE DEF stops, last
  <1>6. popped \in 0 .. Len(queue) /\ popped \in {last - 1, last}
    BY <1>2, <1>3, <1>5
  <1>7. popped = last - 1 => KeptAt(queue[last], Best[last - 1])
    BY <1>2, <1>3
  <1>8. popped = last /\ last # 0 /\ StopsAt(queue[last]) => ~KeptAt(queue[last], Best[last - 1])
    <2>1. SUFFICES ASSUME popped = last, last # 0, StopsAt(queue[last]), KeptAt(queue[last], Best[last - 1])
                   PROVE  FALSE
      OBVIOUS
    <2>2. last \in 1 .. Len(queue)
      BY <1>2, <1>3, <2>1
    <2>3. stops # {}
      BY <1>4, <2>1, <2>2
    <2> QED BY <1>2, <2>1, <2>2, <2>3
  <1> HIDE DEF popped
  <1>9. /\ Len(queue') = Len(queue) - popped
        /\ \A n \in 1 .. Len(queue') : n + popped \in 1 .. Len(queue) /\ queue'[n] = queue[n + popped]
    <2>1. /\ Len(SubSeq(queue, popped + 1, Len(queue)))
                = IF popped + 1 <= Len(queue) THEN Len(queue) - (popped + 1) + 1 ELSE 0
          /\ \A n \in 1 .. Len(queue) - (popped + 1) + 1 :
                SubSeq(queue, popped + 1, Len(queue))[n] = queue[popped + 1 + n - 1]
      <3>1. popped + 1 \in Int /\ Len(queue) \in Int
        BY <1>2, <1>6
      <3>2. \A n \in popped + 1 .. Len(queue) : queue[n] \in SubPic
        BY <1>2, <1>6, QueueElements DEF IInv
      <3> QED BY <3>1, <3>2, SubSeqProperties
    <2>2. Len(queue') = Len(queue) - popped /\ Len(queue) - (popped + 1) + 1 = Len(queue) - popped
      BY <1>1, <1>2, <1>6, <2>1
    <2>3. \A n \in 1 .. Len(queue') : popped + 1 + n - 1 = n + popped /\ n + popped \in 1 .. Len(queue)
      BY <1>2, <1>6, <2>2
    <2> QED BY <1>1, <2>1, <2>2, <2>3
  <1>10. \A n \in 1 .. last : n < last => ~StopsAt(queue[n])
    BY <1>2, <1>3, <1>4
  <1> QED BY <1>1, <1>3, <1>6, <1>7, <1>8, <1>9, <1>10

-----------------------------------------------------------------------------
(* The script stays while nobody closes the queue.                            *)
LEMMA TheScript ==
    ASSUME Calm, IInv, CallerInv, upc = "idle", held = wrapper
    PROVE  /\ content[held.prov] = Script /\ held.prov \in Providers
           /\ wrapper.prov \in Providers /\ wrapper.prov # NoProvider
           /\ Seg = Script[pos] /\ (LastSegment <=> pos = Len(Script))
           /\ qpc \in AtASegment => pos \in Positions
  <1>1. wrapper.prov = FirstProvider /\ FirstProvider \in Providers /\ FirstProvider # NoProvider
    BY QueueAssumption DEF CallerInv, Calm
  <1>2. content[held.prov] = Script /\ held.prov = FirstProvider
    BY <1>1 DEF CallerInv, Script
  <1>3. qpc \in AtASegment => pos \in 1 .. Len(content[held.prov])
    BY DEF IInv, PassInv
  <1> QED BY <1>1, <1>2, <1>3 DEF Seg, LastSegment, Positions

(* Times, and the times of subpictures.                                       *)
LEMMA PicTimes ==
    ASSUME NEW p \in SubPic
    PROVE  p.start \in Int /\ p.stop \in Int /\ p.segStart \in Int /\ p.segStop \in Int
  BY DEF SubPic

LEMMA NoPicTimes == NoPic.start = -1 /\ NoPic.stop = -1 /\ NoPic.segStart = -1 /\ NoPic.segStop = -1
  BY DEF NoPic

LEMMA TimesTyped ==
    ASSUME IInv
    PROVE  /\ rtNow \in Nat /\ rt \in Nat /\ rtNowLast \in Int /\ rtInvalidate \in Int
           /\ rtStart \in Int /\ rtCur \in Int /\ pos \in Nat
           /\ shown \in SubPic /\ found \in SubPic /\ pic \in SubPic
           /\ Len(queue) \in Nat /\ \A n \in 1 .. Len(queue) : queue[n] \in SubPic
           /\ \A n, m \in 1 .. Len(queue) : n <= m => queue[n].stop <= queue[m].stop
  <1>1. /\ rtNow \in Nat /\ rt \in Nat /\ rtNowLast \in Int /\ rtInvalidate \in Int
        /\ rtStart \in Int /\ rtCur \in Int /\ pos \in Nat
        /\ shown \in SubPic /\ found \in SubPic /\ pic \in SubPic
    BY DEF IInv, TypeOK, ERROR
  <1>2. Len(queue) \in Nat /\ \A n \in 1 .. Len(queue) : queue[n] \in SubPic /\ queue[n].stop \in Int
    BY QueueElements DEF IInv
  <1>3. ASSUME NEW n \in 1 .. Len(queue), NEW m \in 1 .. Len(queue), n <= m
        PROVE  queue[n].stop <= queue[m].stop
    <2>1. CASE n = m
      BY <1>2, <2>1
    <2>2. CASE n < m
      BY <1>2, <2>2 DEF IInv, QueueSorted
    <2> QED BY <1>2, <1>3, <2>1, <2>2
  <1> QED BY <1>1, <1>2, <1>3

(* The subpictures of the script.                                             *)
LEMMA BelongsTyped ==
    ASSUME Calm, NEW p \in SubPic, BelongsIn(p)
    PROVE  p # NoPic /\ p.segStart \in Nat /\ p.segStart < p.stop /\ p.start < p.stop /\ p.stop <= p.segStop
  <1>1. PICK i \in Positions : Belongs(p, Script[i])
    BY DEF BelongsIn
  <1>2. Script[i].start \in Nat /\ p.segStart = Script[i].start /\ Script[i].start < p.stop
    BY <1>1, ScriptIsOrdered DEF Belongs, Of
  <1>3. p # NoPic
    BY <1>2, NoPicTimes
  <1> QED BY <1>1, <1>2, <1>3 DEF Belongs

(* A subpicture of a segment belongs to it.                                   *)
LEMMA OfBelongs ==
    ASSUME Calm, NEW p, BelongsIn(p), NEW i \in Positions, Of(p, Script[i])
    PROVE  Belongs(p, Script[i]) /\ \A j \in Positions : Of(p, Script[j]) => j = i
  <1>1. PICK j \in Positions : Belongs(p, Script[j])
    BY DEF BelongsIn
  <1>2. \A k \in Positions : Of(p, Script[k]) => k = j
    <2> TAKE k \in Positions
    <2> HAVE Of(p, Script[k])
    <2>1. Script[k].start = Script[j].start
      BY <1>1 DEF Belongs, Of
    <2> QED BY <2>1, StartsTell
  <1> QED BY <1>1, <1>2

(* Of two subpictures, the one that ends first is of no later segment.        *)
LEMMA PicsAreInOrder ==
    ASSUME Calm, NEW p \in SubPic, BelongsIn(p), NEW q \in SubPic, BelongsIn(q), p.stop <= q.stop
    PROVE  p.segStart <= q.segStart
  <1>1. PICK i \in Positions : Belongs(p, Script[i])
    BY DEF BelongsIn
  <1>2. PICK j \in Positions : Belongs(q, Script[j])
    BY DEF BelongsIn
  <1> QED BY <1>1, <1>2, PicsInOrder

(* Nor is one whose segment is current of a later segment than one not over.  *)
LEMMA CurrentIsNoLater ==
    ASSUME Calm, NEW p \in SubPic, BelongsIn(p), NEW i \in Positions, NEW t \in Int,
           p.segStart <= t, t < Script[i].stop
    PROVE  p.segStart <= Script[i].start
  <1>1. PICK j \in Positions : Belongs(p, Script[j])
    BY DEF BelongsIn
  <1>2. p.segStart = Script[j].start /\ p.segStart \in Int
    BY <1>1, PicTimes DEF Belongs, Of
  <1>3. Script[j].start < Script[i].stop
    BY <1>2, ScriptIsOrdered
  <1>4. j <= i
    BY <1>3, StartsTell
  <1> QED BY <1>2, <1>4, StartsTell

-----------------------------------------------------------------------------
(* What is in the queue is of no later segment than the pass is at, nor than  *)
(* the subpicture in hand.                                                    *)
LEMMA QueueIsBehind ==
    ASSUME Calm, IInv, CallerInv, AheadInv, upc = "idle", NEW n \in 1 .. Len(queue)
    PROVE  /\ qpc \in AtASegment => queue[n].segStart <= Script[pos].start
           /\ pic # NoPic => queue[n].segStart <= pic.segStart
  <1>1. queue[n] \in SubPic /\ pic \in SubPic /\ BelongsIn(queue[n])
    BY TimesTyped DEF AheadInv, BelongInv
  <1>2. queue[n].stop \in Int /\ pic.stop \in Int /\ rtStart \in Int
    BY <1>1, PicTimes, TimesTyped
  <1>3. ASSUME pic # NoPic PROVE queue[n].segStart <= pic.segStart
    <2>1. queue[n].stop <= pic.stop
      BY <1>2, <1>3 DEF IInv, PicInv
    <2> QED BY <1>1, <1>3, <2>1, PicsAreInOrder DEF AheadInv, BelongInv
  <1>4. ASSUME qpc \in AtASegment PROVE queue[n].segStart <= Script[pos].start
    <2>1. Seg = Script[pos] /\ pos \in Positions /\ (LastSegment <=> pos = Len(Script))
      BY <1>4, TheScript DEF AheadInv, StepInv
    <2>2. Seg.start \in Nat /\ Seg.stop \in Nat /\ Seg.start < Seg.stop /\ rtStart < Seg.stop
      BY <1>4, <2>1, ScriptIsOrdered DEF AheadInv, StepInv
    <2>3. PICK i \in Positions : Belongs(queue[n], Script[i])
      BY <1>1 DEF BelongsIn
    <2>4. CASE qpc = "segment"
      <3>1. queue[n].stop <= Larger(Seg.start, rtStart)
        BY <2>4 DEF IInv, FrontInv, Under
      <3>2. queue[n].stop <= Seg.stop
        BY <1>2, <2>2, <3>1 DEF Larger
      <3> QED BY <1>1, <2>1, <2>3, <3>2, PicsBefore
    <2>5. CASE qpc = "render"
      <3>1. queue[n].stop <= rtCur /\ rtCur < Seg.stop /\ rtCur \in Nat
        BY <2>5 DEF IInv, FrontInv, Under
      <3>2. queue[n].stop <= Seg.stop
        BY <1>2, <2>2, <3>1
      <3> QED BY <1>1, <2>1, <2>3, <3>2, PicsBefore
    <2>6. CASE qpc = "enqueue"
      <3>1. pic # NoPic /\ pic.segStart = Script[pos].start
        BY <2>6 DEF IInv, PicInv, AheadInv, BelongInv, Belongs, Of
      <3> QED BY <1>3, <3>1
    <2>7. CASE qpc = "advance"
      <3>1. ~LastSegment => queue[n].stop <= Seg.stop
        BY <2>7 DEF IInv, FrontInv, Under
      <3> QED BY <1>1, <2>1, <2>3, <3>1, PicsBefore
    <2> QED BY <1>4, <2>4, <2>5, <2>6, <2>7 DEF AtASegment
  <1> QED BY <1>3, <1>4

(* The search does not lose what is ready.                                    *)
LEMMA SearchReady ==
    ASSUME Calm, IInv, AheadInv, Search, NEW i \in Positions, rtNow < Script[i].stop, ReadyAt(i)
    PROVE  ReadyAt(i)'
  <1> DEFINE g == Script[i]
  <1>1. /\ rpc \in {"search", "searchAgain"} /\ shown' = shown /\ rt' = rt /\ rtNow = rt /\ ~Deferred
        /\ rt \in Nat
    BY TimesTyped DEF Search, AheadInv, TimeInv, Deferred
  <1>2. g.start \in Nat /\ g.stop \in Nat /\ g.start < g.stop /\ rt < g.stop
    BY <1>1, ScriptIsOrdered
  <1>3. PICK last \in 0 .. Len(queue), popped \in 0 .. Len(queue) :
              /\ found' = Best[last] /\ popped \in {last - 1, last}
              /\ Len(queue') = Len(queue) - popped
              /\ \A n \in 1 .. Len(queue') : n + popped \in 1 .. Len(queue) /\ queue'[n] = queue[n + popped]
              /\ \A n \in 1 .. last : n < last => ~StopsAt(queue[n])
              /\ popped = last - 1 => KeptAt(queue[last], Best[last - 1])
              /\ popped = last /\ last # 0 /\ StopsAt(queue[last]) => ~KeptAt(queue[last], Best[last - 1])
    BY SearchStops
  <1>4. Len(queue) \in Nat /\ Len(queue) <= QueueSize /\ QueueSize \in Nat
    BY QueueAssumption DEF IInv, TypeOK
  <1>5. ASSUME NEW n \in 1 .. Len(queue)
        PROVE  /\ queue[n] \in SubPic /\ queue[n].stop \in Int /\ queue[n].segStart \in Int
               /\ queue[n].segStop \in Int /\ queue[n].start \in Int
               /\ BelongsIn(queue[n]) /\ queue[n] # NoPic
    <2>1. queue[n] \in SubPic /\ BelongsIn(queue[n])
      BY TimesTyped DEF AheadInv, BelongInv
    <2> QED BY <2>1, PicTimes, BelongsTyped
  <1> HIDE DEF g
  <1>7. ASSUME NEW n \in 1 .. Len(queue), n <= popped, Mine(queue[n], g)
        PROVE  n \in 1 .. last /\ Best[n] = queue[n]
    <2>1. n \in 1 .. last /\ n \in Nat /\ last \in Nat
      BY <1>3, <1>4, <1>7
    <2>2. queue[n].segStart = g.start /\ rt < queue[n].segStop
      BY <1>1, <1>2, <1>5, <1>7 DEF Mine
    <2>3. queue[n].start < queue[n].stop
      BY <1>5, BelongsTyped
    <2>4. TakenAt(queue[n], Best[n - 1])
      <3>1. CASE ~StopsAt(queue[n])
        BY <1>1, <1>5, <2>2, <2>3, <3>1 DEF StopsAt, TakenAt, InSegment
      <3>2. CASE StopsAt(queue[n])
        <4>1. n = last
          BY <1>3, <2>1, <3>2
        <4>2. popped = last /\ last # 0
          BY <1>3, <1>4, <1>7, <2>1, <4>1
        <4>3. ~KeptAt(queue[n], Best[n - 1])
          BY <1>3, <3>2, <4>1, <4>2
        <4> QED BY <1>1, <1>5, <2>2, <4>3 DEF KeptAt, InSegment
      <3> QED BY <3>1, <3>2
    <2>5. Best[n] = BestStep(Best, n)
      <3>1. n \in 0 .. QueueSize
        BY <1>4
      <3> QED BY <3>1, BestIsDefined
    <2>6. n # 0 /\ n <= Len(queue)
      BY <1>4
    <2> QED BY <2>1, <2>4, <2>5, <2>6 DEF BestStep
  (* What it found of the segment is ready, unless the queue has better.      *)
  <1>8. ASSUME NEW m \in 1 .. last, m \in 1 .. Len(queue), Mine(queue[m], g), found' = queue[m]
        PROVE  ReadyAt(i)'
    <2>1. InHand' = queue[m]
      BY <1>5, <1>8 DEF InHand
    <2>2. ASSUME NEW l \in 1 .. Len(queue'), Of(queue'[l], g)
          PROVE  Mine(queue'[l], g)
      <3>1. l + popped \in 1 .. Len(queue) /\ queue'[l] = queue[l + popped] /\ m <= l + popped
        BY <1>3, <1>4
      <3>2. CASE m = l + popped
        BY <1>8, <3>1, <3>2
      <3>3. CASE m < l + popped
        BY <1>8, <2>2, <3>1, <3>3 DEF AheadInv, StaysInv, g
      <3> QED BY <1>4, <3>1, <3>2, <3>3
    <2> QED BY <1>8, <2>1, <2>2 DEF ReadyAt, g
  <1>9. ASSUME NEW n \in 1 .. Len(queue), Mine(queue[n], g)
        PROVE  ReadyAt(i)'
    <2>1. CASE n > popped
      <3>1. n - popped \in 1 .. Len(queue') /\ (n - popped) + popped = n
        BY <1>3, <1>4, <2>1
      <3>2. queue'[n - popped] = queue[n]
        BY <1>3, <3>1
      <3>3. Mine(queue'[n - popped], g)
        BY <1>9, <3>2
      <3> QED BY <3>1, <3>3 DEF ReadyAt, g
    <2>2. CASE n <= popped
      <3>1. n \in 1 .. last /\ Best[n] = queue[n]
        BY <1>7, <1>9, <2>2
      <3>2. n \in 0 .. Len(queue) /\ last \in n .. Len(queue)
        BY <1>4, <3>1
      <3>3. \/ Best[last] = queue[n]
            \/ \E m \in n + 1 .. last : Best[last] = queue[m] /\ InSegment(queue[m], rt)
        BY <3>1, <3>2, BestIsFrom DEF IInv
      <3>4. CASE Best[last] = queue[n]
        BY <1>3, <1>8, <1>9, <3>1, <3>4
      <3>5. ASSUME NEW m \in n + 1 .. last, Best[last] = queue[m], InSegment(queue[m], rt)
            PROVE  ReadyAt(i)'
        <4>1. m \in 1 .. Len(queue) /\ m \in 1 .. last /\ n < m
          BY <1>4, <3>1
        <4>2. queue[n].segStart <= queue[m].segStart
          <5>1. queue[n].stop <= queue[m].stop
            BY <1>4, <4>1, TimesTyped, SMTT(30)
          <5> QED BY <1>5, <4>1, <5>1, PicsAreInOrder
        <4>3. queue[m].segStart <= g.start
          BY <1>1, <1>2, <1>5, <3>5, <4>1, CurrentIsNoLater DEF InSegment, g
        <4>4. Of(queue[m], g)
          BY <1>2, <1>5, <1>9, <4>1, <4>2, <4>3 DEF Mine, Of
        <4>5. Mine(queue[m], g)
          BY <1>9, <4>1, <4>4 DEF AheadInv, StaysInv, g
        <4> QED BY <1>3, <1>8, <3>5, <4>1, <4>5
      <3> QED BY <3>3, <3>4, <3>5
    <2> QED BY <1>4, <2>1, <2>2
  (* What the renderer has is not replaced by an earlier or a later segment.  *)
  <1>10. ASSUME Mine(InHand, g), \A n \in 1 .. Len(queue) : ~Of(queue[n], g)
         PROVE  ReadyAt(i)'
    <2>1. \/ Best[last] = Best[0]
          \/ \E m \in 1 .. last : Best[last] = queue[m] /\ InSegment(queue[m], rt)
      <3>1. 0 \in 0 .. Len(queue) /\ last \in 0 .. Len(queue) /\ 0 + 1 = 1
        BY <1>4
      <3> QED BY <3>1, BestIsFrom DEF IInv
    <2>2. ASSUME NEW m \in 1 .. last, InSegment(queue[m], rt)
          PROVE  FALSE
      <3>1. m \in 1 .. Len(queue)
        BY <1>4
      <3>2. queue[m].segStart <= g.start
        BY <1>1, <1>2, <1>5, <2>2, <3>1, CurrentIsNoLater DEF InSegment, g
      <3>3. InHand.segStart = g.start /\ InHand \in {found, shown}
        BY <1>10 DEF Mine, InHand
      <3>4. g.start <= queue[m].segStart
        BY <1>1, <3>1, <3>3 DEF AheadInv, OrderInv
      <3> QED BY <1>2, <1>5, <1>10, <3>1, <3>2, <3>4 DEF Of
    <2>3. Best[0] = found
      <3>1. 0 \in 0 .. QueueSize
        BY <1>4
      <3> QED BY <3>1, BestIsDefined DEF BestStep
    <2>4. found' = found
      BY <1>3, <2>1, <2>2, <2>3
    <2>5. InHand' = InHand
      BY <1>1, <2>4 DEF InHand
    <2>6. \A n \in 1 .. Len(queue') : ~Of(queue'[n], g)
      BY <1>3, <1>10
    <2> QED BY <1>10, <2>5, <2>6 DEF ReadyAt, g
  <1> QED BY <1>9, <1>10 DEF ReadyAt, g

(* Where the queue ends.                                                      *)
LEMMA TailIsTyped ==
    ASSUME IInv
    PROVE  TailStop \in Int /\ Under(TailStop) /\ (TailStop = -1 \/ \E n \in 1 .. Len(queue) : TailStop = queue[n].stop)
  <1>1. queue \in Seq(SubPic) /\ Len(queue) \in Nat /\ (queue # <<>> => Len(queue) \in 1 .. Len(queue))
    BY EmptySeq DEF IInv, TypeOK
  <1>2. CASE queue = <<>>
    BY <1>2 DEF TailStop, Under
  <1>3. CASE queue # <<>>
    <2>1. TailStop = queue[Len(queue)].stop /\ Len(queue) \in 1 .. Len(queue)
      BY <1>1, <1>3 DEF TailStop
    <2>2. TailStop \in Int
      BY <2>1, TimesTyped, PicTimes
    <2>3. Under(TailStop)
      <3>1. \A n \in 1 .. Len(queue) : n <= Len(queue)
        BY <1>1
      <3> QED BY <2>1, <3>1, TimesTyped DEF Under
    <2> QED BY <2>1, <2>2, <2>3
  <1> QED BY <1>2, <1>3

(* What nobody loses stays ready.                                             *)
LEMMA ReadyStays ==
    ASSUME Calm, IInv, AheadInv, ~Deferred, rpc \notin {"checkSeek", "setLast"},
           UNCHANGED queueThreadVars, UNCHANGED <<rtNow, bInvalidate, event>>,
           TailStop' \in Int, TailStop' <= TailStop,
           \A i \in Positions : rtNow < Script[i].stop /\ ReadyAt(i) => ReadyAt(i)'
    PROVE  ReadyInv' /\ DoneInv'
  <1>1. UNCHANGED <<qpc, bWait, rtStart, rtCur, pos, pic>>
    BY DEF queueThreadVars
  <1>2. ReadyInv'
    <2> SUFFICES ASSUME ~bInvalidate, NEW i \in Positions, rtNow < Script[i].stop
                 PROVE  Behind(i)'
      BY DEF ReadyInv
    <2>1. Behind(i)
      BY DEF AheadInv, ReadyInv
    <2>2. ReadyAt(i) => ReadyAt(i)'
      OBVIOUS
    <2>3. Script[i].stop \in Int /\ TailStop \in Int
      BY ScriptIsOrdered, TailIsTyped
    <2>4. Script[i].stop <= TailStop' => Script[i].stop <= TailStop
      BY <2>3
    <2> QED BY <1>1, <2>1, <2>2, <2>4 DEF Behind
  <1>3. DoneInv'
    <2>1. GoesToSleep' = GoesToSleep
      BY <1>1 DEF GoesToSleep
    <2> QED BY <2>1 DEF AheadInv, DoneInv
  <1> QED BY <1>2, <1>3

-----------------------------------------------------------------------------
(* The renderer.                                                              *)
LEMMA SetTimeAhead ==
    ASSUME Calm, IInv, AheadInv, NEW t \in Times, SetTime(t)
    PROVE  AheadInv'
  <1>1. /\ rpc = "idle" /\ rpc' = "checkSeek" /\ rt' = t /\ rtNow' = t
        /\ UNCHANGED <<queue, shown, rtNowLast, bInvalidate, rtInvalidate, event, found, wrapper>>
        /\ UNCHANGED <<qpc, bWait, held, rtStart, rtCur, pos, pic>>
    BY DEF SetTime, queueThreadVars, callerVars
  <1>2. found = NoPic /\ ~Deferred /\ t \in Nat /\ rtNow \in Nat /\ rtNowLast \in Int /\ rtInvalidate \in Int
    BY <1>1, QueueAssumption, TimesTyped DEF AheadInv, TimeInv, Deferred
  <1>3. rtNowLast = rtNow \/ (rtNowLast = ERROR /\ rtNow = 0)
    BY <1>1 DEF AheadInv, TimeInv
  <1>4. ~Deferred' => rtNow <= rtNow'
    BY <1>1, <1>2, <1>3 DEF Deferred, ERROR
  <1>5. TimeInv'
    <2>1. bInvalidate' /\ ~Deferred' => rtInvalidate' <= rtNow'
      BY <1>1, <1>2, <1>4 DEF AheadInv, TimeInv
    <2>2. rtNow' = rt' /\ rt' \in Times \cup {0} /\ rtNowLast' \in Times \cup {0, ERROR}
      BY <1>1 DEF AheadInv, TimeInv
    <2>3. bInvalidate' /\ ~event' => qpc' \in {"grab", "lock"}
      BY <1>1 DEF AheadInv, TimeInv
    <2> QED BY <1>1, <1>2, <2>1, <2>2, <2>3 DEF TimeInv
  <1>6. StepInv' /\ BelongInv' /\ StaysInv'
    BY <1>1 DEF AheadInv, StepInv, BelongInv, BelongsIn, StaysInv
  <1>7. OrderInv'
    <2>1. shown.segStart <= rtNow /\ shown.segStart \in Int
      BY <1>2, TimesTyped, PicTimes DEF AheadInv, OrderInv
    <2>2. shown'.segStart <= rtNow' \/ Deferred'
      BY <1>1, <1>2, <1>4, <2>1
    <2> QED BY <1>1, <1>2, <2>2 DEF AheadInv, OrderInv
  <1>8. ReadyInv'
    <2> SUFFICES ASSUME ~bInvalidate, ~Deferred', NEW i \in Positions, rtNow' < Script[i].stop
                 PROVE  Behind(i)'
      BY <1>1 DEF ReadyInv
    <2>1. rtNow < Script[i].stop
      BY <1>1, <1>2, <1>4, ScriptIsOrdered
    <2>2. Behind(i)
      BY <1>2, <2>1 DEF AheadInv, ReadyInv
    <2>3. ReadyAt(i)' <=> ReadyAt(i)
      BY <1>1 DEF ReadyAt, InHand
    <2>4. TailStop' = TailStop
      BY <1>1 DEF TailStop
    <2> QED BY <1>1, <2>2, <2>3, <2>4 DEF Behind
  <1>9. DoneInv'
    BY <1>1 DEF DoneInv
  <1> QED BY <1>5, <1>6, <1>7, <1>8, <1>9 DEF AheadInv

LEMMA SetLastAhead ==
    ASSUME Calm, IInv, AheadInv, SetLast
    PROVE  AheadInv'
  <1>1. /\ rpc = "setLast" /\ rpc' = "reuse" /\ rtNowLast' = rtNow /\ event' = TRUE
        /\ UNCHANGED <<queue, shown, rtNow, rt, bInvalidate, rtInvalidate, found, wrapper>>
        /\ UNCHANGED <<qpc, bWait, held, rtStart, rtCur, pos, pic>>
    BY DEF SetLast, queueThreadVars, callerVars
  <1>2. ~Deferred /\ ~Deferred'
    BY <1>1 DEF Deferred
  <1>3. TimeInv'
    BY <1>1, <1>2 DEF AheadInv, TimeInv
  <1>4. StepInv' /\ BelongInv' /\ StaysInv'
    BY <1>1 DEF AheadInv, StepInv, BelongInv, BelongsIn, StaysInv
  <1>5. OrderInv'
    BY <1>1, <1>2 DEF AheadInv, OrderInv
  <1>6. ReadyInv'
    <2> SUFFICES ASSUME ~bInvalidate, NEW i \in Positions, rtNow < Script[i].stop
                 PROVE  Behind(i)'
      BY <1>1 DEF ReadyInv
    <2>1. Behind(i)
      BY <1>2 DEF AheadInv, ReadyInv
    <2>2. (ReadyAt(i)' <=> ReadyAt(i)) /\ TailStop' = TailStop
      BY <1>1 DEF ReadyAt, InHand, TailStop
    <2> QED BY <1>1, <2>1, <2>2 DEF Behind
  <1>7. DoneInv'
    BY <1>1 DEF DoneInv
  <1> QED BY <1>3, <1>4, <1>5, <1>6, <1>7 DEF AheadInv

LEMMA ReuseAhead ==
    ASSUME Calm, IInv, CallerInv, upc = "idle", AheadInv, Reuse
    PROVE  AheadInv'
  <1>1. /\ rpc = "reuse" /\ rpc' \in {"save", "search"}
        /\ found' = (IF InSegment(shown, rt) THEN shown ELSE NoPic)
        /\ shown' = (IF shown.segStop <= rt THEN NoPic ELSE shown)
        /\ UNCHANGED <<queue, rtNow, rtNowLast, bInvalidate, rtInvalidate, event, rt, wrapper>>
        /\ UNCHANGED <<qpc, bWait, held, rtStart, rtCur, pos, pic>>
    BY DEF Reuse, queueThreadVars, callerVars
  <1>2. /\ ~Deferred /\ ~Deferred' /\ found = NoPic /\ rtNow = rt /\ rt \in Nat
        /\ shown.segStart \in Int /\ shown.segStop \in Int
    BY <1>1, TimesTyped, PicTimes DEF Deferred, AheadInv, TimeInv
  <1>3. found' \in {NoPic, shown} /\ shown' \in {NoPic, shown}
    BY <1>1
  <1>4. ~InSegment(NoPic, rt) /\ (InSegment(shown, rt) => shown' = shown /\ found' = shown /\ shown # NoPic)
    BY <1>1, <1>2, NoPicTimes DEF InSegment
  <1>5. TimeInv'
    <2>1. InSegment(shown', rt') => found' # NoPic
      BY <1>1, <1>3, <1>4
    <2>2. rtNowLast' = rtNow' \/ (rtNowLast' = ERROR /\ rtNow' = 0)
      BY <1>1 DEF AheadInv, TimeInv
    <2>3. /\ rtNow' = rt' /\ rt' \in Times \cup {0} /\ rtNowLast' \in Times \cup {0, ERROR}
          /\ bInvalidate' => rtInvalidate' <= rtNow'
          /\ bInvalidate' /\ ~event' => qpc' \in {"grab", "lock"}
      BY <1>1, <1>2 DEF AheadInv, TimeInv
    <2> QED BY <1>1, <2>1, <2>2, <2>3 DEF TimeInv
  <1>6. StepInv' /\ StaysInv'
    BY <1>1 DEF AheadInv, StepInv, StaysInv
  <1>7. BelongInv'
    <2>1. shown' = NoPic \/ BelongsIn(shown')
      BY <1>3 DEF AheadInv, BelongInv
    <2>2. found' = NoPic \/ BelongsIn(found')
      BY <1>3 DEF AheadInv, BelongInv
    <2> QED BY <1>1, <2>1, <2>2 DEF AheadInv, BelongInv, BelongsIn
  <1>8. OrderInv'
    <2>1. shown'.segStart <= shown.segStart \/ shown'.segStart = -1
      BY <1>2, <1>3, NoPicTimes
    <2>2. found'.segStart <= shown.segStart \/ found'.segStart = -1
      BY <1>2, <1>3, NoPicTimes
    <2>3. shown'.segStart \in Int /\ found'.segStart \in Int
      BY <1>2, <1>3, NoPicTimes
    <2>4. shown'.segStart <= rtNow'
      BY <1>1, <1>2, <2>1, <2>3 DEF AheadInv, OrderInv
    <2>5. ASSUME NEW n \in 1 .. Len(queue)
          PROVE  found'.segStart <= queue[n].segStart /\ shown'.segStart <= queue[n].segStart
      <3>1. queue[n].segStart \in Nat
        BY TimesTyped, BelongsTyped DEF AheadInv, BelongInv
      <3>2. shown.segStart <= queue[n].segStart
        BY <1>2 DEF AheadInv, OrderInv
      <3> QED BY <1>2, <2>1, <2>2, <2>3, <3>1, <3>2
    <2>6. ASSUME qpc \in AtASegment
          PROVE  found'.segStart <= Script[pos].start /\ shown'.segStart <= Script[pos].start
      <3>1. Script[pos].start \in Nat
        <4>1. pos \in Positions
          BY <2>6, TheScript DEF AheadInv, StepInv
        <4> QED BY <4>1, ScriptIsOrdered
      <3>2. shown.segStart <= Script[pos].start
        BY <1>2, <2>6 DEF AheadInv, OrderInv
      <3> QED BY <1>2, <2>1, <2>2, <2>3, <3>1, <3>2
    <2>7. ASSUME pic # NoPic
          PROVE  found'.segStart <= pic.segStart /\ shown'.segStart <= pic.segStart
      <3>1. pic.segStart \in Nat
        BY <2>7, TimesTyped, BelongsTyped DEF AheadInv, BelongInv
      <3>2. shown.segStart <= pic.segStart
        BY <1>2, <2>7 DEF AheadInv, OrderInv
      <3> QED BY <1>2, <2>1, <2>2, <2>3, <3>1, <3>2
    <2> QED BY <1>1, <2>4, <2>5, <2>6, <2>7 DEF OrderInv
  <1>9. ReadyInv' /\ DoneInv'
    <2>1. ASSUME NEW i \in Positions, rtNow < Script[i].stop, ReadyAt(i)
          PROVE  ReadyAt(i)'
      <3>1. Script[i].stop \in Nat
        BY ScriptIsOrdered
      <3>2. Mine(shown, Script[i]) => InHand' = shown
        BY <1>1, <1>2, <2>1, <3>1, <1>4 DEF Mine, InHand
      <3> QED BY <1>1, <1>2, <2>1, <3>2 DEF ReadyAt, InHand
    <2>2. TailStop' = TailStop /\ TailStop \in Int
      BY <1>1, TailIsTyped DEF TailStop
    <2> QED BY <1>1, <1>2, <2>1, <2>2, ReadyStays DEF queueThreadVars
  <1> QED BY <1>5, <1>6, <1>7, <1>8, <1>9 DEF AheadInv

LEMMA SearchAhead ==
    ASSUME Calm, IInv, CallerInv, upc = "idle", AheadInv, Search
    PROVE  AheadInv'
  <1>1. /\ rpc \in {"search", "searchAgain"} /\ rpc' \in {"ask", "save"}
        /\ UNCHANGED <<shown, rtNow, rtNowLast, bInvalidate, rtInvalidate, event, rt, wrapper>>
        /\ UNCHANGED <<qpc, bWait, held, rtStart, rtCur, pos, pic>>
    BY SearchKeeps DEF Search, queueThreadVars, callerVars
  <1>2. ~Deferred /\ ~Deferred' /\ rtNow = rt
    BY <1>1 DEF Deferred, AheadInv, TimeInv
  <1>3. PICK last \in 0 .. Len(queue), popped \in 0 .. Len(queue) :
              /\ found' = Best[last] /\ popped \in {last - 1, last}
              /\ Len(queue') = Len(queue) - popped
              /\ \A n \in 1 .. Len(queue') : n + popped \in 1 .. Len(queue) /\ queue'[n] = queue[n + popped]
    BY SearchStops
  <1>4. Len(queue) \in Nat
    BY TimesTyped
  <1>5. found' = found \/ \E m \in 1 .. last : found' = queue[m]
    <2>1. 0 \in 0 .. Len(queue) /\ last \in 0 .. Len(queue) /\ 0 + 1 = 1
      BY <1>4
    <2>2. \/ Best[last] = Best[0]
          \/ \E m \in 1 .. last : Best[last] = queue[m] /\ InSegment(queue[m], rt)
      BY <2>1, BestIsFrom DEF IInv
    <2>3. Best[0] = found
      <3>1. 0 \in 0 .. QueueSize
        BY QueueAssumption
      <3> QED BY <3>1, BestIsDefined DEF BestStep
    <2> QED BY <1>3, <2>2, <2>3
  <1>6. ASSUME NEW m \in 1 .. Len(queue)
        PROVE  BelongsIn(queue[m]) /\ queue[m] \in SubPic /\ queue[m] # NoPic
    BY TimesTyped, BelongsTyped DEF AheadInv, BelongInv
  <1>7. \A m \in 1 .. last : m \in 1 .. Len(queue)
    BY <1>4
  <1>8. TimeInv'
    <2>1. InSegment(shown, rt) => found' # NoPic
      BY <1>1, <1>5, <1>6, <1>7 DEF AheadInv, TimeInv
    <2>2. rtNowLast' = rtNow' \/ (rtNowLast' = ERROR /\ rtNow' = 0)
      BY <1>1 DEF AheadInv, TimeInv
    <2>3. /\ rtNow' = rt' /\ rt' \in Times \cup {0} /\ rtNowLast' \in Times \cup {0, ERROR}
          /\ bInvalidate' => rtInvalidate' <= rtNow'
          /\ bInvalidate' /\ ~event' => qpc' \in {"grab", "lock"}
      BY <1>1, <1>2 DEF AheadInv, TimeInv
    <2>4. InSegment(shown', rt') => found' # NoPic
      BY <1>1, <2>1
    <2> QED BY <1>1, <2>2, <2>3, <2>4 DEF TimeInv
  <1>9. StepInv'
    BY <1>1 DEF AheadInv, StepInv
  <1>10. BelongInv'
    <2>1. found' = NoPic \/ BelongsIn(found')
      BY <1>5, <1>6, <1>7 DEF AheadInv, BelongInv
    <2>2. \A n \in 1 .. Len(queue') : BelongsIn(queue'[n])
      BY <1>3, <1>6
    <2> QED BY <1>1, <2>1, <2>2 DEF AheadInv, BelongInv, BelongsIn
  <1>11. OrderInv'
    <2>1. ASSUME NEW n \in 1 .. Len(queue')
          PROVE  found'.segStart <= queue'[n].segStart /\ shown.segStart <= queue'[n].segStart
      <3>1. n + popped \in 1 .. Len(queue) /\ queue'[n] = queue[n + popped]
        BY <1>3
      <3>2. found.segStart <= queue'[n].segStart /\ shown.segStart <= queue'[n].segStart
        BY <1>2, <3>1 DEF AheadInv, OrderInv
      <3>3. ASSUME NEW m \in 1 .. last PROVE queue[m].segStart <= queue'[n].segStart
        <4>1. m \in 1 .. Len(queue) /\ m <= n + popped
          BY <1>3, <1>4
        <4>2. queue[m].stop <= queue[n + popped].stop
          BY <3>1, <4>1, TimesTyped
        <4> QED BY <1>6, <3>1, <4>1, <4>2, PicsAreInOrder
      <3> QED BY <1>5, <3>2, <3>3
    <2>2. qpc \in AtASegment => found'.segStart <= Script[pos].start
      BY <1>5, <1>7, QueueIsBehind DEF AheadInv, OrderInv
    <2>3. pic # NoPic => found'.segStart <= pic.segStart
      BY <1>5, <1>7, QueueIsBehind DEF AheadInv, OrderInv
    <2> QED BY <1>1, <1>2, <2>1, <2>2, <2>3 DEF AheadInv, OrderInv
  <1>12. StaysInv'
    <2>1. ASSUME NEW i \in Positions, NEW n \in 1 .. Len(queue'), Mine(queue'[n], Script[i])
          PROVE  /\ \A m \in 1 .. Len(queue') : n < m /\ Of(queue'[m], Script[i]) => Mine(queue'[m], Script[i])
                 /\ Of(pic, Script[i]) => Mine(pic, Script[i])
      <3>1. n + popped \in 1 .. Len(queue) /\ queue'[n] = queue[n + popped]
        BY <1>3
      <3>2. ASSUME NEW m \in 1 .. Len(queue'), n < m, Of(queue'[m], Script[i])
            PROVE  Mine(queue'[m], Script[i])
        <4>1. m + popped \in 1 .. Len(queue) /\ queue'[m] = queue[m + popped] /\ n + popped < m + popped
          BY <1>3, <1>4, <3>2
        <4> QED BY <2>1, <3>1, <3>2, <4>1 DEF AheadInv, StaysInv
      <3>3. Of(pic, Script[i]) => Mine(pic, Script[i])
        BY <2>1, <3>1 DEF AheadInv, StaysInv
      <3> QED BY <3>2, <3>3
    <2> QED BY <1>1, <2>1 DEF StaysInv
  <1>13. ReadyInv' /\ DoneInv'
    <2>1. \A i \in Positions : rtNow < Script[i].stop /\ ReadyAt(i) => ReadyAt(i)'
      BY SearchReady
    <2>2. TailStop' \in Int /\ TailStop' <= TailStop
      <3>1. TailStop' = IF queue' = <<>> THEN -1 ELSE queue'[Len(queue')].stop
        BY DEF TailStop
      <3>2. queue' \in Seq(SubPic) /\ (queue' # <<>> => Len(queue') \in 1 .. Len(queue'))
        BY SearchKeeps, EmptySeq DEF Shrinks
      <3>3. CASE queue' = <<>>
        <4>1. TailStop' = -1
          BY <3>1, <3>3
        <4>2. TailStop = -1 \/ \E n \in 1 .. Len(queue) : TailStop = queue[n].stop
          BY TailIsTyped
        <4>3. \A n \in 1 .. Len(queue) : queue[n].stop \in Nat
          <5> TAKE n \in 1 .. Len(queue)
          <5>1. queue[n].segStart \in Nat /\ queue[n].segStart < queue[n].stop /\ queue[n].stop \in Int
            BY <1>6, BelongsTyped, PicTimes
          <5> QED BY <5>1
        <4> QED BY <4>1, <4>2, <4>3
      <3>4. CASE queue' # <<>>
        <4>1. Len(queue') + popped \in 1 .. Len(queue) /\ queue'[Len(queue')] = queue[Len(queue') + popped]
          BY <1>3, <3>2, <3>4
        <4>2. queue[Len(queue') + popped].stop <= TailStop
          BY <4>1, TailIsTyped DEF Under
        <4>3. TailStop' \in Int
          BY <1>6, <3>1, <3>4, <4>1, PicTimes
        <4> QED BY <3>1, <3>4, <4>1, <4>2, <4>3
      <3> QED BY <3>3, <3>4
    <2> QED BY <1>1, <1>2, <2>1, <2>2, ReadyStays DEF queueThreadVars
  <1> QED BY <1>8, <1>9, <1>10, <1>11, <1>12, <1>13 DEF AheadInv

LEMMA AskAhead ==
    ASSUME Calm, IInv, AheadInv, Ask
    PROVE  AheadInv'
  <1>1. /\ rpc = "ask" /\ rpc' \in {"searchAgain", "save"}
        /\ UNCHANGED <<queue, shown, rtNow, rtNowLast, bInvalidate, rtInvalidate, event, rt, found, wrapper>>
        /\ UNCHANGED <<qpc, bWait, held, rtStart, rtCur, pos, pic>>
    BY DEF Ask, sharedVars, queueThreadVars, callerVars
  <1>2. ~Deferred /\ ~Deferred'
    BY <1>1 DEF Deferred
  <1>3. TimeInv'
    BY <1>1, <1>2 DEF AheadInv, TimeInv, InSegment
  <1>4. StepInv' /\ BelongInv' /\ StaysInv'
    BY <1>1 DEF AheadInv, StepInv, BelongInv, BelongsIn, StaysInv
  <1>5. OrderInv'
    BY <1>1, <1>2 DEF AheadInv, OrderInv
  <1>6. ReadyInv' /\ DoneInv'
    <2>1. \A i \in Positions : ReadyAt(i)' <=> ReadyAt(i)
      BY <1>1 DEF ReadyAt, InHand
    <2>2. TailStop' = TailStop /\ TailStop \in Int
      BY <1>1, TailIsTyped DEF TailStop
    <2> QED BY <1>1, <1>2, <2>1, <2>2, ReadyStays DEF queueThreadVars
  <1> QED BY <1>3, <1>4, <1>5, <1>6 DEF AheadInv

LEMMA SaveAhead ==
    ASSUME Calm, IInv, CallerInv, upc = "idle", AheadInv, Save
    PROVE  AheadInv'
  <1>1. /\ rpc = "save" /\ rpc' = "idle" /\ found' = NoPic
        /\ shown' = (IF found = NoPic THEN shown ELSE found)
        /\ UNCHANGED <<queue, rtNow, rtNowLast, bInvalidate, rtInvalidate, event, rt, wrapper>>
        /\ UNCHANGED <<qpc, bWait, held, rtStart, rtCur, pos, pic>>
    BY DEF Save, queueThreadVars, callerVars
  <1>2. ~Deferred /\ ~Deferred' /\ rtNow = rt
    BY <1>1 DEF Deferred, AheadInv, TimeInv
  <1>3. TimeInv'
    <2>1. rtNowLast' = rtNow' \/ (rtNowLast' = ERROR /\ rtNow' = 0)
      BY <1>1 DEF AheadInv, TimeInv
    <2>2. /\ rtNow' = rt' /\ rt' \in Times \cup {0} /\ rtNowLast' \in Times \cup {0, ERROR}
          /\ bInvalidate' => rtInvalidate' <= rtNow'
          /\ bInvalidate' /\ ~event' => qpc' \in {"grab", "lock"}
      BY <1>1, <1>2 DEF AheadInv, TimeInv
    <2> QED BY <1>1, <2>1, <2>2 DEF TimeInv
  <1>4. StepInv' /\ StaysInv'
    BY <1>1 DEF AheadInv, StepInv, StaysInv
  <1>5. BelongInv'
    <2>1. shown' = NoPic \/ BelongsIn(shown')
      BY <1>1 DEF AheadInv, BelongInv
    <2> QED BY <1>1, <2>1 DEF AheadInv, BelongInv, BelongsIn
  <1>6. OrderInv'
    <2>1. found # NoPic => found.segStart <= rtNow
      BY <1>1, <1>2 DEF IInv, FoundInv, InSegment
    <2>2. shown'.segStart <= rtNow
      BY <1>1, <1>2, <2>1 DEF AheadInv, OrderInv
    <2>3. ASSUME NEW n \in 1 .. Len(queue)
          PROVE  NoPic.segStart <= queue[n].segStart /\ shown'.segStart <= queue[n].segStart
      <3>1. queue[n].segStart \in Nat
        BY TimesTyped, BelongsTyped DEF AheadInv, BelongInv
      <3> QED BY <1>1, <1>2, <3>1, NoPicTimes DEF AheadInv, OrderInv
    <2>4. ASSUME qpc \in AtASegment
          PROVE  NoPic.segStart <= Script[pos].start /\ shown'.segStart <= Script[pos].start
      <3>1. found.segStart <= Script[pos].start /\ shown.segStart <= Script[pos].start
        BY <1>2, <2>4 DEF AheadInv, OrderInv
      <3>2. NoPic.segStart <= Script[pos].start
        <4>1. pos \in Positions
          BY <2>4, TheScript DEF AheadInv, StepInv
        <4>2. Script[pos].start \in Nat
          BY <4>1, ScriptIsOrdered
        <4> QED BY <4>2, NoPicTimes
      <3> QED BY <1>1, <3>1, <3>2
    <2>5. ASSUME pic # NoPic
          PROVE  NoPic.segStart <= pic.segStart /\ shown'.segStart <= pic.segStart
      <3>1. pic.segStart \in Nat
        BY <2>5, TimesTyped, BelongsTyped DEF AheadInv, BelongInv
      <3> QED BY <1>1, <1>2, <2>5, <3>1, NoPicTimes DEF AheadInv, OrderInv
    <2> QED BY <1>1, <2>2, <2>3, <2>4, <2>5 DEF OrderInv
  <1>7. ReadyInv' /\ DoneInv'
    <2>1. \A i \in Positions : ReadyAt(i)' <=> ReadyAt(i)
      BY <1>1 DEF ReadyAt, InHand
    <2>2. TailStop' = TailStop /\ TailStop \in Int
      BY <1>1, TailIsTyped DEF TailStop
    <2> QED BY <1>1, <1>2, <2>1, <2>2, ReadyStays DEF queueThreadVars
  <1> QED BY <1>3, <1>4, <1>5, <1>6, <1>7 DEF AheadInv

(* A step back is noticed, and what it leaves is behind the new time.         *)
LEMMA CheckSeekAhead ==
    ASSUME Calm, IInv, CallerInv, upc = "idle", AheadInv, CheckSeek
    PROVE  AheadInv'
  <1>1. /\ rpc = "checkSeek" /\ rpc' = "setLast"
        /\ UNCHANGED <<rt, found, wrapper>>
        /\ UNCHANGED <<qpc, bWait, held, rtStart, rtCur, pos, pic>>
    BY DEF CheckSeek, queueThreadVars, callerVars
  <1>2. /\ rtNow \in Nat /\ rtNowLast \in Int /\ rtNow \in Times \cup {0} /\ rtNowLast \in Times \cup {0, ERROR}
        /\ found = NoPic /\ rtNow = rt
    BY <1>1, TimesTyped DEF AheadInv, TimeInv
  <1>3. ~Deferred' /\ (Deferred <=> rtNowLast > rtNow)
    BY <1>1 DEF Deferred
  <1>4. DoneInv'
    BY <1>1 DEF DoneInv
  <1>5. StepInv'
    BY <1>1 DEF AheadInv, StepInv
  <1>6. CASE UNCHANGED sharedVars /\ ~(rtNowLast >= 0 /\ rtNowLast - rtNow >= Frame)
    <2>1. UNCHANGED <<queue, shown, rtNow, rtNowLast, bInvalidate, rtInvalidate, event>>
      BY <1>6 DEF sharedVars
    <2>2. ~Deferred
      <3>1. rtNowLast # ERROR /\ rtNow < rtNowLast => rtNowLast - rtNow >= Frame /\ rtNowLast >= 0
        BY <1>2 DEF Calm
      <3> QED BY <1>2, <1>3, <1>6, <3>1 DEF ERROR
    <2>3. TimeInv'
      BY <1>1, <1>2, <1>3, <2>1, <2>2 DEF AheadInv, TimeInv
    <2>4. BelongInv' /\ StaysInv'
      BY <1>1, <2>1 DEF AheadInv, BelongInv, BelongsIn, StaysInv
    <2>5. OrderInv'
      BY <1>1, <1>3, <2>1, <2>2 DEF AheadInv, OrderInv
    <2>6. ReadyInv'
      <3> SUFFICES ASSUME ~bInvalidate, NEW i \in Positions, rtNow < Script[i].stop
                   PROVE  Behind(i)'
        BY <2>1 DEF ReadyInv
      <3>1. Behind(i)
        BY <2>2 DEF AheadInv, ReadyInv
      <3>2. (ReadyAt(i)' <=> ReadyAt(i)) /\ TailStop' = TailStop
        BY <1>1, <2>1 DEF ReadyAt, InHand, TailStop
      <3> QED BY <1>1, <3>1, <3>2 DEF Behind
    <2> QED BY <1>4, <1>5, <2>3, <2>4, <2>5, <2>6 DEF AheadInv
  <1>7. CASE Invalidate(rtNow) /\ rtNowLast >= 0 /\ rtNowLast - rtNow >= Frame
    <2>1. /\ bInvalidate' = TRUE /\ rtInvalidate' = rtNow /\ event' = TRUE /\ rtNowLast' = ERROR
          /\ rtNow' = rtNow /\ queue' = KeptBy(rtNow)
          /\ shown' = (IF shown.stop > rtNow THEN NoPic ELSE shown)
      <3>1. ~(rtNow < rtNow)
        BY <1>2
      <3> QED BY <1>7, <3>1 DEF Invalidate
    <2>2. \A n \in 1 .. Len(queue') : n \in 1 .. Len(queue) /\ queue'[n] = queue[n] /\ queue'[n].stop <= rtNow
      <3>1. TypeOK /\ QueueSorted /\ rtNow \in Int
        BY <1>2 DEF IInv
      <3> QED BY <2>1, <3>1, CutTail
    <2>3. \/ shown' = NoPic
          \/ shown' = shown /\ shown # NoPic /\ shown.stop <= rtNow
      BY <1>2, <2>1, TimesTyped, PicTimes
    <2>4. shown \in SubPic /\ (shown # NoPic => BelongsIn(shown))
      BY TimesTyped DEF AheadInv, BelongInv
    <2>5. ASSUME NEW n \in 1 .. Len(queue)
          PROVE  queue[n] \in SubPic /\ BelongsIn(queue[n]) /\ queue[n].segStart \in Nat
      BY TimesTyped, BelongsTyped DEF AheadInv, BelongInv
    <2>6. TimeInv'
      BY <1>1, <1>2, <2>1 DEF AheadInv, TimeInv
    <2>7. BelongInv'
      <3>1. shown' = NoPic \/ BelongsIn(shown')
        BY <2>3, <2>4
      <3>2. \A n \in 1 .. Len(queue') : BelongsIn(queue'[n])
        BY <2>2, <2>5
      <3> QED BY <1>1, <3>1, <3>2 DEF AheadInv, BelongInv, BelongsIn
    <2>8. StaysInv'
      <3>1. Len(queue) \in Nat
        BY TimesTyped
      <3> QED BY <1>1, <2>2, <3>1 DEF AheadInv, StaysInv
    <2>9. OrderInv'
      <3>1. shown'.segStart <= rtNow
        BY <1>2, <2>3, <2>4, NoPicTimes, BelongsTyped, PicTimes
      <3>2. ASSUME NEW n \in 1 .. Len(queue')
            PROVE  NoPic.segStart <= queue'[n].segStart /\ shown'.segStart <= queue'[n].segStart
        <4>1. queue'[n].segStart \in Nat /\ queue'[n].stop <= rtNow /\ queue'[n].stop \in Int
          BY <2>2, <2>5, PicTimes
        <4>2. CASE shown' = NoPic
          BY <4>1, <4>2, NoPicTimes
        <4>3. CASE shown' = shown
          BY <1>2, <2>2, <4>1, <4>3, NoPicTimes DEF AheadInv, OrderInv
        <4> QED BY <2>3, <4>1, <4>2, <4>3, NoPicTimes
      <3>3. ASSUME qpc \in AtASegment
            PROVE  NoPic.segStart <= Script[pos].start /\ shown'.segStart <= Script[pos].start
        <4>1. pos \in Positions
          BY <3>3, TheScript DEF AheadInv, StepInv
        <4>2. Script[pos].start \in Nat /\ Script[pos].stop \in Nat
          BY <4>1, ScriptIsOrdered
        <4>3. CASE shown' = NoPic
          BY <4>2, <4>3, NoPicTimes
        <4>4. CASE shown' = shown /\ shown # NoPic /\ shown.stop <= rtNow
          <5>1. \/ shown.segStart <= Script[pos].start
                \/ rtNow < Script[pos].stop
            BY <3>3 DEF AheadInv, OrderInv
          <5>2. shown.segStart \in Nat /\ shown.segStart <= rtNow
            BY <1>2, <2>4, <4>4, BelongsTyped, PicTimes
          <5>3. shown.segStart <= Script[pos].start
            BY <1>2, <2>4, <4>1, <4>4, <5>1, <5>2, CurrentIsNoLater
          <5> QED BY <4>2, <4>4, <5>3, NoPicTimes
        <4> QED BY <2>3, <4>3, <4>4
      <3>4. ASSUME pic # NoPic
            PROVE  NoPic.segStart <= pic.segStart /\ shown'.segStart <= pic.segStart
        <4>1. pic \in SubPic /\ BelongsIn(pic) /\ pic.segStart \in Nat /\ pic.stop \in Int
          BY <3>4, TimesTyped, BelongsTyped, PicTimes DEF AheadInv, BelongInv
        <4>2. CASE shown' = NoPic
          BY <4>1, <4>2, NoPicTimes
        <4>3. CASE shown' = shown /\ shown # NoPic /\ shown.stop <= rtNow
          <5>1. \/ shown.segStart <= pic.segStart
                \/ rtNow < pic.stop
            BY <3>4 DEF AheadInv, OrderInv
          <5>2. rtNow < pic.stop => shown.stop <= pic.stop
            BY <1>2, <2>4, <4>1, <4>3, PicTimes
          <5>3. shown.segStart <= pic.segStart
            BY <2>4, <4>1, <4>3, <5>1, <5>2, PicsAreInOrder
          <5> QED BY <4>1, <4>3, <5>3, NoPicTimes
        <4> QED BY <2>3, <4>2, <4>3
      <3> QED BY <1>1, <1>2, <2>1, <3>1, <3>2, <3>3, <3>4 DEF OrderInv
    <2>10. ReadyInv'
      BY <2>1 DEF ReadyInv
    <2> QED BY <1>4, <1>5, <2>6, <2>7, <2>8, <2>9, <2>10 DEF AheadInv
  <1> QED BY <1>6, <1>7 DEF CheckSeek

LEMMA RendererAhead ==
    ASSUME Calm, IInv, CallerInv, upc = "idle", AheadInv, Renderer
    PROVE  AheadInv'
  BY SetTimeAhead, CheckSeekAhead, SetLastAhead, ReuseAhead, SearchAhead, AskAhead, SaveAhead DEF Renderer

-----------------------------------------------------------------------------
(* The queue thread, when it does nothing to the queue.                       *)
LEMMA ThreadSees ==
    ASSUME UNCHANGED <<queue, shown, rtNow, rtNowLast, rt, rpc, found>>
    PROVE  /\ Deferred' = Deferred /\ TailStop' = TailStop
           /\ \A i \in Positions : ReadyAt(i)' <=> ReadyAt(i)
  BY DEF Deferred, TailStop, ReadyAt, InHand

(* What concerns only the renderer and the queue.                             *)
LEMMA ThreadLeaves ==
    ASSUME AheadInv, UNCHANGED <<queue, shown, rtNow, rtNowLast, rt, rpc, found, pic, rtInvalidate>>,
           bInvalidate' => bInvalidate, bInvalidate' /\ ~event' => qpc' \in {"grab", "lock"}
    PROVE  /\ TimeInv' /\ StaysInv'
           /\ qpc' # "enqueue" => BelongInv'
           /\ qpc' \notin AtASegment => OrderInv'
  <1>1. Deferred' = Deferred
    BY ThreadSees
  <1>2. TimeInv'
    BY <1>1 DEF AheadInv, TimeInv, InSegment
  <1>3. StaysInv'
    BY DEF AheadInv, StaysInv
  <1>4. ASSUME qpc' # "enqueue" PROVE BelongInv'
    BY <1>4 DEF AheadInv, BelongInv, BelongsIn
  <1>5. ASSUME qpc' \notin AtASegment PROVE OrderInv'
    BY <1>1, <1>5 DEF AheadInv, OrderInv
  <1> QED BY <1>2, <1>3, <1>4, <1>5

(* At the head of the loop: Top, Wake, Grab, EndPass.                         *)
LEMMA LoopAhead ==
    ASSUME Calm, IInv, CallerInv, upc = "idle", AheadInv, Top \/ Wake \/ Grab \/ EndPass
    PROVE  AheadInv'
  <1>1. /\ UNCHANGED <<queue, shown, rtNow, rtNowLast, rt, rpc, found, pic, bInvalidate, rtInvalidate>>
        /\ UNCHANGED <<rtStart, rtCur, pos, wrapper>>
    BY DEF Top, Wake, Grab, EndPass, sharedVars, rendererVars, callerVars
  <1>2. wrapper.prov # NoProvider
    BY TheScript DEF AheadInv, StepInv
  <1>3. Deferred' = Deferred /\ TailStop' = TailStop /\ \A i \in Positions : ReadyAt(i)' <=> ReadyAt(i)
    BY <1>1, ThreadSees
  <1>4. \/ /\ qpc = "top" /\ qpc' \in {"done", "wait", "grab"} /\ event' = event /\ held' = held
           /\ bWait' = FALSE /\ (qpc' = "wait" => bWait)
        \/ qpc = "wait" /\ qpc' = "grab" /\ event' = FALSE /\ held' = held /\ bWait' = bWait
        \/ qpc = "grab" /\ qpc' = "lock" /\ event' = event /\ held' = wrapper /\ bWait' = bWait
        \/ /\ qpc = "unlock" /\ qpc' \in {"top", "blocked"} /\ (qpc' = "top" <=> pic = NoPic)
           /\ event' = event /\ held' = held /\ bWait' = bWait
    BY <1>2 DEF Top, Wake, Grab, EndPass, sharedVars
  <1>5. bInvalidate' /\ ~event' => qpc' \in {"grab", "lock"}
    BY <1>1, <1>4 DEF AheadInv, TimeInv
  <1>6. TimeInv' /\ StaysInv' /\ BelongInv' /\ OrderInv'
    BY <1>1, <1>4, <1>5, ThreadLeaves DEF AtASegment
  <1>7. StepInv'
    BY <1>1, <1>4 DEF AheadInv, StepInv, AtASegment
  <1>8. ReadyInv'
    <2> SUFFICES ASSUME ~bInvalidate, ~Deferred, NEW i \in Positions, rtNow < Script[i].stop
                 PROVE  Behind(i)'
      BY <1>1, <1>3 DEF ReadyInv
    <2>1. Behind(i)
      BY DEF AheadInv, ReadyInv
    <2>2. /\ qpc' \notin {"position", "advance", "unlock"} /\ qpc' \notin AtASegment
          /\ qpc' = "blocked" => qpc = "unlock"
      BY <1>4 DEF AtASegment
    <2>3. ReadyAt(i)' <=> ReadyAt(i)
      BY <1>3
    <2> QED BY <1>1, <1>3, <2>1, <2>2, <2>3 DEF Behind
  <1>9. DoneInv'
    <2> SUFFICES ASSUME ~event', rpc \notin {"checkSeek", "setLast"}, GoesToSleep', NEW i \in Positions,
                        rtNow < Script[i].stop, Script[i].start < rtNow + Ahead
                 PROVE  ReadyAt(i)'
      BY <1>1 DEF DoneInv
    <2>1. ~event /\ GoesToSleep
      BY <1>4 DEF GoesToSleep
    <2>2. ReadyAt(i)
      BY <2>1 DEF AheadInv, DoneInv
    <2> QED BY <1>3, <2>2
  <1> QED BY <1>6, <1>7, <1>8, <1>9 DEF AheadInv

(* A pass begins: what was invalidated is gone from the queue.                *)
LEMMA LockProviderAhead ==
    ASSUME Calm, IInv, CallerInv, upc = "idle", AheadInv, LockProvider
    PROVE  AheadInv'
  <1>1. /\ UNCHANGED <<queue, shown, rtNow, rtNowLast, rt, rpc, found, pic, rtInvalidate, event>>
        /\ UNCHANGED <<rtStart, rtCur, pos, wrapper, held, bWait>>
        /\ qpc = "lock" /\ qpc' = "begin" /\ bInvalidate' = FALSE
    BY DEF LockProvider, rendererVars, callerVars
  <1>2. Deferred' = Deferred /\ TailStop' = TailStop /\ \A i \in Positions : ReadyAt(i)' <=> ReadyAt(i)
    BY <1>1, ThreadSees
  <1>3. TimeInv' /\ StaysInv' /\ BelongInv' /\ OrderInv'
    BY <1>1, ThreadLeaves DEF AtASegment
  <1>4. StepInv'
    BY <1>1 DEF AheadInv, StepInv, AtASegment
  <1>5. ReadyInv'
    <2> SUFFICES ASSUME ~Deferred, NEW i \in Positions, rtNow < Script[i].stop
                 PROVE  Behind(i)'
      BY <1>1, <1>2 DEF ReadyInv
    <2>1. ASSUME Script[i].stop <= TailStop PROVE ReadyAt(i)
      <3>1. CASE ~bInvalidate
        BY <2>1, <3>1 DEF AheadInv, ReadyInv, Behind
      <3>2. CASE bInvalidate
        <4>1. rtInvalidate <= rtNow /\ rtInvalidate \in Int /\ rtNow \in Nat
          BY <3>2, TimesTyped DEF AheadInv, TimeInv
        <4>2. \A n \in 1 .. Len(queue) : queue[n].stop <= rtInvalidate /\ queue[n].stop \in Int
          BY <3>2, TimesTyped, PicTimes DEF IInv, InvalidatedIsGone
        <4>3. TailStop <= rtNow /\ TailStop \in Int
          BY <4>1, <4>2, TailIsTyped
        <4>4. Script[i].stop \in Nat
          BY ScriptIsOrdered
        <4> QED BY <2>1, <4>1, <4>3, <4>4
      <3> QED BY <3>1, <3>2
    <2>2. qpc' \notin {"position", "advance", "unlock", "blocked"} /\ qpc' \notin AtASegment
      BY <1>1 DEF AtASegment
    <2> QED BY <1>2, <2>1, <2>2 DEF Behind
  <1>6. DoneInv'
    BY <1>1 DEF DoneInv, GoesToSleep
  <1> QED BY <1>3, <1>4, <1>5, <1>6 DEF AheadInv

LEMMA BeginPassAhead ==
    ASSUME Calm, IInv, CallerInv, upc = "idle", AheadInv, BeginPass
    PROVE  AheadInv'
  <1>1. /\ UNCHANGED <<queue, shown, rtNow, rtNowLast, rt, rpc, found, pic, rtInvalidate, event, bInvalidate>>
        /\ UNCHANGED <<rtCur, pos, wrapper, held, bWait>>
        /\ qpc = "begin" /\ qpc' = "position" /\ rtStart' = TailStop
    BY DEF BeginPass, sharedVars, rendererVars, callerVars
  <1>2. Deferred' = Deferred /\ TailStop' = TailStop /\ \A i \in Positions : ReadyAt(i)' <=> ReadyAt(i)
    BY <1>1, ThreadSees
  <1>3. TimeInv' /\ StaysInv' /\ BelongInv' /\ OrderInv'
    <2>1. bInvalidate' /\ ~event' => qpc' \in {"grab", "lock"}
      BY <1>1 DEF AheadInv, TimeInv
    <2> QED BY <1>1, <2>1, ThreadLeaves DEF AtASegment
  <1>4. StepInv'
    BY <1>1 DEF AheadInv, StepInv, AtASegment
  <1>5. ReadyInv'
    <2> SUFFICES ASSUME ~bInvalidate, ~Deferred, NEW i \in Positions, rtNow < Script[i].stop
                 PROVE  Behind(i)'
      BY <1>1, <1>2 DEF ReadyInv
    <2>1. Script[i].stop <= TailStop => ReadyAt(i)
      BY DEF AheadInv, ReadyInv, Behind
    <2>2. qpc' \notin {"advance", "unlock", "blocked"} /\ qpc' \notin AtASegment
      BY <1>1 DEF AtASegment
    <2> QED BY <1>1, <1>2, <2>1, <2>2 DEF Behind
  <1>6. DoneInv'
    BY <1>1 DEF DoneInv, GoesToSleep
  <1> QED BY <1>3, <1>4, <1>5, <1>6 DEF AheadInv

(* GetStartPosition returns the first segment that ends after the time.       *)
LEMMA StartPositionIsFirst ==
    ASSUME Calm, NEW t \in Int
    PROVE  LET p == StartPosition(Script, t)
           IN /\ p # 0 => p \in Positions /\ t < Script[p].stop
              /\ \A i \in Positions : p = 0 \/ i < p => Script[i].stop <= t
  <1> DEFINE p == StartPosition(Script, t)
             later == {i \in DOMAIN Script : Script[i].stop > t}
  <1>1. /\ DOMAIN Script = Positions /\ Positions \subseteq Nat /\ later \subseteq Positions
        /\ \A i \in Positions : Script[i].stop \in Int
    BY ScriptIsOrdered
  <1>2. CASE later = {}
    <2>1. p = 0
      BY <1>2 DEF StartPosition
    <2>2. \A i \in Positions : Script[i].stop <= t
      BY <1>1, <1>2
    <2> QED BY <2>1, <2>2
  <1>3. CASE later # {}
    <2>1. p = Min(later)
      BY <1>3 DEF StartPosition
    <2>2. p \in later /\ \A i \in later : p <= i
      <3> HIDE DEF later, p
      <3> QED BY <1>1, <1>3, <2>1, MinIsLeast
    <2>3. ASSUME NEW i \in Positions, i < p PROVE Script[i].stop <= t
      <3>1. i \notin later
        <4> HIDE DEF later, p
        <4> QED BY <1>1, <2>2, <2>3
      <3> QED BY <1>1, <3>1
    <2>4. p \in Positions /\ t < Script[p].stop /\ p # 0
      <3>1. p \in Positions
        BY <1>1, <2>2
      <3>2. p # 0
        BY <3>1 DEF Positions
      <3>3. Script[p].stop > t /\ Script[p].stop \in Int
        BY <1>1, <2>2
      <3> HIDE DEF p
      <3> QED BY <3>1, <3>2, <3>3
    <2> QED BY <2>3, <2>4
  <1> QED BY <1>2, <1>3

(* What the renderer has found is of the time it looks up.                    *)
LEMMA FoundIsNow ==
    ASSUME IInv, AheadInv, found # NoPic
    PROVE  found.segStart <= rtNow
  <1>1. rpc \in {"search", "searchAgain", "ask", "save"} /\ rtNow = rt
    BY DEF AheadInv, TimeInv, IInv, TypeOK
  <1> QED BY <1>1 DEF IInv, FoundInv, InSegment

LEMMA PositionAhead ==
    ASSUME Calm, IInv, CallerInv, upc = "idle", AheadInv, Position
    PROVE  AheadInv'
  <1>1. /\ UNCHANGED <<queue, shown, rtNow, rtNowLast, rt, rpc, found, pic, rtInvalidate, event, bInvalidate>>
        /\ UNCHANGED <<rtCur, wrapper, held>>
        /\ qpc = "position" /\ rtStart' = Larger(rtStart, rtNow) /\ bWait' = (pos' = 0)
        /\ qpc' = (IF pos' = 0 THEN "unlock" ELSE "segment")
    BY DEF Position, sharedVars, rendererVars, callerVars
  <1>2. Deferred' = Deferred /\ TailStop' = TailStop /\ \A i \in Positions : ReadyAt(i)' <=> ReadyAt(i)
    BY <1>1, ThreadSees
  <1>3. /\ rtStart \in Int /\ rtNow \in Nat /\ rtStart' \in Int /\ rtStart <= rtStart' /\ rtNow <= rtStart'
        /\ rtStart' = rtStart \/ rtStart' = rtNow
    BY <1>1, TimesTyped DEF Larger
  <1>4. /\ pos' # 0 => pos' \in Positions /\ rtStart' < Script[pos'].stop
        /\ \A i \in Positions : pos' = 0 \/ i < pos' => Script[i].stop <= rtStart'
    <2>1. content[held.prov] = Script
      BY TheScript DEF AheadInv, StepInv
    <2>2. pos' = StartPosition(Script, rtStart')
      BY <2>1 DEF Position
    <2> QED BY <1>3, <2>2, StartPositionIsFirst
  <1>5. ~(bInvalidate /\ ~event) /\ pic = NoPic
    BY <1>1 DEF AheadInv, TimeInv, StepInv
  <1>6. TimeInv' /\ StaysInv' /\ BelongInv'
    BY <1>1, <1>5, ThreadLeaves
  <1>7. StepInv'
    BY <1>1, <1>4, <1>5 DEF AheadInv, StepInv, AtASegment
  <1>8. OrderInv'
    <2>1. CASE pos' = 0
      BY <1>1, <1>5, <2>1, ThreadLeaves DEF AtASegment
    <2>2. CASE pos' # 0
      <3>1. pos' \in Positions /\ rtNow < Script[pos'].stop /\ Script[pos'].start \in Nat
        BY <1>3, <1>4, <2>2, ScriptIsOrdered
      <3>2. found.segStart <= Script[pos'].start
        <4>1. CASE found = NoPic
          BY <3>1, <4>1, NoPicTimes
        <4>2. CASE found # NoPic
          <5>1. found \in SubPic /\ BelongsIn(found) /\ found.segStart <= rtNow
            BY <4>2, FoundIsNow, TimesTyped DEF AheadInv, BelongInv
          <5> QED BY <1>3, <3>1, <5>1, CurrentIsNoLater
        <4> QED BY <4>1, <4>2
      <3>3. shown.segStart <= rtNow => shown.segStart <= Script[pos'].start
        <4>1. CASE shown = NoPic
          BY <3>1, <4>1, NoPicTimes
        <4>2. CASE shown # NoPic /\ shown.segStart <= rtNow
          <5>1. shown \in SubPic /\ BelongsIn(shown)
            BY <4>2, TimesTyped DEF AheadInv, BelongInv
          <5> QED BY <1>3, <3>1, <4>2, <5>1, CurrentIsNoLater
        <4> QED BY <4>1, <4>2
      <3>4. \/ shown.segStart <= Script[pos'].start
            \/ Deferred' /\ rtNow < Script[pos'].stop /\ qpc' # "render"
        BY <1>1, <1>2, <2>2, <3>1, <3>3 DEF AheadInv, OrderInv
      <3> QED BY <1>1, <1>2, <1>5, <3>2, <3>4 DEF AheadInv, OrderInv
    <2> QED BY <2>1, <2>2
  <1>9. ASSUME ~bInvalidate, ~Deferred, NEW i \in Positions, rtNow < Script[i].stop, Script[i].stop <= rtStart'
        PROVE  ReadyAt(i)
    <2>1. Script[i].stop <= rtStart
      BY <1>3, <1>9, ScriptIsOrdered
    <2> QED BY <1>1, <1>9, <2>1 DEF AheadInv, ReadyInv, Behind
  <1>10. ReadyInv'
    <2> SUFFICES ASSUME ~bInvalidate, ~Deferred, NEW i \in Positions, rtNow < Script[i].stop
                 PROVE  Behind(i)'
      BY <1>1, <1>2 DEF ReadyInv
    <2>1. Script[i].stop <= TailStop => ReadyAt(i)
      BY DEF AheadInv, ReadyInv, Behind
    <2>2. qpc' \in AtASegment /\ i < pos' => ReadyAt(i)
      BY <1>1, <1>4, <1>9 DEF AtASegment
    <2>3. qpc' \notin {"position", "advance", "blocked"} /\ pic' = NoPic
      BY <1>1, <1>5
    <2> QED BY <1>2, <2>1, <2>2, <2>3 DEF Behind
  <1>11. DoneInv'
    <2> SUFFICES ASSUME ~event, rpc \notin {"checkSeek", "setLast"}, GoesToSleep', NEW i \in Positions,
                        rtNow < Script[i].stop
                 PROVE  ReadyAt(i)'
      BY <1>1 DEF DoneInv
    <2>1. pos' = 0 /\ ~bInvalidate /\ ~Deferred
      BY <1>1, <1>5 DEF GoesToSleep, Deferred
    <2> QED BY <1>2, <1>4, <1>9, <2>1
  <1> QED BY <1>6, <1>7, <1>8, <1>10, <1>11 DEF AheadInv

(* Going on to the next segment, what there is of this one being ready.       *)
LEMMA NextSegmentAhead ==
    ASSUME Calm, IInv, CallerInv, upc = "idle", AheadInv, qpc \in {"segment", "advance"}, NextSegment,
           UNCHANGED <<queue, shown, rtNow, rtNowLast, rt, rpc, found, pic, rtInvalidate, event, bInvalidate>>,
           UNCHANGED <<rtStart, wrapper, held, bWait>>,
           ~bInvalidate /\ ~Deferred /\ rtNow < Script[pos].stop => ReadyAt(pos)
    PROVE  AheadInv'
  <1>1. Deferred' = Deferred /\ TailStop' = TailStop /\ \A i \in Positions : ReadyAt(i)' <=> ReadyAt(i)
    BY ThreadSees
  <1>2. pos \in Positions /\ content[held.prov] = Script /\ qpc \in AtASegment /\ rtNow \in Nat
    BY TheScript, TimesTyped DEF AheadInv, StepInv, AtASegment
  <1>3. pic = NoPic /\ ~bWait /\ rtStart < Script[pos].stop /\ rtStart \in Int
    BY <1>2, TimesTyped DEF AheadInv, StepInv
  <1>4. \/ pos' = 0 /\ qpc' = "unlock"
        \/ pos' = pos + 1 /\ qpc' = "segment" /\ pos # Len(Script)
    BY <1>2 DEF NextSegment
  <1>5. ~(bInvalidate /\ ~event)
    BY DEF AheadInv, TimeInv
  <1>6. TimeInv' /\ StaysInv' /\ BelongInv'
    BY <1>4, <1>5, ThreadLeaves
  <1>7. ASSUME qpc' = "segment"
        PROVE  /\ pos' \in Positions /\ pos < pos' /\ \A i \in Positions : i < pos' => i = pos \/ i < pos
               /\ Script[pos].stop < Script[pos'].stop /\ Script[pos].start < Script[pos'].start
               /\ {Script[pos].start, Script[pos].stop, Script[pos'].start, Script[pos'].stop} \subseteq Nat
    <2>1. Len(Script) \in Nat /\ pos' = pos + 1 /\ pos # Len(Script)
      BY <1>4, <1>7, ScriptIsOrdered
    <2>2. pos' \in Positions /\ pos < pos' /\ \A i \in Positions : i < pos' => i = pos \/ i < pos
      BY <1>2, <2>1 DEF Positions
    <2> QED BY <1>2, <2>2, ScriptIsOrdered
  <1>8. StepInv'
    <2>1. qpc' = "segment" => rtStart < Script[pos'].stop
      BY <1>3, <1>7
    <2> QED BY <1>3, <1>4, <2>1 DEF AheadInv, StepInv, AtASegment
  <1>9. OrderInv'
    <2>1. CASE qpc' = "unlock"
      BY <1>5, <2>1, ThreadLeaves DEF AtASegment
    <2>2. CASE qpc' = "segment"
      <3>1. found.segStart \in Int /\ shown.segStart \in Int
        BY TimesTyped, PicTimes
      <3>2. found.segStart <= Script[pos'].start
        BY <1>2, <1>7, <2>2, <3>1 DEF AheadInv, OrderInv
      <3>3. shown.segStart <= Script[pos'].start \/ (Deferred /\ rtNow < Script[pos'].stop)
        BY <1>2, <1>7, <2>2, <3>1 DEF AheadInv, OrderInv
      <3> QED BY <1>1, <1>3, <2>2, <3>2, <3>3 DEF AheadInv, OrderInv
    <2> QED BY <1>4, <2>1, <2>2
  <1>10. ReadyInv'
    <2> SUFFICES ASSUME ~bInvalidate, ~Deferred, NEW i \in Positions, rtNow < Script[i].stop
                 PROVE  Behind(i)'
      BY <1>1 DEF ReadyInv
    <2>1. Behind(i)
      BY DEF AheadInv, ReadyInv
    <2>2. i < pos \/ i = pos => ReadyAt(i)
      BY <1>2, <2>1 DEF Behind
    <2>3. qpc' \in AtASegment /\ i < pos' => ReadyAt(i)
      BY <1>4, <1>7, <2>2 DEF AtASegment
    <2>4. qpc' \notin {"position", "advance", "blocked"} /\ pic' = NoPic
      BY <1>3, <1>4
    <2> QED BY <1>1, <2>1, <2>3, <2>4 DEF Behind
  <1>11. DoneInv'
    BY <1>3, <1>4 DEF DoneInv, GoesToSleep
  <1> QED BY <1>6, <1>8, <1>9, <1>10, <1>11 DEF AheadInv

(* Coming to render the segment of the pass.                                  *)
LEMMA GoesToRender ==
    ASSUME Calm, IInv, CallerInv, upc = "idle", AheadInv, qpc \in {"segment", "advance"}, qpc' = "render",
           UNCHANGED <<queue, shown, rtNow, rtNowLast, rt, rpc, found, pic, rtInvalidate, event, bInvalidate>>,
           UNCHANGED <<rtStart, wrapper, held, bWait, pos>>,
           Script[pos].start <= rtCur', rtNow <= rtCur'
    PROVE  AheadInv'
  <1>1. Deferred' = Deferred /\ TailStop' = TailStop /\ \A i \in Positions : ReadyAt(i)' <=> ReadyAt(i)
    BY ThreadSees
  <1>2. qpc \in AtASegment /\ ~(bInvalidate /\ ~event) /\ pic = NoPic
    BY DEF AheadInv, TimeInv, StepInv, AtASegment
  <1>3. TimeInv' /\ StaysInv' /\ BelongInv'
    BY <1>2, ThreadLeaves
  <1>4. StepInv'
    BY <1>2 DEF AheadInv, StepInv, AtASegment
  <1>5. OrderInv'
    BY <1>1, <1>2 DEF AheadInv, OrderInv
  <1>6. ReadyInv'
    <2> SUFFICES ASSUME ~bInvalidate, ~Deferred, NEW i \in Positions, rtNow < Script[i].stop
                 PROVE  Behind(i)'
      BY <1>1 DEF ReadyInv
    <2>1. Behind(i)
      BY DEF AheadInv, ReadyInv
    <2> QED BY <1>1, <1>2, <2>1 DEF Behind
  <1>7. DoneInv'
    BY DEF DoneInv, GoesToSleep
  <1> QED BY <1>3, <1>4, <1>5, <1>6, <1>7 DEF AheadInv

LEMMA AtSegmentAhead ==
    ASSUME Calm, IInv, CallerInv, upc = "idle", AheadInv, AtSegment
    PROVE  AheadInv'
  <1>1. /\ UNCHANGED <<queue, shown, rtNow, rtNowLast, rt, rpc, found, pic, rtInvalidate, event, bInvalidate>>
        /\ UNCHANGED <<rtStart, wrapper, held>> /\ qpc = "segment"
    BY DEF AtSegment, sharedVars, rendererVars, callerVars
  <1>2. /\ Seg = Script[pos] /\ pos \in Positions
        /\ Seg.start \in Nat /\ Seg.stop \in Nat /\ Seg.start < Seg.stop
        /\ rtStart \in Int /\ rtNow \in Nat /\ rtStart < Seg.stop /\ Ahead \in Nat
    BY <1>1, TheScript, TimesTyped, ScriptIsOrdered, QueueAssumption DEF AheadInv, StepInv, AtASegment
  <1>3. CASE Seg.start >= rtNow + Ahead /\ bWait' = TRUE /\ qpc' = "unlock" /\ pos' = 0 /\ rtCur' = rtCur
    <2>1. Deferred' = Deferred /\ TailStop' = TailStop /\ \A i \in Positions : ReadyAt(i)' <=> ReadyAt(i)
      BY <1>1, ThreadSees
    <2>2. ~(bInvalidate /\ ~event) /\ pic = NoPic
      BY <1>1 DEF AheadInv, TimeInv, StepInv
    <2>3. TimeInv' /\ StaysInv' /\ BelongInv' /\ OrderInv'
      BY <1>1, <1>3, <2>2, ThreadLeaves DEF AtASegment
    <2>4. StepInv'
      BY <1>1, <1>3, <2>2 DEF AheadInv, StepInv, AtASegment
    <2>5. ReadyInv'
      <3> SUFFICES ASSUME ~bInvalidate, ~Deferred, NEW i \in Positions, rtNow < Script[i].stop
                   PROVE  Behind(i)'
        BY <1>1, <2>1 DEF ReadyInv
      <3>1. Script[i].stop <= TailStop => ReadyAt(i)
        BY DEF AheadInv, ReadyInv, Behind
      <3>2. qpc' \notin {"position", "advance", "blocked"} /\ qpc' \notin AtASegment /\ pic' = NoPic
        BY <1>1, <1>3, <2>2 DEF AtASegment
      <3> QED BY <2>1, <3>1, <3>2 DEF Behind
    <2>6. DoneInv'
      <3> SUFFICES ASSUME ~event, rpc \notin {"checkSeek", "setLast"}, NEW i \in Positions,
                          rtNow < Script[i].stop, Script[i].start < rtNow + Ahead
                   PROVE  ReadyAt(i)'
        BY <1>1 DEF DoneInv
      <3>1. ~bInvalidate /\ ~Deferred
        BY <2>2 DEF Deferred
      <3>2. i < pos
        <4>1. Script[i].start < Script[pos].start /\ i \in Nat /\ pos \in Nat
          BY <1>2, <1>3, ScriptIsOrdered
        <4>2. ~(pos <= i)
          BY <1>2, <4>1, StartsTell, ScriptIsOrdered
        <4> QED BY <4>1, <4>2
      <3>3. ReadyAt(i)
        BY <1>1, <3>1, <3>2 DEF AheadInv, ReadyInv, Behind, AtASegment
      <3> QED BY <2>1, <3>3
    <2> QED BY <2>3, <2>4, <2>5, <2>6 DEF AheadInv
  <1>4. CASE /\ rtCur' = Larger(Larger(Seg.start, rtStart), rtNow) /\ bWait' = bWait
             /\ rtCur' < Seg.stop /\ qpc' = "render" /\ pos' = pos
    <2>1. Seg.start <= rtCur' /\ rtNow <= rtCur'
      BY <1>2, <1>4 DEF Larger
    <2> QED BY <1>1, <1>2, <1>4, <2>1, GoesToRender
  <1>5. CASE /\ rtCur' = Larger(Larger(Seg.start, rtStart), rtNow) /\ bWait' = bWait
             /\ ~(rtCur' < Seg.stop) /\ NextSegment
    <2>1. ~(rtNow < Script[pos].stop)
      BY <1>2, <1>5 DEF Larger
    <2> QED BY <1>1, <1>5, <2>1, NextSegmentAhead
  <1> QED BY <1>3, <1>4, <1>5 DEF AtSegment

LEMMA AdvanceAhead ==
    ASSUME Calm, IInv, CallerInv, upc = "idle", AheadInv, Advance
    PROVE  AheadInv'
  <1>1. /\ UNCHANGED <<queue, shown, rtNow, rtNowLast, rt, rpc, found, pic, rtInvalidate, event, bInvalidate>>
        /\ UNCHANGED <<rtStart, wrapper, held, bWait>> /\ qpc = "advance" /\ rtCur' = Larger(rtCur, rtNow)
    BY DEF Advance, sharedVars, rendererVars, callerVars
  <1>2. /\ Seg = Script[pos] /\ pos \in Positions
        /\ Seg.start \in Nat /\ Seg.stop \in Nat /\ Seg.start <= rtCur
        /\ rtCur \in Int /\ rtNow \in Nat
    BY <1>1, TheScript, TimesTyped, ScriptIsOrdered DEF AheadInv, StepInv, AtASegment
  <1>3. Seg.start <= rtCur' /\ rtNow <= rtCur' /\ (rtCur' = rtCur \/ rtCur' = rtNow)
    BY <1>1, <1>2 DEF Larger
  <1>4. CASE rtCur' < Seg.stop /\ qpc' = "render" /\ pos' = pos
    BY <1>1, <1>2, <1>3, <1>4, GoesToRender
  <1>5. CASE ~(rtCur' < Seg.stop) /\ NextSegment
    <2>1. ASSUME ~bInvalidate, ~Deferred, rtNow < Script[pos].stop PROVE ReadyAt(pos)
      <3>1. ~(rtCur < Script[pos].stop)
        BY <1>2, <1>3, <1>5, <2>1
      <3>2. Behind(pos)
        BY <1>2, <2>1 DEF AheadInv, ReadyInv
      <3>3. ReadyAt(pos) \/ (Script[pos].stop = Unknown /\ rtCur < Unknown)
        BY <1>1, <3>2 DEF Behind
      <3> QED BY <3>1, <3>3
    <2> QED BY <1>1, <1>5, <2>1, NextSegmentAhead
  <1> QED BY <1>4, <1>5 DEF Advance

LEMMA RenderPicAhead ==
    ASSUME Calm, IInv, CallerInv, upc = "idle", AheadInv, RenderPic
    PROVE  AheadInv'
  <1>1. /\ UNCHANGED <<queue, shown, rtNow, rtNowLast, rt, rpc, found, rtInvalidate, event, bInvalidate>>
        /\ UNCHANGED <<rtStart, wrapper, held, bWait, pos>>
        /\ qpc = "render" /\ qpc' = "enqueue" /\ pic' = NewPic /\ rtCur' = GoesOnAt
    BY DEF RenderPic, sharedVars, rendererVars, callerVars, GoesOnAt
  <1>2. /\ Seg = Script[pos] /\ pos \in Positions /\ wrapper.prov # NoProvider /\ Script[pos].start <= rtCur
        /\ Script[pos].start \in Nat /\ rtNow \in Nat /\ Script[pos].stop \in Nat
    BY <1>1, TheScript, TimesTyped, ScriptIsOrdered DEF AheadInv, StepInv, AtASegment
  <1>3. /\ NewPic \in SubPic /\ NewPic # NoPic /\ GoesOnAt \in Int /\ rtCur \in Int
        /\ NewPic.stop \in Int /\ rtCur < NewPic.stop /\ NewPic.stop <= GoesOnAt
    BY <1>1, <1>2, NewPicIsLater, TimesTyped
  <1>4. /\ Belongs(NewPic, Script[pos])
        /\ Mine(NewPic, Script[pos]) \/ (Script[pos].stop = Unknown /\ GoesOnAt < Unknown)
        /\ Script[pos].stop = Unknown => NewPic.segStop >= rtCur + Frame
    BY <1>1, <1>2, RenderedBelongs
  <1> HIDE DEF NewPic, GoesOnAt
  <1>5. Deferred' = Deferred /\ TailStop' = TailStop /\ \A i \in Positions : ReadyAt(i)' <=> ReadyAt(i)
    BY <1>1, ThreadSees
  <1>6. TimeInv'
    BY <1>1, <1>5 DEF AheadInv, TimeInv, InSegment
  <1>7. StepInv'
    BY <1>1, <1>2, <1>3 DEF AheadInv, StepInv, AtASegment
  <1>8. BelongInv'
    <2>1. BelongsIn(NewPic)
      BY <1>2, <1>4 DEF BelongsIn
    <2> QED BY <1>1, <1>4, <2>1 DEF AheadInv, BelongInv, BelongsIn
  <1>9. OrderInv'
    <2>1. NewPic.segStart = Script[pos].start
      BY <1>4 DEF Belongs, Of
    <2>2. /\ found.segStart <= Script[pos].start
          /\ \/ shown.segStart <= Script[pos].start
             \/ Deferred /\ rtNow < Script[pos].stop /\ rtNow <= rtCur
      BY <1>1 DEF AheadInv, OrderInv, AtASegment
    <2>3. shown.segStart <= Script[pos].start \/ (Deferred /\ rtNow < NewPic.stop)
      BY <1>2, <1>3, <2>2
    <2> QED BY <1>1, <1>5, <2>1, <2>2, <2>3 DEF AheadInv, OrderInv
  <1>10. StaysInv'
    <2>1. ASSUME NEW i \in Positions, NEW n \in 1 .. Len(queue), Mine(queue[n], Script[i]), Of(NewPic, Script[i])
          PROVE  Mine(NewPic, Script[i])
      <3>1. i = pos
        BY <1>2, <1>4, <2>1, StartsTell DEF Belongs, Of
      <3>2. CASE Mine(NewPic, Script[pos])
        BY <3>1, <3>2
      <3>3. CASE Script[pos].stop = Unknown
        <4>1. queue[n] \in SubPic /\ BelongsIn(queue[n]) /\ Of(queue[n], Script[i])
          BY <2>1, TimesTyped DEF AheadInv, BelongInv, Mine, Of
        <4>2. Belongs(queue[n], Script[pos])
          BY <3>1, <4>1, OfBelongs
        <4>3. queue[n].segStop < queue[n].stop + Frame /\ queue[n].segStop >= Unknown
          BY <2>1, <3>1, <3>3, <4>2 DEF Belongs, Mine
        <4>4. queue[n].stop <= rtCur
          BY <1>1 DEF IInv, FrontInv, Under
        <4>5. NewPic.segStop >= Unknown
          <5>1. queue[n].stop \in Int /\ queue[n].segStop \in Int /\ NewPic.segStop \in Int
            BY <1>3, <4>1, PicTimes
          <5>2. Frame \in Nat /\ Unknown \in Nat /\ NewPic.segStop >= rtCur + Frame
            BY <1>4, <3>3, QueueAssumption
          <5> QED BY <1>3, <4>3, <4>4, <5>1, <5>2
        <4> QED BY <2>1, <3>1, <3>3, <4>5 DEF Mine, Of
      <3> QED BY <1>4, <3>2, <3>3
    <2> QED BY <1>1, <2>1 DEF AheadInv, StaysInv
  <1>11. ReadyInv'
    <2> SUFFICES ASSUME ~bInvalidate, ~Deferred, NEW i \in Positions, rtNow < Script[i].stop
                 PROVE  Behind(i)'
      BY <1>1, <1>5 DEF ReadyInv
    <2>1. Behind(i)
      BY DEF AheadInv, ReadyInv
    <2> QED BY <1>1, <1>5, <2>1 DEF Behind, AtASegment
  <1>12. DoneInv'
    BY <1>1 DEF DoneInv, GoesToSleep
  <1> QED BY <1>6, <1>7, <1>8, <1>9, <1>10, <1>11, <1>12 DEF AheadInv

(* A subpicture is added at the end of the queue.                             *)
LEMMA PutAhead ==
    ASSUME Calm, IInv, CallerInv, upc = "idle", AheadInv, qpc \in {"enqueue", "blocked"}, ~Dropped, Put, pic' = NoPic,
           UNCHANGED <<shown, rtNow, rtNowLast, rt, rpc, found, rtInvalidate, event, bInvalidate>>
    PROVE  /\ TailStop' = pic.stop /\ pic.stop \in Int /\ pic \in SubPic /\ BelongsIn(pic)
           /\ TimeInv' /\ StaysInv' /\ (qpc' # "enqueue" => BelongInv')
           /\ qpc' \notin AtASegment \/ (qpc \in AtASegment /\ qpc' = "advance" /\ pos' = pos) => OrderInv'
           /\ \A i \in Positions : Mine(pic, Script[i]) => ReadyAt(i)'
           /\ \A i \in Positions : ReadyAt(i) /\ (Of(pic, Script[i]) => Mine(pic, Script[i])) => ReadyAt(i)'
  <1>1. pic \in SubPic /\ pic # NoPic /\ BelongsIn(pic) /\ pic.stop \in Int
    BY TimesTyped, PicTimes DEF IInv, PicInv, AheadInv, BelongInv
  <1>2. queue \in Seq(SubPic) /\ Len(queue) \in Nat
    BY DEF IInv, TypeOK
  <1>3. /\ queue' \in Seq(SubPic) /\ Len(queue') = Len(queue) + 1
        /\ \A n \in 1 .. Len(queue) : queue'[n] = queue[n]
        /\ queue'[Len(queue) + 1] = pic
    BY <1>1, <1>2, AppendProperties DEF Put
  <1>4. \A n \in 1 .. Len(queue') : n \in 1 .. Len(queue) \/ n = Len(queue) + 1
    BY <1>2, <1>3
  <1>5. Len(queue) + 1 \in 1 .. Len(queue') /\ \A n \in 1 .. Len(queue) : n \in 1 .. Len(queue')
    BY <1>2, <1>3
  <1>6. TailStop' = pic.stop
    <2>1. queue' # <<>>
      BY <1>2, <1>3, EmptySeq
    <2> QED BY <1>3, <2>1 DEF TailStop
  <1>7. Deferred' = Deferred /\ InHand' = InHand
    BY DEF Deferred, InHand
  <1>8. TimeInv'
    BY <1>7 DEF AheadInv, TimeInv, InSegment
  <1>9. \A i \in Positions : ~Of(NoPic, Script[i])
    BY ScriptIsOrdered, NoPicTimes DEF Of
  <1>10. StaysInv'
    <2>1. ASSUME NEW i \in Positions, NEW n \in 1 .. Len(queue'), NEW m \in 1 .. Len(queue'), n < m,
                 Mine(queue'[n], Script[i]), Of(queue'[m], Script[i])
          PROVE  Mine(queue'[m], Script[i])
      <3>1. n \in 1 .. Len(queue) /\ queue'[n] = queue[n]
        BY <1>2, <1>3, <2>1
      <3>2. CASE m \in 1 .. Len(queue)
        BY <1>3, <2>1, <3>1, <3>2 DEF AheadInv, StaysInv
      <3>3. CASE m = Len(queue) + 1
        BY <1>3, <2>1, <3>1, <3>3 DEF AheadInv, StaysInv
      <3> QED BY <1>4, <3>2, <3>3
    <2> QED BY <1>9, <2>1 DEF StaysInv
  <1>11. ASSUME qpc' # "enqueue" PROVE BelongInv'
    <2>1. \A n \in 1 .. Len(queue') : BelongsIn(queue'[n])
      BY <1>1, <1>3, <1>4 DEF AheadInv, BelongInv
    <2> QED BY <1>11, <2>1 DEF AheadInv, BelongInv, BelongsIn
  <1>12. ASSUME qpc' \notin AtASegment \/ (qpc \in AtASegment /\ qpc' = "advance" /\ pos' = pos)
         PROVE  OrderInv'
    <2>1. ASSUME NEW n \in 1 .. Len(queue')
          PROVE  /\ found.segStart <= queue'[n].segStart
                 /\ shown.segStart <= queue'[n].segStart \/ (Deferred /\ rtNow < queue'[n].stop)
      BY <1>1, <1>3, <1>4 DEF AheadInv, OrderInv
    <2> QED BY <1>7, <1>12, <2>1 DEF AheadInv, OrderInv
  <1>13. ASSUME NEW i \in Positions, Mine(pic, Script[i]) PROVE ReadyAt(i)'
    BY <1>3, <1>5, <1>13 DEF ReadyAt
  <1>14. ASSUME NEW i \in Positions, ReadyAt(i), Of(pic, Script[i]) => Mine(pic, Script[i])
         PROVE  ReadyAt(i)'
    <2>1. CASE \E n \in 1 .. Len(queue) : Mine(queue[n], Script[i])
      <3>1. PICK n \in 1 .. Len(queue) : Mine(queue[n], Script[i])
        BY <2>1
      <3>2. Mine(queue'[n], Script[i]) /\ n \in 1 .. Len(queue')
        BY <1>3, <1>5, <3>1
      <3> QED BY <3>2 DEF ReadyAt
    <2>2. CASE Of(pic, Script[i])
      BY <1>13, <1>14, <2>2
    <2>3. CASE Mine(InHand, Script[i]) /\ ~Of(pic, Script[i]) /\ \A n \in 1 .. Len(queue) : ~Of(queue[n], Script[i])
      <3>1. \A n \in 1 .. Len(queue') : ~Of(queue'[n], Script[i])
        BY <1>3, <1>4, <2>3
      <3> QED BY <1>7, <2>3, <3>1 DEF ReadyAt
    <2> QED BY <1>14, <2>1, <2>2, <2>3 DEF ReadyAt
  <1> QED BY <1>1, <1>6, <1>8, <1>10, <1>11, <1>12, <1>13, <1>14

(* The segments that a subpicture in hand leaves behind.                      *)
LEMMA BehindPic ==
    ASSUME Calm, IInv, CallerInv, upc = "idle", AheadInv, qpc = "enqueue",
           NEW i \in Positions, Script[i].stop <= pic.stop
    PROVE  i < pos \/ (i = pos /\ Mine(pic, Script[i]))
  <1>1. /\ pos \in Positions /\ Belongs(pic, Script[pos]) /\ pic.stop \in Int /\ rtCur \in Int
        /\ Mine(pic, Script[pos]) \/ (Script[pos].stop = Unknown /\ rtCur < Unknown)
        /\ pic.stop <= rtCur
    BY TheScript, TimesTyped, PicTimes DEF AheadInv, StepInv, BelongInv, IInv, FrontInv, AtASegment
  <1>2. /\ i \in Nat /\ pos \in Nat /\ Script[i].stop \in Nat /\ Script[pos].stop \in Nat
        /\ pos < i => Script[pos].stop < Script[i].stop /\ Script[pos].stop < Unknown
    BY <1>1, ScriptIsOrdered
  <1>3. ~(pos < i)
    BY <1>1, <1>2, QueueAssumption DEF Belongs
  <1>4. i = pos => Mine(pic, Script[i])
    BY <1>1, <1>2, QueueAssumption
  <1> QED BY <1>2, <1>3, <1>4

LEMMA EnqueueAhead ==
    ASSUME Calm, IInv, CallerInv, upc = "idle", AheadInv, Enqueue
    PROVE  AheadInv'
  <1>1. /\ UNCHANGED <<shown, rtNow, rtNowLast, rt, rpc, found, rtInvalidate, event, bInvalidate>>
        /\ UNCHANGED <<rtStart, wrapper, held, bWait, rtCur>> /\ qpc = "enqueue"
    BY DEF Enqueue, rendererVars, callerVars
  <1>2. ~(bInvalidate /\ ~event) /\ ~bWait
    BY <1>1 DEF AheadInv, TimeInv, StepInv, AtASegment
  <1>3. CASE /\ ~HasRoom \/ Dropped
             /\ qpc' = "unlock" /\ pos' = 0 /\ queue' = queue
             /\ (pic' = pic /\ ~HasRoom) \/ (pic' = NoPic /\ bInvalidate)
    <2>1. Deferred' = Deferred /\ TailStop' = TailStop /\ \A i \in Positions : ReadyAt(i)' <=> ReadyAt(i)
      BY <1>1, <1>3, ThreadSees
    <2>2. TimeInv'
      BY <1>1, <1>2, <2>1 DEF AheadInv, TimeInv, InSegment
    <2>3. StepInv'
      BY <1>1, <1>2, <1>3 DEF AheadInv, StepInv, AtASegment
    <2>4. BelongInv'
      BY <1>1, <1>3 DEF AheadInv, BelongInv, BelongsIn
    <2>5. OrderInv'
      BY <1>1, <1>3, <2>1 DEF AheadInv, OrderInv, AtASegment
    <2>6. StaysInv'
      <3>1. \A i \in Positions : ~Of(NoPic, Script[i])
        BY ScriptIsOrdered, NoPicTimes DEF Of
      <3> QED BY <1>3, <3>1 DEF AheadInv, StaysInv
    <2>7. ReadyInv'
      <3> SUFFICES ASSUME ~bInvalidate, ~Deferred, NEW i \in Positions, rtNow < Script[i].stop
                   PROVE  Behind(i)'
        BY <1>1, <2>1 DEF ReadyInv
      <3>1. Behind(i)
        BY DEF AheadInv, ReadyInv
      <3>2. pic' = pic
        BY <1>3
      <3>3. Script[i].stop <= pic.stop => ReadyAt(i) \/ Mine(pic, Script[i])
        BY <1>1, <3>1, BehindPic DEF Behind, AtASegment
      <3>4. qpc' \notin {"position", "advance"} /\ qpc' \notin AtASegment
        BY <1>3 DEF AtASegment
      <3> QED BY <2>1, <3>1, <3>2, <3>3, <3>4 DEF Behind
    <2>8. DoneInv'
      BY <1>1, <1>2, <1>3 DEF DoneInv, GoesToSleep
    <2> QED BY <2>2, <2>3, <2>4, <2>5, <2>6, <2>7, <2>8 DEF AheadInv
  <1>4. CASE HasRoom /\ ~Dropped /\ Put /\ pic' = NoPic /\ qpc' = "advance" /\ pos' = pos
    <2>1. /\ TailStop' = pic.stop /\ TimeInv' /\ StaysInv' /\ BelongInv' /\ OrderInv'
          /\ \A i \in Positions : Mine(pic, Script[i]) => ReadyAt(i)'
          /\ \A i \in Positions : ReadyAt(i) /\ (Of(pic, Script[i]) => Mine(pic, Script[i])) => ReadyAt(i)'
      BY <1>1, <1>4, PutAhead DEF AtASegment
    <2>2. StepInv'
      BY <1>1, <1>2, <1>4 DEF AheadInv, StepInv, AtASegment
    <2>3. Deferred' = Deferred
      BY <1>1 DEF Deferred
    <2>4. /\ pos \in Positions /\ Belongs(pic, Script[pos])
          /\ Mine(pic, Script[pos]) \/ (Script[pos].stop = Unknown /\ rtCur < Unknown)
      BY <1>1, TheScript DEF AheadInv, StepInv, BelongInv, AtASegment
    <2>5. ReadyInv'
      <3> SUFFICES ASSUME ~bInvalidate, ~Deferred, NEW i \in Positions, rtNow < Script[i].stop
                   PROVE  Behind(i)'
        BY <1>1, <2>3 DEF ReadyInv
      <3>1. i < pos => ReadyAt(i)'
        <4>1. i < pos => ReadyAt(i) /\ i # pos
          BY <1>1, <2>4, ScriptIsOrdered DEF AheadInv, ReadyInv, Behind, AtASegment
        <4>2. Of(pic, Script[i]) => i = pos
          BY <2>4, StartsTell DEF Belongs, Of
        <4> QED BY <2>1, <4>1, <4>2
      <3>2. Script[i].stop <= pic.stop => ReadyAt(i)'
        BY <1>1, <2>1, <3>1, BehindPic
      <3>3. i = pos => ReadyAt(i)' \/ (Script[i].stop = Unknown /\ rtCur < Unknown)
        BY <2>1, <2>4
      <3> QED BY <1>1, <1>4, <2>1, <3>1, <3>2, <3>3 DEF Behind
    <2>6. DoneInv'
      BY <1>1, <1>4 DEF DoneInv, GoesToSleep
    <2> QED BY <2>1, <2>2, <2>5, <2>6 DEF AheadInv
  <1>5. bInvalidate \/ ~Dropped
    BY DEF Dropped
  <1> QED BY <1>3, <1>4, <1>5 DEF Enqueue

LEMMA EnqueueBlockingAhead ==
    ASSUME Calm, IInv, CallerInv, upc = "idle", AheadInv, EnqueueBlocking
    PROVE  AheadInv'
  <1>1. /\ UNCHANGED <<shown, rtNow, rtNowLast, rt, rpc, found, rtInvalidate, event, bInvalidate>>
        /\ UNCHANGED <<rtStart, wrapper, held, bWait, rtCur>>
        /\ qpc = "blocked" /\ qpc' = "top" /\ pic' = NoPic
    BY DEF EnqueueBlocking, rendererVars, callerVars
  <1>2. ~(bInvalidate /\ ~event) /\ ~bWait
    BY <1>1 DEF AheadInv, TimeInv, StepInv
  <1>3. StepInv'
    BY <1>1, <1>2 DEF AheadInv, StepInv, AtASegment
  <1>4. DoneInv'
    BY <1>1, <1>2 DEF DoneInv, GoesToSleep
  <1>5. Deferred' = Deferred
    BY <1>1 DEF Deferred
  <1>6. CASE bInvalidate /\ queue' = queue
    <2>1. TimeInv'
      BY <1>1, <1>2, <1>5 DEF AheadInv, TimeInv, InSegment
    <2>2. BelongInv'
      BY <1>1, <1>6 DEF AheadInv, BelongInv, BelongsIn
    <2>3. OrderInv'
      BY <1>1, <1>5, <1>6 DEF AheadInv, OrderInv, AtASegment
    <2>4. StaysInv'
      <3>1. \A i \in Positions : ~Of(NoPic, Script[i])
        BY ScriptIsOrdered, NoPicTimes DEF Of
      <3> QED BY <1>1, <1>6, <3>1 DEF AheadInv, StaysInv
    <2>5. ReadyInv'
      BY <1>1, <1>6 DEF ReadyInv
    <2> QED BY <1>3, <1>4, <2>1, <2>2, <2>3, <2>4, <2>5 DEF AheadInv
  <1>7. CASE ~Dropped /\ Put
    <2>1. /\ TailStop' = pic.stop /\ pic.stop \in Int /\ pic \in SubPic /\ BelongsIn(pic)
          /\ TimeInv' /\ StaysInv' /\ BelongInv' /\ OrderInv'
          /\ \A i \in Positions : Mine(pic, Script[i]) => ReadyAt(i)'
          /\ \A i \in Positions : ReadyAt(i) /\ (Of(pic, Script[i]) => Mine(pic, Script[i])) => ReadyAt(i)'
      BY <1>1, <1>7, PutAhead DEF AtASegment
    <2>2. ReadyInv'
      <3> SUFFICES ASSUME ~bInvalidate, ~Deferred, NEW i \in Positions, rtNow < Script[i].stop
                   PROVE  Behind(i)'
        BY <1>1, <1>5 DEF ReadyInv
      <3>1. ASSUME Script[i].stop <= pic.stop PROVE ReadyAt(i)'
        <4>1. ReadyAt(i) \/ Mine(pic, Script[i])
          BY <1>1, <3>1 DEF AheadInv, ReadyInv, Behind, IInv, PicInv
        <4>2. Of(pic, Script[i]) => Mine(pic, Script[i])
          <5>1. SUFFICES ASSUME Of(pic, Script[i]) PROVE Mine(pic, Script[i])
            OBVIOUS
          <5>2. Belongs(pic, Script[i])
            BY <2>1, <5>1, OfBelongs
          <5>3. pic.stop <= pic.segStop /\ pic.segStop \in Int /\ Script[i].stop \in Int
            BY <2>1, <5>2, PicTimes, ScriptIsOrdered DEF Belongs
          <5> QED BY <2>1, <3>1, <5>1, <5>3 DEF Mine, Of
        <4> QED BY <2>1, <4>1, <4>2
      <3>2. qpc' \notin {"position", "advance", "unlock", "blocked"} /\ qpc' \notin AtASegment
        BY <1>1 DEF AtASegment
      <3> QED BY <2>1, <3>1, <3>2 DEF Behind
    <2> QED BY <1>3, <1>4, <2>1, <2>2 DEF AheadInv
  <1>8. bInvalidate \/ ~Dropped
    BY DEF Dropped
  <1> QED BY <1>6, <1>7, <1>8 DEF EnqueueBlocking

(* No rendering fails.                                                        *)
LEMMA ThreadAhead ==
    ASSUME Calm, IInv, CallerInv, upc = "idle", AheadInv, ThreadProc
    PROVE  AheadInv'
  <1>1. ~RenderFails /\ ~CopyFails
    <2>1. wrapper.prov # NoProvider /\ Failures = {}
      BY TheScript DEF AheadInv, StepInv, Calm
    <2> QED BY <2>1 DEF RenderFails, CopyFails
  <1> QED BY <1>1, LoopAhead, LockProviderAhead, BeginPassAhead, PositionAhead, AtSegmentAhead, RenderPicAhead,
             EnqueueAhead, AdvanceAhead, EnqueueBlockingAhead DEF ThreadProc

-----------------------------------------------------------------------------
(* Everything together, until the queue is closed.                            *)
CalmInv == IInv /\ CallerInv /\ (upc = "idle" => AheadInv)

LEMMA InitAhead == ASSUME Calm, Init PROVE CalmInv
  <1>1. queue = <<>> /\ Len(queue) = 0 /\ TailStop = -1
    BY DEF Init, TailStop
  <1>2. FirstProvider # NoProvider
    BY QueueAssumption DEF Calm
  <1>3. /\ content = FirstScript /\ pending = <<>> /\ upc = "idle" /\ wrapper = [gen |-> 0, prov |-> FirstProvider]
        /\ shown = NoPic /\ found = NoPic /\ pic = NoPic /\ rtNow = 0 /\ rt = 0 /\ rtNowLast = ERROR
        /\ bInvalidate = TRUE /\ rtInvalidate = -1 /\ event = TRUE /\ qpc = "top" /\ bWait = FALSE
        /\ held = wrapper /\ rpc = "idle"
    BY <1>2 DEF Init
  <1>4. IInv
    BY InitIInv
  <1>5. CallerInv
    BY <1>3 DEF CallerInv
  <1>6. ~Deferred
    BY <1>3 DEF Deferred
  <1>7. TimeInv
    BY <1>3 DEF TimeInv
  <1>8. StepInv /\ BelongInv
    BY <1>1, <1>3 DEF StepInv, BelongInv, AtASegment
  <1>9. OrderInv
    BY <1>1, <1>3, NoPicTimes DEF OrderInv, AtASegment
  <1>10. StaysInv
    BY <1>1 DEF StaysInv
  <1>11. ReadyInv /\ DoneInv
    BY <1>3 DEF ReadyInv, DoneInv
  <1> QED BY <1>4, <1>5, <1>7, <1>8, <1>9, <1>10, <1>11 DEF CalmInv, AheadInv

LEMMA NextAhead == ASSUME Calm, CalmInv, [Next]_vars PROVE CalmInv'
  <1>1. IInv /\ CallerInv /\ IInv' /\ (upc = "idle" => AheadInv)
    BY NextKeeps DEF CalmInv
  <1>2. CASE ThreadProc \/ Renderer
    <2>1. UNCHANGED <<content, pending, upc, wrapper>>
      BY <1>2 DEF ThreadProc, Top, Wake, Grab, LockProvider, BeginPass, Position, AtSegment, RenderPic,
           RenderFails, CopyFails, Enqueue, Advance, EndPass, EnqueueBlocking,
           Renderer, SetTime, CheckSeek, SetLast, Reuse, Search, Ask, Save, callerVars
    <2>2. CallerInv'
      BY <1>1, <2>1 DEF CallerInv
    <2>3. upc = "idle" => AheadInv'
      BY <1>1, <1>2, ThreadAhead, RendererAhead
    <2> QED BY <1>1, <2>1, <2>2, <2>3 DEF CalmInv
  <1>3. CASE Caller \/ Editor
    <2>1. upc' # "idle" /\ upc' # "swapped" /\ UNCHANGED <<content, pending>>
      <3>1. ~ \E p \in Providers \cup {NoProvider} : SetSubPicProvider(p)
        <4>1. upc = "idle" => ~(wrapper.gen < MaxSwaps)
          BY <1>1 DEF CallerInv, Calm
        <4> QED BY <4>1 DEF SetSubPicProvider
      <3>2. ~Editor
        BY <1>1 DEF Editor, Edit, InvalidateAfterEdit, Calm, CallerInv
      <3>3. CASE Destroy
        BY <3>3 DEF Destroy
      <3>4. CASE InvalidateAfterSwap
        BY <1>1, <3>4 DEF InvalidateAfterSwap, CallerInv
      <3>5. CASE DropProvider
        BY <3>5 DEF DropProvider, Swap
      <3>6. CASE Close
        BY <3>6 DEF Close
      <3> QED BY <1>3, <3>1, <3>2, <3>3, <3>4, <3>5, <3>6 DEF Caller, CallerContinues
    <2>2. CallerInv'
      BY <1>1, <2>1 DEF CallerInv
    <2> QED BY <1>1, <2>1, <2>2 DEF CalmInv
  <1>4. CASE UNCHANGED vars
    <2>1. CallerInv' /\ upc' = upc
      BY <1>1, <1>4 DEF CallerInv, vars, callerVars
    <2>2. AheadInv => AheadInv'
      <3>1. /\ UNCHANGED <<queue, shown, rtNow, rtNowLast, rt, rpc, found, pic, rtInvalidate, event, bInvalidate>>
            /\ UNCHANGED <<rtStart, rtCur, pos, qpc, bWait, held, wrapper>>
        BY <1>4 DEF vars, sharedVars, queueThreadVars, rendererVars, callerVars
      <3>2. Deferred' = Deferred /\ TailStop' = TailStop /\ \A i \in Positions : ReadyAt(i)' <=> ReadyAt(i)
        BY <3>1, ThreadSees
      <3>3. TimeInv => TimeInv'
        BY <3>1, <3>2 DEF TimeInv, InSegment
      <3>4. (StepInv => StepInv') /\ (StaysInv => StaysInv') /\ (BelongInv => BelongInv')
        BY <3>1 DEF StepInv, StaysInv, BelongInv, BelongsIn
      <3>5. OrderInv => OrderInv'
        BY <3>1, <3>2 DEF OrderInv
      <3>6. ReadyInv => ReadyInv'
        BY <3>1, <3>2 DEF ReadyInv, Behind
      <3>7. DoneInv => DoneInv'
        BY <3>1, <3>2 DEF DoneInv, GoesToSleep
      <3> QED BY <3>3, <3>4, <3>5, <3>6, <3>7 DEF AheadInv
    <2> QED BY <1>1, <2>1, <2>2 DEF CalmInv
  <1> QED BY <1>2, <1>3, <1>4 DEF Next, Terminated

(* At rest the thread has gone to sleep, and the renderer holds nothing but   *)
(* what it shows.                                                             *)
LEMMA RestIsAhead == ASSUME Calm, CalmInv PROVE RenderedAhead
  <1> SUFFICES ASSUME Settled, NEW i \in DOMAIN content[wrapper.prov],
                      content[wrapper.prov][i].stop > rtNow, content[wrapper.prov][i].start < rtNow + Ahead
               PROVE  \/ Shows(shown, content[wrapper.prov][i])
                      \/ \E n \in 1 .. Len(queue) : Shows(queue[n], content[wrapper.prov][i])
    BY DEF RenderedAhead
  <1>1. IInv /\ CallerInv /\ AheadInv /\ upc = "idle" /\ qpc = "wait" /\ ~event /\ rpc = "idle"
    BY DEF CalmInv, Settled
  <1>2. content[wrapper.prov] = Script /\ i \in Positions
    BY <1>1, TheScript, ScriptIsOrdered DEF AheadInv, StepInv
  <1>3. Script[i].start \in Nat /\ Script[i].stop \in Nat /\ rtNow \in Nat
    BY <1>1, <1>2, ScriptIsOrdered, TimesTyped
  <1>4. ReadyAt(i)
    BY <1>1, <1>2, <1>3 DEF AheadInv, DoneInv, GoesToSleep
  <1>5. InHand = shown
    BY <1>1 DEF AheadInv, TimeInv, InHand
  <1>6. ASSUME NEW p, Mine(p, Script[i]) PROVE Shows(p, Script[i])
    BY <1>3, <1>6 DEF Mine, Shows
  <1> QED BY <1>2, <1>4, <1>5, <1>6 DEF ReadyAt

(* At rest every segment of the next minute has been rendered up to its end:  *)
(* no wake-up is lost and no seek makes the thread skip a segment, however    *)
(* long the queue, whatever the segments, animated or without a known end.    *)
THEOREM AheadIsRendered == ASSUME Calm PROVE Spec => []RenderedAhead
  <1>1. Init => CalmInv
    BY InitAhead
  <1>2. CalmInv /\ [Next]_vars => CalmInv'
    BY NextAhead
  <1>3. CalmInv => RenderedAhead
    BY RestIsAhead
  <1> QED BY <1>1, <1>2, <1>3, PTL DEF Spec
==============================================================================
