-------------------------------- MODULE SubPic --------------------------------
(***************************************************************************)
(* The subpictures, one part to a behaviour, chosen at its start, while    *)
(* the others do nothing:                                                  *)
(*   locks     a queue thread, a renderer, the user interface and the      *)
(*             decoder at the shared lock (SubPicLocks);                   *)
(*   seeking   the queue over one script, with seeks in both directions;   *)
(*   closing   a queue of one over another script, closed while providers  *)
(*             come, subtitles are flushed and allocations and renderings  *)
(*             fail.                                                       *)
(***************************************************************************)
EXTENDS SubPicLocks

CONSTANTS Stream, Frame, SubFrame, Ahead, Unknown, Times, Texts, NoText,   \* SubPicQueue
          QueueSize, Script, MaxSeeks,                                     \* while seeking
          ClosingScript                                                    \* while closing

VARIABLES part,
          queue, shown, rtNow, rtNowLast, bInvalidate, rtInvalidate, event, bExit, wrapper, content,
          qpc, bWait, held, pos, rtStart, rtCur, pic, rpc, rt, found, bTry,
          upc, pending, seeks, edits

queueVars == <<queue, shown, rtNow, rtNowLast, bInvalidate, rtInvalidate, event, bExit, wrapper, content,
               qpc, bWait, held, pos, rtStart, rtCur, pic, rpc, rt, found, bTry,
               upc, pending, seeks, edits>>
allVars == <<part, vars, queueVars>>

Seeking == INSTANCE SubPicQueue WITH
    Providers <- {Stream}, FirstProvider <- Stream, FirstScript <- [p \in {Stream} |-> Script],
    Scripts <- {Script}, Edits <- {}, Blocking <- TRUE, Failures <- {}, MaxSwaps <- 0, MaxEdits <- 0

Closing == INSTANCE SubPicQueue WITH
    QueueSize <- 1, Providers <- {Stream}, FirstProvider <- NoProvider,
    FirstScript <- [p \in {Stream} |-> ClosingScript], Scripts <- {ClosingScript, <<>>},
    Edits <- {<<ClosingScript, <<>>, 0>>}, Blocking <- TRUE, Failures <- Texts,
    MaxSeeks <- 1, MaxSwaps <- 1, MaxEdits <- 1

(* What the proofs about the seeking part assume.  A step back of less than a *)
(* frame is no seek to SetTime, and nothing is rendered for it.               *)
ASSUME SeekingAssumption ==
    /\ QueueSize \in Nat \ {0} /\ Frame \in Nat \ {0} /\ SubFrame \in Nat /\ SubFrame >= Frame
    /\ (SubFrame * 3) \div 4 > 0 /\ Ahead \in Nat \ {0} /\ Unknown \in Nat /\ MaxSeeks \in Nat
    /\ Times \subseteq Nat /\ \A a, b \in Times \cup {0} : a < b => b - a >= Frame
    /\ Stream # NoProvider /\ NoText \notin Texts /\ Seeking!IsScript(Script)

SubPicInit ==
    /\ part \in {"locks", "seeking", "closing"}
    /\ Init
    /\ IF part = "seeking" THEN Seeking!Init ELSE Closing!Init

SubPicNext ==
    /\ UNCHANGED part
    /\ \/ part = "locks" /\ Next /\ UNCHANGED queueVars
       \/ part = "seeking" /\ Seeking!Next /\ UNCHANGED vars
       \/ part = "closing" /\ Closing!Next /\ UNCHANGED vars

SubPicSteps == SubPicInit /\ [][SubPicNext]_allVars

(* Of the fairness of SubPicQueue, what each part needs.                      *)
SubPicSpec ==
    /\ SubPicSteps
    /\ WF_allVars(part = "seeking" /\ Seeking!ThreadProc /\ UNCHANGED <<part, vars>>)
    /\ WF_allVars(part = "seeking" /\ Seeking!Renderer /\ UNCHANGED <<part, vars>>)
    /\ WF_allVars(part = "closing" /\ Closing!ThreadProc /\ UNCHANGED <<part, vars>>)
    /\ WF_allVars(part = "closing" /\ Closing!CallerContinues /\ UNCHANGED <<part, vars>>)

-----------------------------------------------------------------------------
(* A wake-up of the queue thread is never lost: at rest, every segment of the *)
(* next minute is rendered up to its end (CSubPicQueue::ThreadProc).          *)
RenderedAhead == part = "seeking" => Seeking!RenderedAhead

(* Once the time stays, the renderer shows what the subtitles have for it     *)
(* (CSubPicQueue::LookupSubPic).                                              *)
EventuallyUpToDate == <>[](part # "seeking" \/ bExit \/ rpc = "reuse" \/ Seeking!UpToDate)

(* The destructor of the queue returns (CSubPicQueue::~CSubPicQueue).         *)
DestroyReturns == part = "closing" /\ upc = "exiting" ~> upc = "destroyed"
=============================================================================
