------------------------------ MODULE MCPlayback ------------------------------
(***************************************************************************)
(* Playback on small instances, with fairness:                             *)
(*   splitter    one pin with a queue of one packet, a seek, a stop and a  *)
(*               filter downstream that may fail;                          *)
(*   pins        two pins with queues of up to three, four packets each;   *)
(*   graph       three openings, aborted, closed and failing anywhere;     *)
(*   graphics    a Java program that draws two pictures on each of two     *)
(*               planes across a change of the playlist;                   *)
(*   monitor     two openings of a drive whose medium changes twice;       *)
(*   navigation  two playlists, the second with a timed still at its end,  *)
(*               with two seeks;                                           *)
(*   keys        the same in one step each, with a seek and a key;         *)
(*   settings    one player that may be started with /reset.               *)
(***************************************************************************)
EXTENDS Playback

OneStill == [l \in Lists |-> IF l = 1 THEN "no" ELSE "timed"]

(* The fairness of each component.  The part never changes, so that the       *)
(* fairness of one action of every part is that of their disjunction, and TLC *)
(* has a few conditions to look at instead of thirty.                         *)
Weak1 ==
    \/ part = "splitter" /\ Splitter!AppStep /\ InSplitter
    \/ part = "pins" /\ TwoPins!AppStep /\ InSplitter
    \/ part = "graph" /\ Window /\ InGraph
    \/ part = "graphics" /\ Graphics!UI /\ InGraphics
    \/ part = "monitor" /\ Monitor!Worker(1) /\ InMonitor
    \/ part = "navigation" /\ Navigation!TickEnds /\ InNavigation
Weak2 ==
    \/ part = "splitter" /\ Splitter!FilterThread /\ InSplitter
    \/ part = "pins" /\ TwoPins!FilterThread /\ InSplitter
    \/ part = "graph" /\ GraphThread /\ InGraph
    \/ part = "graphics" /\ Graphics!AttachRenderer /\ InGraphics
    \/ part = "monitor" /\ Monitor!Worker(2) /\ InMonitor
    \/ part = "navigation" /\ Navigation!Opened /\ InNavigation
Weak3 ==
    \/ part = "splitter" /\ Splitter!PinThread(1) /\ InSplitter
    \/ part = "pins" /\ TwoPins!PinThread(1) /\ InSplitter
    \/ part = "graphics" /\ Graphics!Upload /\ InGraphics
    \/ part = "navigation" /\ Navigation!Due /\ InNavigation
Weak4 ==
    \/ part = "splitter" /\ (Splitter!Accept(1) \/ Splitter!Refuse(1)) /\ InSplitter
    \/ part = "pins" /\ TwoPins!PinThread(2) /\ InSplitter
    \/ part = "graphics" /\ Graphics!RedrawDue /\ InGraphics
    \/ part = "navigation" /\ Navigation!StillTime /\ InNavigation
Weak5 ==
    \/ part = "pins" /\ TwoPins!Accept(1) /\ InSplitter
    \/ part = "graphics" /\ Graphics!Playback /\ InGraphics
    \/ part = "navigation" /\ Navigation!PictureGoesOn /\ InNavigation
Weak6 == part = "pins" /\ TwoPins!Accept(2) /\ InSplitter
Strong1 ==
    \/ part = "graph" /\ PostOpen /\ InGraph
    \/ part = "graphics" /\ Graphics!Tick /\ InGraphics
    \/ part = "navigation" /\ Navigation!Tick /\ InNavigation
Strong2 == part = "graph" /\ OpenFailed /\ InGraph

PlaybackSpec ==
    /\ PlaybackSteps
    /\ WF_allVars(Weak1) /\ WF_allVars(Weak2) /\ WF_allVars(Weak3)
    /\ WF_allVars(Weak4) /\ WF_allVars(Weak5) /\ WF_allVars(Weak6)
    /\ SF_allVars(Strong1) /\ SF_allVars(Strong2)

-----------------------------------------------------------------------------
(* A leads-to P ~> ~P of a component is stated here as []<>~P, which is the   *)
(* same and cheaper to check for all parts at once, and []<> of a conjunction *)
(* implies each of them.                                                      *)

(* A seek and a stop of the splitter return (SetPositionsInternal, Stop).     *)
Returns == []<>(part # "splitter" \/ app.pc = "idle")

(* A segment ends with the end of the stream on every pin, whose queue is     *)
(* never full for ever (QueuePacket, DeliverPacket).                          *)
StreamEnds ==
    []<>(/\ part = "splitter" => Splitter!Ended(1)
         /\ part = "pins" => TwoPins!Ended(1) /\ TwoPins!Ended(2))

(* A close and an opening of media have an end (CMainFrame::CloseMedia's      *)
(* waits, OpenMediaPrivate).                                                  *)
OpeningsEnd == []<>(part = "graph" => ui.pc \notin {"abort", "wait"} /\ load # "LOADING")

(* The screen ends up with the program's last picture (State::Present).       *)
LastPictureShown ==
    <>[](part # "graphics" \/ presenter.pc = "gone" \/ osd = "loading" \/ rend.screen = java.last)

(* A medium that stays away or replaced is noticed (BlurayMediaMonitor's      *)
(* worker).                                                                   *)
LossNoticed ==
    []<>(part = "monitor" =>
           \A d \in {1, 2} : mData = d => data[d].loss # "Present" \/ drive = data[d].initial)

(* A playlist that is at its end is left, unless it holds an endless still    *)
(* (CBlurayMenu::NeedsPlaybackPause, GraphComplete).                          *)
GoesOn == []<>(part = "navigation" => \A l \in Lists : ~Navigation!Ended(l))

(* The navigator does not stay ahead of the picture (SyncPlayerSeek, Pump).   *)
NavigatorFollows == []<>(part = "navigation" => ~Navigation!Ahead)
=============================================================================
