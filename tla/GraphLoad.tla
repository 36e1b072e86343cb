------------------------------- MODULE GraphLoad -------------------------------
(***************************************************************************)
(* Opening and closing media (MainFrm.cpp, GraphThread.cpp): the window's  *)
(* thread runs the load state, a graph thread builds and destroys the      *)
(* graph for it.  They tell each other by posted messages, two events and  *)
(* three flags.  While it waits for the graph thread the window goes on    *)
(* dispatching messages, so that what was posted to it may come too late.  *)
(***************************************************************************)
EXTENDS Naturals, Sequences, SequencesExt

CONSTANT MaxOpens       \* bound: openings

(* What the constant has to be.                                               *)
Constants == MaxOpens \in Nat

VARIABLES load,     \* m_eMediaLoadState
          active,   \* m_bOpenMediaActive
          aborted,  \* m_fOpeningAborted
          threaded, \* m_bOpenedThroughThread
          gb,       \* m_pGB: the opening whose graph it is, 0 for none
          evOpen, evClose,  \* m_evOpenPrivateFinished, m_evClosePrivateFinished
          ui,       \* the window's thread
          uq,       \* the messages posted to it
          gt,       \* the graph thread
          gq,       \* the messages posted to it
          opens     \* openings so far

vars == <<load, active, aborted, threaded, gb, evOpen, evClose, ui, uq, gt, gq, opens>>

Waiting == {"abort", "wait"}
UiPCs == {"idle", "open", "load", "posted", "build", "closing", "private", "closed", "exiting", "exited", "killed"} \cup Waiting
Posted == {"postopen", "openfailed"} \X (1 .. MaxOpens)

TypeOK ==
    /\ load \in {"CLOSED", "LOADING", "LOADED", "FAILING", "ABORTING", "CLOSING"}
    /\ active \in BOOLEAN /\ aborted \in BOOLEAN /\ threaded \in BOOLEAN
    /\ evOpen \in BOOLEAN /\ evClose \in BOOLEAN
    /\ gb \in 0 .. MaxOpens /\ opens \in 0 .. MaxOpens
    /\ ui \in [pc : UiPCs, then : {"idle", "open", "load", "exiting"}, terminated : BOOLEAN, exit : BOOLEAN]
    /\ uq \in Seq(Posted)
    /\ gt \in [pc : {"idle", "create", "work", "done", "failed", "opened", "close", "closed"}, item : 0 .. MaxOpens]
    /\ gq \in Seq({"open", "close"} \X (1 .. MaxOpens))

Init ==
    /\ load = "CLOSED" /\ active = FALSE /\ aborted = FALSE /\ threaded = FALSE
    /\ gb = 0 /\ opens = 0
    /\ evOpen = TRUE /\ evClose = TRUE
    /\ ui = [pc |-> "idle", then |-> "idle", terminated |-> FALSE, exit |-> FALSE]
    /\ uq = <<>> /\ gq = <<>>
    /\ gt = [pc |-> "idle", item |-> 0]

UiGoes(l) == ui' = [ui EXCEPT !.pc = l]
GtGoes(l) == gt' = [gt EXCEPT !.pc = l]
graph == <<gb, evOpen, evClose, uq, gt, gq>>

-----------------------------------------------------------------------------
(* CloseMedia, and what its caller does then.                                 *)

(* An opening that does not run in the graph thread cannot be aborted: then,  *)
(* as after a timeout, the process ends.                                      *)
CloseMedia(then) ==
    /\ load \notin {"CLOSED", "ABORTING", "CLOSING"}
    /\ IF load = "LOADING"
       THEN /\ aborted' = TRUE /\ load' = "ABORTING"
            /\ ui' = [ui EXCEPT !.pc = IF threaded THEN "abort" ELSE "killed", !.then = then]
       ELSE ui' = [ui EXCEPT !.pc = "closing", !.then = then] /\ UNCHANGED <<load, aborted>>

(* The message of an opening that ended meanwhile is taken and ignored.       *)
DropPosted ==
    /\ ui.pc = "abort" /\ uq # <<>>
    /\ uq' = Tail(uq)
    /\ UNCHANGED <<load, active, aborted, threaded, gb, evOpen, evClose, ui, gt, gq, opens>>

(* At most one message of each kind is purged.                                *)
Purged(q) == LET r == RemoveFirstMatch(q, LAMBDA m : m[1] = "postopen")
             IN RemoveFirstMatch(r, LAMBDA m : m[1] = "openfailed")

(* Mutant: a message that is still queued is left there.                      *)
Aborted_NoPurge ==
    /\ ui.pc = "abort" /\ evOpen
    /\ evOpen' = FALSE /\ aborted' = FALSE
    /\ ui' = [ui EXCEPT !.pc = "closing", !.terminated = TRUE]
    /\ UNCHANGED <<load, active, threaded, gb, evClose, uq, gt, gq, opens>>

(* Mutant: the window does not wait for the end of the opening.               *)
Aborted_NoWait ==
    /\ ui.pc = "abort"
    /\ evOpen' = FALSE /\ aborted' = FALSE
    /\ uq' = Purged(uq)
    /\ ui' = [ui EXCEPT !.pc = "closing", !.terminated = TRUE]
    /\ UNCHANGED <<load, active, threaded, gb, evClose, gt, gq, opens>>

Aborted ==
    /\ ui.pc = "abort" /\ evOpen
    /\ evOpen' = FALSE /\ aborted' = FALSE
    /\ uq' = Purged(uq)
    /\ ui' = [ui EXCEPT !.pc = "closing", !.terminated = TRUE]
    /\ UNCHANGED <<load, active, threaded, gb, evClose, gt, gq, opens>>

(* After an abort the window destroys the graph itself.                       *)
Closing ==
    /\ ui.pc = "closing"
    /\ load' = "CLOSING"
    /\ IF threaded /\ ~ui.terminated
       THEN /\ evClose' = FALSE /\ gq' = Append(gq, <<"close", opens>>)
            /\ UiGoes("wait")
       ELSE UiGoes("private") /\ UNCHANGED <<evClose, gq>>
    /\ UNCHANGED <<active, aborted, threaded, gb, evOpen, uq, gt, opens>>

CloseMediaPrivate ==
    /\ ui.pc = "private"
    /\ gb' = 0
    /\ UiGoes("closed")
    /\ UNCHANGED <<load, active, aborted, threaded, evOpen, evClose, uq, gt, gq, opens>>

ClosedByThread ==
    /\ ui.pc = "wait" /\ evClose
    /\ evClose' = FALSE
    /\ UiGoes("closed")
    /\ UNCHANGED <<load, active, aborted, threaded, gb, evOpen, uq, gt, gq, opens>>

(* A wait that lasts too long, or a WM_CLOSE when other media is to follow.   *)
Kill ==
    /\ ui.pc \in Waiting
    /\ UiGoes("killed")
    /\ UNCHANGED <<load, active, aborted, threaded, opens, graph>>

OnFilePostClosemedia ==
    /\ ui.pc = "closed"
    /\ load' = "CLOSED"
    /\ ui' = [ui EXCEPT !.pc = ui.then, !.then = "idle", !.terminated = FALSE]
    /\ UNCHANGED <<active, aborted, threaded, opens, graph>>

-----------------------------------------------------------------------------
(* OpenMedia.                                                                 *)

(* The user opens media: from a file, or from the playlist, which closes      *)
(* first (OnDoOpenCurPlaylist).                                               *)
UserOpens ==
    /\ ui.pc = "idle" /\ ~ui.exit /\ opens < MaxOpens
    /\ \/ UiGoes("open") /\ UNCHANGED <<load, aborted>>
       \/ CloseMedia("open")
    /\ UNCHANGED <<active, threaded, opens, graph>>

(* "skipping because there already is an active OpenMedia call"               *)
OpenMedia ==
    /\ ui.pc = "open"
    /\ IF active \/ opens = MaxOpens
       THEN UiGoes("idle") /\ UNCHANGED <<load, active, aborted, opens>>
       ELSE /\ active' = TRUE /\ opens' = opens + 1
            /\ \/ load = "CLOSED" /\ UiGoes("load") /\ UNCHANGED <<load, aborted>>
               \/ CloseMedia("load")
    /\ UNCHANGED <<threaded, graph>>

(* The drive of the file may be missing.                                      *)
NoDrive ==
    /\ ui.pc = "load"
    /\ active' = FALSE
    /\ UiGoes("idle")
    /\ UNCHANGED <<load, aborted, threaded, opens, graph>>

(* The graph thread is used for some media types only.                        *)
Load ==
    /\ ui.pc = "load"
    /\ load' = "LOADING"
    /\ \/ /\ evOpen' = FALSE /\ gq' = Append(gq, <<"open", opens>>)
          /\ UiGoes("posted") /\ UNCHANGED threaded
       \/ threaded' = FALSE /\ UiGoes("build") /\ UNCHANGED <<evOpen, gq>>
    /\ UNCHANGED <<active, aborted, gb, evClose, uq, gt, opens>>

(* The graph thread may be at work already.                                   *)
OpenedThroughThread ==
    /\ ui.pc = "posted"
    /\ threaded' = TRUE
    /\ UiGoes("idle")
    /\ UNCHANGED <<load, active, aborted, opens, graph>>

(* OnFilePostOpenmedia.                                                       *)
Loaded == load' = "LOADED" /\ active' = FALSE /\ UNCHANGED aborted

(* OnOpenMediaFailed: other media of the playlist may follow, or the same     *)
(* entry once more, without closing first.                                    *)
Failed ==
    /\ active' = FALSE /\ load' = "FAILING" /\ UNCHANGED aborted
    /\ \/ ui' = [ui EXCEPT !.pc = "closing", !.then = "idle"]
       \/ ui' = [ui EXCEPT !.pc = "closing", !.then = "open"]
       \/ UiGoes("open")

(* OpenMediaPrivate in the window's thread.  What it dispatches may close     *)
(* the media, which ends the process.                                         *)
Build ==
    /\ ui.pc = "build"
    /\ \/ gb' = opens /\ Loaded /\ UiGoes("idle")
       \/ gb' \in {0, opens} /\ Failed
       \/ UNCHANGED gb /\ CloseMedia("idle") /\ UNCHANGED active
    /\ UNCHANGED <<threaded, evOpen, evClose, uq, gt, gq, opens>>

(* WM_POSTOPEN and WM_OPENFAILED.                                             *)
PostOpen ==
    /\ ui.pc = "idle" /\ uq # <<>> /\ Head(uq)[1] = "postopen"
    /\ uq' = Tail(uq)
    /\ IF gb # 0 /\ load = "LOADING" THEN Loaded ELSE UNCHANGED <<load, active, aborted>>
    /\ UNCHANGED <<threaded, gb, evOpen, evClose, ui, gt, gq, opens>>

OpenFailed ==
    /\ ui.pc = "idle" /\ uq # <<>> /\ Head(uq)[1] = "openfailed"
    /\ uq' = Tail(uq)
    /\ Failed
    /\ UNCHANGED <<threaded, gb, evOpen, evClose, gt, gq, opens>>

UserCloses ==
    /\ ui.pc = "idle" /\ ~ui.exit
    /\ CloseMedia("idle")
    /\ UNCHANGED <<active, threaded, opens, graph>>

(* OnClose of the window.                                                     *)
OnClose ==
    /\ ui.pc = "idle" /\ ~ui.exit
    /\ IF load = "LOADING"
       THEN /\ aborted' = TRUE /\ load' = "ABORTING"
            /\ ui' = [ui EXCEPT !.pc = "abort", !.then = "exiting", !.exit = TRUE]
       ELSE /\ ui' = [ui EXCEPT !.pc = IF load = "LOADED" THEN "closing" ELSE "exiting",
                                !.then = "exiting", !.exit = TRUE]
            /\ UNCHANGED <<load, aborted>>
    /\ UNCHANGED <<active, threaded, opens, graph>>

Exit ==
    /\ ui.pc = "exiting"
    /\ UiGoes(IF load = "CLOSED" THEN "exited" ELSE "killed")
    /\ uq' = <<>>
    /\ UNCHANGED <<load, active, aborted, threaded, gb, evOpen, evClose, gt, gq, opens>>

Window ==
    \/ DropPosted \/ Aborted \/ Closing \/ CloseMediaPrivate \/ ClosedByThread \/ OnFilePostClosemedia
    \/ OpenMedia \/ NoDrive \/ Load \/ OpenedThroughThread \/ Build \/ PostOpen \/ OpenFailed \/ Exit

-----------------------------------------------------------------------------
(* The graph thread.                                                          *)
Alive == ui.pc \notin {"killed", "exited"}

(* OnOpen and OnClose: a request that is out of date is only answered.        *)
TakeRequest ==
    /\ Alive /\ gt.pc = "idle" /\ gq # <<>>
    /\ gq' = Tail(gq)
    /\ gt' = [item |-> Head(gq)[2],
              pc |-> IF Head(gq)[1] = "open"
                     THEN IF load = "LOADING" THEN "create" ELSE "opened"
                     ELSE IF load = "CLOSING" THEN "close" ELSE "closed"]
    /\ UNCHANGED <<load, active, aborted, threaded, gb, evOpen, evClose, ui, uq, opens>>

(* OpenMediaPrivate: it does not start when there is a graph ...              *)
Create ==
    /\ Alive /\ gt.pc = "create"
    /\ IF gb # 0 \/ load # "LOADING" \/ ui.exit
       THEN active' = FALSE /\ GtGoes("opened") /\ UNCHANGED gb
       ELSE gb' = gt.item /\ GtGoes("work") /\ UNCHANGED active
    /\ UNCHANGED <<load, aborted, threaded, evOpen, evClose, ui, uq, gq, opens>>

(* ... and is aborted where it calls checkAborted, or fails.                  *)
Work ==
    /\ Alive /\ gt.pc = "work"
    /\ \/ aborted /\ GtGoes("failed")
       \/ ~aborted /\ GtGoes("done")
       \/ GtGoes("failed")
    /\ UNCHANGED <<load, active, aborted, threaded, gb, evOpen, evClose, ui, uq, gq, opens>>

(* The result is posted: building a graph takes longer than the window's next *)
(* statement, which sets m_bOpenedThroughThread.                              *)
Done ==
    /\ Alive /\ gt.pc = "done" /\ threaded
    /\ uq' = Append(uq, <<"postopen", gt.item>>)
    /\ GtGoes("opened")
    /\ UNCHANGED <<load, active, aborted, threaded, gb, evOpen, evClose, ui, gq, opens>>

(* Mutant: nobody is told of a failure.                                       *)
Fail_Silent ==
    /\ Alive /\ gt.pc = "failed"
    /\ active' = FALSE
    /\ GtGoes("opened")
    /\ UNCHANGED <<load, aborted, threaded, gb, evOpen, evClose, ui, uq, gq, opens>>

Fail ==
    /\ Alive /\ gt.pc = "failed"
    /\ IF aborted THEN active' = FALSE /\ UNCHANGED uq
       ELSE threaded /\ uq' = Append(uq, <<"openfailed", gt.item>>) /\ UNCHANGED active
    /\ GtGoes("opened")
    /\ UNCHANGED <<load, aborted, threaded, gb, evOpen, evClose, ui, gq, opens>>

Opened ==
    /\ Alive /\ gt.pc = "opened"
    /\ evOpen' = TRUE
    /\ GtGoes("idle")
    /\ UNCHANGED <<load, active, aborted, threaded, gb, evClose, ui, uq, gq, opens>>

(* Mutant: the graph is not destroyed.                                        *)
Close_Keep ==
    /\ Alive /\ gt.pc = "close"
    /\ GtGoes("closed")
    /\ UNCHANGED <<load, active, aborted, threaded, gb, evOpen, evClose, ui, uq, gq, opens>>

Close ==
    /\ Alive /\ gt.pc = "close"
    /\ gb' = 0
    /\ GtGoes("closed")
    /\ UNCHANGED <<load, active, aborted, threaded, evOpen, evClose, ui, uq, gq, opens>>

(* Mutant: the answer is forgotten.                                           *)
Closed_NoSet ==
    /\ Alive /\ gt.pc = "closed"
    /\ GtGoes("idle")
    /\ UNCHANGED <<load, active, aborted, threaded, gb, evOpen, evClose, ui, uq, gq, opens>>

Closed ==
    /\ Alive /\ gt.pc = "closed"
    /\ evClose' = TRUE
    /\ GtGoes("idle")
    /\ UNCHANGED <<load, active, aborted, threaded, gb, evOpen, ui, uq, gq, opens>>

GraphThread == TakeRequest \/ Create \/ Work \/ Done \/ Fail \/ Opened \/ Close \/ Closed

Next == Window \/ GraphThread \/ Kill \/ UserOpens \/ UserCloses \/ OnClose

(* The threads run, and the window takes its messages in turn.                *)
Fairness ==
    WF_vars(Window) /\ WF_vars(GraphThread) /\ SF_vars(PostOpen) /\ SF_vars(OpenFailed)

Spec == Init /\ [][Next]_vars
FairSpec == Spec /\ Fairness

-----------------------------------------------------------------------------
(* Properties.                                                                *)

(* The window and the graph thread never build or destroy a graph at once,    *)
(* though the window does it itself after an abort.                           *)
OneAtTheGraph ==
    ui.pc \in {"build", "private"} => gt.pc \in {"idle", "opened"} /\ gq = <<>>

(* An older graph is there only while it is closed for the next opening, none *)
(* is left behind a close, and one that is loaded is complete.                *)
GraphIsCurrent ==
    /\ gb \in {0, opens} \/ ui.then = "load" \/ ui.pc = "killed"
    /\ load = "CLOSED" => gb = 0
    /\ load = "LOADED" => gb # 0 /\ gt.pc \in {"idle", "opened"}

(* A message that says an opening ended is about the one under way: it never  *)
(* makes other media look loaded or failed.                                   *)
PostIsCurrent ==
    \A i \in 1 .. Len(uq) : load \in {"LOADING", "ABORTING"} /\ uq[i][2] = opens

(* A close is over some time, and an opening has an end.                      *)
GraphSettles ==
    /\ ui.pc \in Waiting ~> ui.pc \notin Waiting
    /\ load = "LOADING" ~> load # "LOADING"

(* "ASSERT(!m_bOpenMediaActive)" when the window closes (MainFrm.cpp:1350).   *)
NoneActive == ui.pc = "exiting" => ~active
=============================================================================
