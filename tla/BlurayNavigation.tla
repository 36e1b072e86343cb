---------------------------- MODULE BlurayNavigation ----------------------------
(***************************************************************************)
(* The bridge between a Blu-ray disc's own navigation and the player's     *)
(* graph (BlurayMenu.cpp, MainFrmBluray.cpp, BlurayPlaybackClock.h).  The  *)
(* navigator reads the disc ahead of the picture and names the playlists   *)
(* to play; the player builds a graph for each.  A timer keeps both        *)
(* together: seeks of the user, which reach the navigator late and only    *)
(* the last of them, jumps of the disc, ends and still pictures.           *)
(* Discs without Java programs: the navigator acts only when called.       *)
(***************************************************************************)
EXTENDS Integers

CONSTANTS Lists,        \* playlists
          End,          \* how long each is
          Silent,       \* from here to the end there is no sound
          Still,        \* list -> "no", "timed", "endless": a still at its end
          MaxSeeks,     \* bound: seeks of the user
          MaxKeys       \* bound: keys

(* What the constants have to be.                                             *)
Constants ==
    /\ {End, MaxSeeks, MaxKeys} \subseteq Nat
    /\ Still \in [Lists -> {"no", "timed", "endless"}]

None == -1
Positions == 0 .. End

VARIABLES nav,      \* the navigator: libbluray
          menu,     \* State: waitingGraph, pendingPlaylist, pendingSeek, ...
          clock,    \* BlurayPlaybackClock
          graph,    \* the player's graph
          load,     \* the load state: "loaded", "loading", "gone"
          ui,       \* the thread of the user interface
          user      \* what the user did

vars == <<nav, menu, clock, graph, load, ui, user>>

TypeOK ==
    /\ nav \in [list : Lists, pos : Positions, at : {"title", "still", "over"}]
    /\ menu \in [list : Lists, waiting : BOOLEAN, open : BOOLEAN, jump : Positions \cup {None},
                 armed : Positions \cup {None}, due : BOOLEAN, completed : BOOLEAN, readEnd : BOOLEAN,
                 still : BOOLEAN, until : BOOLEAN, resume : BOOLEAN]
    /\ clock \in [pos : Positions \cup {None}, afterSeek : BOOLEAN, fallback : BOOLEAN]
    /\ graph \in [list : Lists, pos : Positions, early : BOOLEAN, running : BOOLEAN, ended : BOOLEAN]
    /\ load \in {"loaded", "loading", "gone"}
    /\ ui \in [pc : {"idle", "osd", "after", "key"}, pos : Positions]
    /\ user \in [seeks : 0 .. MaxSeeks, keys : 0 .. MaxKeys]

(* The first playlist is playing.                                             *)
ResetClock == [pos |-> None, afterSeek |-> FALSE, fallback |-> FALSE]
SoughtClock(p) == [pos |-> p, afterSeek |-> TRUE, fallback |-> FALSE]

Init ==
    /\ \E l \in Lists :
         /\ nav = [list |-> l, pos |-> 0, at |-> "title"]
         /\ menu = [list |-> l, waiting |-> FALSE, open |-> FALSE, jump |-> None, armed |-> None, due |-> FALSE,
                    completed |-> FALSE, readEnd |-> FALSE, still |-> FALSE, until |-> FALSE, resume |-> FALSE]
         /\ graph = [list |-> l, pos |-> 0, early |-> FALSE, running |-> TRUE, ended |-> FALSE]
    /\ clock = SoughtClock(0) /\ load = "loaded"
    /\ ui = [pc |-> "idle", pos |-> 0]
    /\ user = [seeks |-> 0, keys |-> 0]

-----------------------------------------------------------------------------
(* The graph.  After a seek into the tail some graphs report their end at     *)
(* once, while the picture goes on.                                           *)
Reported == IF graph.early THEN End ELSE graph.pos

Sought(p) == {[graph EXCEPT !.pos = p, !.early = e] : e \in IF p \in Silent THEN BOOLEAN ELSE {FALSE}}

(* Update: the time that has passed since the last one is that of the picture. *)
Updated ==
    LET expected == IF clock.pos = None THEN 0 ELSE graph.pos
        fallback == \/ clock.fallback
                    \/ clock.afterSeek /\ clock.pos # None /\ Reported = End /\ expected < End
    IN [clock EXCEPT !.pos = IF fallback THEN expected ELSE Reported, !.fallback = fallback]

(* Events of the navigator: what State::Event does.                           *)
Playlist(m, l) ==
    [m EXCEPT !.list = l, !.open = TRUE, !.waiting = TRUE, !.armed = None, !.jump = None,
              !.completed = FALSE, !.readEnd = FALSE, !.still = FALSE, !.until = FALSE]

Rewound(m) == [m EXCEPT !.completed = FALSE, !.readEnd = FALSE, !.still = FALSE, !.until = FALSE]

SeekEvent(m, p) == [Rewound(m) EXCEPT !.armed = None, !.jump = p]

(* QueuePlayerSeek, by PlayerSeek.                                            *)
Queued(p) ==
    [Rewound(menu) EXCEPT !.armed = p, !.due = FALSE,
                          !.resume = @ \/ (menu.still /\ menu.completed)]

(* SyncPlayerSeek, whose own SEEK event is no jump.                           *)
Synced == [menu EXCEPT !.armed = None, !.readEnd = FALSE, !.still = FALSE, !.until = FALSE]
NavAt(p) == [nav EXCEPT !.pos = p, !.at = "title"]

(* AttachRenderer and SeekApplied.                                            *)
Attached(m) == [m EXCEPT !.waiting = FALSE, !.armed = None]

-----------------------------------------------------------------------------
(* The timer: CBlurayMenu::Tick, up to the picture it presents.               *)

(* One call of bd_read_ext; the loop ends after any of them, at its deadline. *)
ReadOn ==
    /\ nav.at = "title" /\ nav.pos < End
    /\ nav' = [nav EXCEPT !.pos = @ + 1] /\ clock' = Updated /\ UNCHANGED menu

ReadEnd ==
    /\ nav.at = "title" /\ nav.pos = End /\ clock' = Updated
    /\ \/ /\ Still[nav.list] = "no"
          /\ nav' = [nav EXCEPT !.at = "over"] /\ menu' = [menu EXCEPT !.readEnd = TRUE]
       \/ /\ Still[nav.list] # "no"
          /\ nav' = [nav EXCEPT !.at = "still"] /\ menu' = [menu EXCEPT !.still = TRUE]

NextPlaylist(l) ==
    nav' = [list |-> l, pos |-> 0, at |-> "title"] /\ menu' = Playlist(menu, l) /\ clock' = ResetClock

Read ==
    \/ ReadOn \/ ReadEnd
    \/ nav.at = "over" /\ \E l \in Lists : NextPlaylist(l)

ReadsNow(m, c) ==
    /\ m.armed = None
    /\ ~m.still /\ (m.readEnd => m.completed)
    /\ m.completed \/ nav.pos <= c.pos

(* A still is held until its time is over, an endless one until a key.        *)
StillOver == menu.still /\ menu.completed /\ menu.until /\ Still[nav.list] = "timed"

(* Mutant: the navigator is never told of a seek.                             *)
SyncNow_Never(m) == FALSE

SyncNow(m) == m.armed # None /\ m.due

Tick ==
    /\ ui.pc = "idle" /\ load = "loaded"
    /\ IF menu.waiting
       THEN UNCHANGED <<nav, menu, clock>> /\ ui' = [pc |-> "after", pos |-> Reported]
       ELSE \/ /\ SyncNow(menu)
               /\ menu' = Synced /\ nav' = NavAt(menu.armed) /\ clock' = Updated
               /\ ui' = [pc |-> "osd", pos |-> Updated.pos]
            \/ /\ ~SyncNow(menu) /\ StillOver
               /\ nav' = [nav EXCEPT !.at = "over"] /\ clock' = Updated
               /\ menu' = [menu EXCEPT !.still = FALSE, !.until = FALSE]
               /\ ui' = [pc |-> "osd", pos |-> Updated.pos]
            \/ /\ ~SyncNow(menu) /\ ~StillOver /\ ReadsNow(menu, Updated)
               /\ Read
               /\ ui' = [pc |-> IF menu'.waiting THEN "after" ELSE "osd", pos |-> Updated.pos]
            \/ /\ ~SyncNow(menu) /\ ~StillOver /\ ~ReadsNow(menu, Updated)
               /\ clock' = Updated /\ UNCHANGED <<nav, menu>>
               /\ ui' = [pc |-> "osd", pos |-> Updated.pos]
    /\ UNCHANGED <<graph, load, user>>

-----------------------------------------------------------------------------
(* The rest of the timer, TickBlurayMenu, after the picture was presented:    *)
(* messages may have been dispatched in between, and the position is that     *)
(* from before.                                                               *)

(* NeedsPlaybackPause.  Mutant: only for stills.                              *)
AtEnd_Still == ~menu.completed /\ ui.pos = End /\ menu.still

AtEnd == ~menu.completed /\ ui.pos = End /\ (menu.still \/ menu.readEnd)
Paused == IF AtEnd THEN [graph EXCEPT !.running = FALSE] ELSE graph

Start == IF menu.jump = None THEN 0 ELSE menu.jump
Taken == [menu EXCEPT !.open = FALSE, !.jump = None]

(* Mutant: any graph will do.                                                 *)
Plays_Any(l) == TRUE

Plays(l) == graph.list = l

(* The graph plays this playlist already: it is sought.                       *)
Reuse ==
    /\ menu.open /\ Plays(menu.list)
    /\ graph' \in {[g EXCEPT !.running = TRUE] : g \in Sought(Start)}
    /\ menu' = Attached(Taken) /\ clock' = SoughtClock(Start)
    /\ UNCHANGED load

OpenMedia ==
    /\ menu.open /\ ~Plays(menu.list)
    /\ graph' = [list |-> menu.list, pos |-> Start, early |-> FALSE, running |-> FALSE, ended |-> FALSE]
    /\ menu' = Taken /\ load' = "loading"
    /\ UNCHANGED clock

FollowJump ==
    /\ ~menu.open /\ menu.jump # None
    /\ graph' \in {[g EXCEPT !.running = TRUE] : g \in Sought(menu.jump)}
    /\ menu' = [Taken EXCEPT !.armed = None, !.resume = FALSE, !.completed = @ \/ AtEnd]
    /\ clock' = SoughtClock(menu.jump)
    /\ UNCHANGED load

GoOn ==
    /\ ~menu.open /\ menu.jump = None
    /\ graph' = [Paused EXCEPT !.running = @ \/ menu.resume]
    /\ menu' = [menu EXCEPT !.resume = FALSE, !.completed = @ \/ AtEnd]
    /\ UNCHANGED <<clock, load>>

TickEnds ==
    /\ ui.pc \in {"osd", "after"} /\ load = "loaded"
    /\ Reuse \/ OpenMedia \/ FollowJump \/ GoOn
    /\ ui' = [ui EXCEPT !.pc = "idle"]
    /\ UNCHANGED <<nav, user>>

(* OnFilePostOpenmedia.                                                       *)
Opened ==
    /\ load = "loading" /\ ui.pc = "idle"
    /\ load' = "loaded" /\ menu' = Attached(menu)
    /\ graph' = [graph EXCEPT !.running = TRUE] /\ clock' = SoughtClock(graph.pos)
    /\ UNCHANGED <<nav, ui, user>>

-----------------------------------------------------------------------------
(* Messages, also those dispatched while a picture is presented.              *)
Dispatching == ui.pc \in {"idle", "osd", "key"} /\ load = "loaded"

(* SeekTo.                                                                    *)
Seek(p) ==
    /\ Dispatching /\ user.seeks < MaxSeeks
    /\ user' = [user EXCEPT !.seeks = @ + 1]
    /\ graph' \in Sought(p)
    /\ IF menu.waiting THEN UNCHANGED <<menu, clock>>
       ELSE menu' = Queued(p) /\ clock' = SoughtClock(p)
    /\ UNCHANGED <<nav, load, ui>>

Due ==      \* 150 ms have passed since the last seek
    /\ menu.armed # None /\ ~menu.due
    /\ menu' = [menu EXCEPT !.due = TRUE]
    /\ UNCHANGED <<nav, clock, graph, load, ui, user>>

StillTime ==    \* the time of the still is over
    /\ menu.still /\ menu.completed /\ ~menu.until
    /\ menu' = [menu EXCEPT !.until = TRUE]
    /\ UNCHANGED <<nav, clock, graph, load, ui, user>>

(* A key of the menu: the navigator is brought to the picture first.  It may  *)
(* do nothing, jump, or go to another playlist.                               *)
Key ==
    /\ ui.pc = "idle" /\ load = "loaded" /\ ~menu.waiting /\ user.keys < MaxKeys
    /\ user' = [user EXCEPT !.keys = @ + 1]
    /\ ui' = [ui EXCEPT !.pc = "key"]
    /\ LET m == IF menu.armed = None THEN menu ELSE Synced
           n == IF menu.armed = None THEN nav ELSE NavAt(menu.armed)
       IN \/ menu' = m /\ nav' = n /\ UNCHANGED clock
          \/ \E p \in Positions : menu' = SeekEvent(m, p) /\ nav' = NavAt(p) /\ UNCHANGED clock
          \/ \E l \in Lists : NextPlaylist(l)
    /\ UNCHANGED <<graph, load>>

KeyEnds ==
    /\ ui.pc = "key" /\ ui' = [ui EXCEPT !.pc = "idle"]
    /\ UNCHANGED <<nav, menu, clock, graph, load, user>>

Play ==     \* the user pauses or goes on
    /\ Dispatching /\ graph' = [graph EXCEPT !.running = ~@]
    /\ UNCHANGED <<nav, menu, clock, load, ui, user>>

(* Closed by the user, for an error or because a graph cannot be built.       *)
Close ==
    /\ load # "gone"
    /\ load' = "gone" /\ ui' = [ui EXCEPT !.pc = "idle"]
    /\ UNCHANGED <<nav, menu, clock, graph, user>>

(* Mutant: the end is believed.                                               *)
AcceptEnd_Always == TRUE

AcceptEnd == clock.pos \in {None, End}

(* EC_COMPLETE, which may come late or never.                                 *)
Complete ==
    /\ Dispatching /\ graph.ended
    /\ IF AcceptEnd
       THEN /\ graph' = [graph EXCEPT !.ended = FALSE, !.running = FALSE]
            /\ menu' = [menu EXCEPT !.completed = TRUE] /\ UNCHANGED clock
       ELSE /\ graph' = [graph EXCEPT !.ended = FALSE]
            /\ clock' = [clock EXCEPT !.fallback = TRUE] /\ UNCHANGED menu
    /\ UNCHANGED <<nav, load, ui, user>>

PictureGoesOn ==
    /\ load = "loaded" /\ graph.running /\ graph.pos < End
    /\ graph' = [graph EXCEPT !.pos = @ + 1]
    /\ UNCHANGED <<nav, menu, clock, load, ui, user>>

StreamsEnd ==
    /\ load = "loaded" /\ graph.running /\ Reported = End /\ ~graph.ended
    /\ graph' = [graph EXCEPT !.ended = TRUE]
    /\ UNCHANGED <<nav, menu, clock, load, ui, user>>

Next ==
    \/ Tick \/ TickEnds \/ Opened \/ Key \/ KeyEnds \/ Due \/ StillTime
    \/ Play \/ Close \/ Complete \/ PictureGoesOn \/ StreamsEnd
    \/ \E p \in Positions : Seek(p)

Spec == Init /\ [][Next]_vars

(* The timer ticks, calls return, graphs are built or fail, time passes and a *)
(* running picture goes on.                                                   *)
FairSpec ==
    /\ Spec
    /\ SF_vars(Tick) /\ WF_vars(TickEnds) /\ WF_vars(KeyEnds) /\ WF_vars(Opened)
    /\ WF_vars(Due) /\ WF_vars(StillTime) /\ WF_vars(PictureGoesOn)

-----------------------------------------------------------------------------
(* "instead of advancing disc navigation to the playlist's end while madVR    *)
(* still has video to present" (BlurayPlaybackClock.h:6): the navigator goes  *)
(* on from one playlist to the next by itself only when the picture is at the *)
(* end, however seeks, early and late ends and jumps come together.           *)
Leaves == menu' # menu /\ menu'.open /\ ui.pc = "idle" /\ ui'.pc = "after" /\ ~menu.open
LeftOnlyAtEnd == [][Leaves => graph.pos = End]_vars

(* A playlist that is at its end is left, unless it holds an endless still:   *)
(* whether the end was reported early, late or never.                         *)
Ended(l) ==
    /\ load = "loaded" /\ graph.list = l /\ graph.pos = End /\ ~menu.waiting
    /\ ~(menu.still /\ Still[l] = "endless")
GoesOn == \A l \in Lists : Ended(l) ~> ~Ended(l)

(* Once the user is done, the navigator is not ahead of the picture, which    *)
(* the disc's program would answer keys for, even when the video is paused.   *)
Ahead == load = "loaded" /\ ~menu.waiting /\ nav.pos > graph.pos + 1
NavigatorFollows == []<>~Ahead

(* The graph that plays is the one the navigator is in.                       *)
SameList == load = "loaded" /\ ~menu.waiting => graph.list = nav.list /\ menu.list = nav.list
=============================================================================
