----------------------------- MODULE BlurayGraphics -----------------------------
(***************************************************************************)
(* The graphics of a Blu-ray disc with Java programs: they draw into a     *)
(* protected buffer from their own thread (BlurayArgbBuffer.h), and the    *)
(* user interface takes what they published on a timer and gives it to the *)
(* video renderer (BlurayMenu.cpp), which uploads and draws it on its own. *)
(* A renderer comes with each playlist; it may dispatch window messages    *)
(* while it is given a picture, which may close the disc in the call.      *)
(***************************************************************************)
EXTENDS Integers

CONSTANTS LastPlane,    \* planes.size() - 1; plane 0 is never shown
          MaxPictures,  \* bound: windows and pictures of a program
          MaxSwitches   \* bound: changes of the playlist

(* What the constants have to be.                                             *)
Constants == LastPlane \in Nat \ {0} /\ MaxPictures \in Nat /\ MaxSwitches \in Nat

VARIABLES java,      \* the program: what it does and to which plane
          buffer,    \* BlurayArgbBuffer::planes
          plane,     \* State::planes
          ui,        \* the thread of the user interface
          osd,       \* the renderer: "none", "loading", "attached"
          redraw,    \* redrawsPending, and whether redrawAfter is over
          time,      \* playback time, and the one the menu last saw (pts)
          rend       \* what the renderer has: bitmaps, texture, screen

vars == <<java, buffer, plane, ui, osd, redraw, time, rend>>

Planes == 1 .. LastPlane

(* A picture is drawn in two parts; a new window is empty, <<0, 0>>.          *)
Closed == <<>>
Pictures == {Closed} \cup ((0 .. MaxPictures) \X (0 .. MaxPictures))
Times == {0, 1}             \* a picture is for now or for a later time
NoTime == -1
Frame == [picture : Pictures, pts : Times \cup {NoTime}]

TypeOK ==
    /\ java \in [pc : {"idle", "half", "drawn"}, at : Planes, drawn : 0 .. MaxPictures, last : [Planes -> Pictures]]
    /\ buffer \in [Planes -> [drawing : Pictures, published : Frame, ready : BOOLEAN]]
    /\ plane \in [Planes -> [frame : Frame, dirty : BOOLEAN]]
    /\ ui \in [pc : {"idle", "take", "pump", "present", "osd", "redraw", "gone"}, at : Planes,
               set : BOOLEAN, switches : 0 .. MaxSwitches]
    /\ osd \in {"none", "loading", "attached"}
    /\ redraw \in [pending : 0 .. 3, due : BOOLEAN]
    /\ time \in [now : Times, pts : Times \cup {NoTime}]
    /\ rend \in [bitmap : [Planes -> Pictures], texture : [Planes -> Pictures], screen : [Planes -> Pictures]]

NoFrame == [picture |-> Closed, pts |-> NoTime]
Blank == [p \in Planes |-> Closed]
NewRenderer == [bitmap |-> Blank, texture |-> Blank, screen |-> Blank]

Init ==
    /\ java = [pc |-> "idle", at |-> 1, drawn |-> 0, last |-> Blank]
    /\ buffer = [p \in Planes |-> [drawing |-> Closed, published |-> NoFrame, ready |-> FALSE]]
    /\ plane = [p \in Planes |-> [frame |-> NoFrame, dirty |-> FALSE]]
    /\ ui = [pc |-> "idle", at |-> 1, set |-> FALSE, switches |-> 0]
    /\ osd = "attached" /\ redraw = [pending |-> 0, due |-> TRUE]
    /\ time = [now |-> 0, pts |-> NoTime]
    /\ rend = NewRenderer

-----------------------------------------------------------------------------
(* The Java program: Apply, each command under the mutex of the buffer.  Its  *)
(* calls are right, so that "failed" stays FALSE.  java.last is the picture   *)
(* the program wants to be seen.                                              *)

Want(p, picture) == [java EXCEPT !.last[p] = picture]

(* INIT, and CLOSE.  Both throw away what was not taken yet.                  *)
Window(p, picture) ==
    /\ java.pc = "idle" /\ java.drawn < MaxPictures /\ buffer[p].drawing # picture
    /\ buffer' = [buffer EXCEPT ![p] = [drawing |-> picture, ready |-> TRUE,
                      published |-> [picture |-> picture, pts |-> NoTime]]]
    /\ java' = [Want(p, picture) EXCEPT !.drawn = @ + 1]

(* Mutant: the published picture and the one being drawn are the same memory. *)
Draw_Shared(p, half, n) ==
    buffer' = [buffer EXCEPT ![p].drawing[half] = n,
                   ![p].published.picture = [buffer[p].drawing EXCEPT ![half] = n]]

Draw(p, half, n) == buffer' = [buffer EXCEPT ![p].drawing[half] = n]

DrawFirst(p) ==
    /\ java.pc = "idle" /\ java.drawn < MaxPictures /\ buffer[p].drawing # Closed
    /\ Draw(p, 1, java.drawn + 1)
    /\ java' = [java EXCEPT !.pc = "half", !.at = p, !.drawn = @ + 1]

DrawSecond ==
    /\ java.pc = "half"
    /\ Draw(java.at, 2, java.drawn)
    /\ java' = [java EXCEPT !.pc = "drawn"]

Flush(pts) ==
    /\ java.pc = "drawn"
    /\ buffer' = [buffer EXCEPT ![java.at].ready = TRUE,
                      ![java.at].published = [picture |-> buffer[java.at].drawing, pts |-> pts]]
    /\ java' = [Want(java.at, buffer[java.at].drawing) EXCEPT !.pc = "idle"]

Java ==
    /\ \/ \E p \in Planes : Window(p, <<0, 0>>) \/ Window(p, Closed) \/ DrawFirst(p)
       \/ DrawSecond
       \/ \E pts \in {NoTime, 1} : Flush(pts)
    /\ UNCHANGED <<plane, ui, osd, redraw, time, rend>>

-----------------------------------------------------------------------------
(* The user interface.  A timer ticks unless a graph is being built or a      *)
(* picture is being presented.                                                *)
UiGoes(l, p) == ui' = [ui EXCEPT !.pc = l, !.at = p]

Tick ==
    /\ ui.pc = "idle" /\ osd # "loading"
    /\ UiGoes("take", 1)
    /\ UNCHANGED <<java, buffer, plane, osd, redraw, time, rend>>

(* Mutant: a frame is taken again, its picture moved out of it.               *)
Taken_Again(p) == [buffer EXCEPT ![p].published.picture = Closed]

Taken(p) == [buffer EXCEPT ![p].published.picture = Closed, ![p].ready = FALSE]

(* ConsumeArgb.                                                               *)
Take ==
    /\ ui.pc = "take"
    /\ LET p == ui.at IN
       IF buffer[p].ready
       THEN /\ plane' = [plane EXCEPT ![p] = [frame |-> buffer[p].published, dirty |-> TRUE]]
            /\ buffer' = Taken(p)
       ELSE UNCHANGED <<plane, buffer>>
    /\ IF ui.at = LastPlane THEN UiGoes("pump", 1) ELSE UiGoes("take", ui.at + 1)
    /\ UNCHANGED <<java, osd, redraw, time, rend>>

(* Pump: the navigator reads on, which may start another playlist: then the   *)
(* renderer is detached and a graph is built.                                 *)
Detach == osd' = "loading" /\ rend' = NewRenderer /\ redraw' = [redraw EXCEPT !.pending = 0]

Pump ==
    /\ ui.pc = "pump" /\ osd = "attached"
    /\ \/ /\ time' = [time EXCEPT !.pts = time.now]
          /\ ui' = [ui EXCEPT !.pc = "present", !.set = FALSE]
          /\ UNCHANGED <<osd, rend, redraw>>
       \/ /\ ui.switches < MaxSwitches
          /\ Detach
          /\ ui' = [ui EXCEPT !.pc = "idle", !.switches = @ + 1]
          /\ time' = [time EXCEPT !.now = 0]
    /\ UNCHANGED <<java, buffer, plane>>

(* Mutant: the new renderer is not given what is shown.                       *)
Attached_Clean == plane

Attached == [p \in Planes |-> [plane[p] EXCEPT !.dirty = TRUE]]

(* OnFilePostOpenmedia: AttachRenderer, which presents at once.               *)
AttachRenderer ==
    /\ osd = "loading" /\ ui.pc = "idle"
    /\ osd' = "attached" /\ plane' = Attached
    /\ ui' = [ui EXCEPT !.pc = "present", !.at = 1, !.set = FALSE]
    /\ UNCHANGED <<java, buffer, redraw, time, rend>>

(* Present: each plane that changed and whose time has come.                  *)
Early(p) == plane[p].frame.pts >= 0 /\ time.pts >= 0 /\ plane[p].frame.pts > time.pts

NextPlane == IF ui.at = LastPlane THEN UiGoes("redraw", 1) ELSE UiGoes("present", ui.at + 1)

PresentPlane ==
    /\ ui.pc = "present"
    /\ IF plane[ui.at].dirty /\ ~Early(ui.at) THEN UiGoes("osd", ui.at) ELSE NextPlane
    /\ UNCHANGED <<java, buffer, plane, osd, redraw, time, rend>>

(* OsdSetBitmap returns.                                                      *)
BitmapSet ==
    /\ ui.pc = "osd"
    /\ rend' = [rend EXCEPT !.bitmap[ui.at] = plane[ui.at].frame.picture]
    /\ plane' = [plane EXCEPT ![ui.at].dirty = FALSE]
    /\ ui' = [ui EXCEPT !.set = TRUE,
                        !.pc = IF ui.at = LastPlane THEN "redraw" ELSE "present",
                        !.at = IF ui.at = LastPlane THEN 1 ELSE ui.at + 1]
    /\ UNCHANGED <<java, buffer, osd, redraw, time>>

(* The media are closed, by a message dispatched in the call too: the menu is *)
(* destroyed under its Present, and nothing is said of what follows.          *)
CloseMedia ==
    /\ ui.pc \in {"idle", "osd"}
    /\ UiGoes("gone", 1) /\ osd' = "none" /\ rend' = NewRenderer
    /\ UNCHANGED <<java, buffer, plane, redraw, time>>

(* Mutant: one redraw, as if the bitmap were uploaded by then.                *)
Redraws_One == 1

Redraws == 3

(* The end of Present: redrawsPending, redrawAfter.                           *)
Redraw ==
    /\ ui.pc = "redraw"
    /\ LET r == IF ui.set THEN [pending |-> Redraws, due |-> TRUE] ELSE redraw IN
       IF r.pending > 0 /\ r.due
       THEN /\ redraw' = [pending |-> r.pending - 1, due |-> FALSE]
            /\ rend' = [rend EXCEPT !.screen = rend.texture]
       ELSE redraw' = r /\ UNCHANGED rend
    /\ UiGoes("idle", 1)
    /\ UNCHANGED <<java, buffer, plane, osd, time>>

(* A key of the menu, or the mouse: the navigator takes it, then Present.     *)
Key ==
    /\ ui.pc = "idle" /\ osd = "attached"
    /\ ui' = [ui EXCEPT !.pc = "present", !.set = FALSE]
    /\ UNCHANGED <<java, buffer, plane, osd, redraw, time, rend>>

UI == Tick \/ Take \/ Pump \/ PresentPlane \/ BitmapSet \/ Redraw

-----------------------------------------------------------------------------
(* The renderer uploads the bitmaps, and is done before 50 ms have passed     *)
(* twice.                                                                     *)
Upload ==
    /\ osd = "attached" /\ rend.texture # rend.bitmap
    /\ rend' = [rend EXCEPT !.texture = rend.bitmap]
    /\ UNCHANGED <<java, buffer, plane, ui, osd, redraw, time>>

RedrawDue ==
    /\ ~redraw.due /\ (redraw.pending = 1 => rend.texture = rend.bitmap)
    /\ redraw' = [redraw EXCEPT !.due = TRUE]
    /\ UNCHANGED <<java, buffer, plane, ui, osd, time, rend>>

Playback ==
    /\ osd = "attached" /\ time.now = 0
    /\ time' = [time EXCEPT !.now = 1]
    /\ UNCHANGED <<java, buffer, plane, ui, osd, redraw, rend>>

Next == Java \/ UI \/ AttachRenderer \/ Key \/ CloseMedia \/ Upload \/ RedrawDue \/ Playback

Spec == Init /\ [][Next]_vars

(* The timer ticks, also between keys, which are slower; the graph is built,  *)
(* the renderer uploads and time passes.                                      *)
(* A program need not go on, nor does the playlist have to change.            *)
FairSpec ==
    /\ Spec
    /\ WF_vars(UI) /\ SF_vars(Tick) /\ WF_vars(AttachRenderer)
    /\ WF_vars(Upload) /\ WF_vars(RedrawDue) /\ WF_vars(Playback)

-----------------------------------------------------------------------------
Complete(picture) == picture = Closed \/ picture[1] = picture[2]

(* "FLUSH publishes a complete image; later DRAWs cannot alter that image"    *)
(* (BlurayArgbBuffer.h:11): however the program draws on while its picture    *)
(* waits, is taken, is presented and uploaded, no half of another picture     *)
(* gets on screen.                                                            *)
WholePictures == \A p \in Planes : Complete(rend.screen[p]) /\ Complete(plane[p].frame.picture)

(* Once the program stops drawing, the screen shows its last picture, and no  *)
(* other, without the user having to do anything, in the renderer that is     *)
(* attached then, even when the video stands still.                           *)
LastPictureShown ==
    <>[](ui.pc = "gone" \/ osd = "loading" \/ rend.screen = java.last)
=============================================================================
