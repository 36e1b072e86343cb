------------------------------- MODULE Playback -------------------------------
(***************************************************************************)
(* Playback: the splitter, the graph, the graphics, the monitor and the    *)
(* navigation of a Blu-ray disc, and the settings.  They share no state,   *)
(* so that a behaviour looks at one of them, chosen at its start, while    *)
(* the others do nothing.  GraphLoad is extended, the other parts are      *)
(* instances, most of them with constants that are declared here.          *)
(***************************************************************************)
EXTENDS GraphLoad

CONSTANTS NPins, Packets, QueueMax, QueueMin, MaxSeeks, MaxStops, Errors,     \* BaseSplitter
          LastPlane, MaxPictures, MaxSwitches,              \* BlurayGraphics
          Media, Gone, NoData, MaxStarts, MaxChanges,       \* BlurayMediaMonitor
          Lists, Still, End, Silent, Seeks,                 \* BlurayNavigation, without keys
          KeysEnd, KeysSilent, KeysSeeks, MaxKeys,          \* BlurayNavigation, with keys
          Player, Marker, Absent, Missing                   \* ProfileStore

VARIABLES part,
          app, flt, pin, down, got,                                             \* BaseSplitter
          java, buffer, plane, presenter, osd, redraw, time, rend,              \* BlurayGraphics
          drive, changes, data, mData, worker,                                  \* BlurayMediaMonitor
          nav, menu, clock, playing, loaded, timer, user,                       \* BlurayNavigation
          ini, torn, store, pc                                                  \* ProfileStore

splitterVars == <<app, flt, pin, down, got>>
graphicsVars == <<java, buffer, plane, presenter, osd, redraw, time, rend>>
monitorVars == <<drive, changes, data, mData, worker>>
navigationVars == <<nav, menu, clock, playing, loaded, timer, user>>
settingsVars == <<ini, torn, store, pc>>
allVars == <<part, splitterVars, vars, graphicsVars, monitorVars, navigationVars, settingsVars>>

Splitter == INSTANCE BaseSplitter WITH Discontinuous <- {}
TwoPins == INSTANCE BaseSplitter WITH
    NPins <- 2, Packets <- 4, QueueMax <- 1, QueueMin <- 1, MaxSeeks <- 0, MaxStops <- 0, Errors <- FALSE,
    Discontinuous <- {}
Graphics == INSTANCE BlurayGraphics WITH ui <- presenter
Monitor == INSTANCE BlurayMediaMonitor

Navigation == INSTANCE BlurayNavigation WITH
    MaxSeeks <- Seeks, MaxKeys <- 0, graph <- playing, load <- loaded, ui <- timer
Keys == INSTANCE BlurayNavigation WITH
    End <- KeysEnd, Silent <- KeysSilent, MaxSeeks <- KeysSeeks,
    graph <- playing, load <- loaded, ui <- timer
Settings == INSTANCE ProfileStore WITH
    Players <- {Player}, Done <- Marker, Values <- {1, 2}, Resets <- TRUE, file <- ini

(* What the proofs about these parts assume.                                  *)
ASSUME PlaybackAssumption ==
    /\ Constants /\ Splitter!Constants /\ Graphics!Constants /\ Monitor!Constants
    /\ Navigation!Constants /\ Keys!Constants /\ Settings!Constants

MonitorOff == drive = 0 /\ changes = 0 /\ data = 0 /\ mData = 0 /\ worker = 0
NavigationOff == nav = 0 /\ menu = 0 /\ clock = 0 /\ playing = 0 /\ loaded = 0 /\ timer = 0 /\ user = 0
SettingsOff == ini = 0 /\ torn = 0 /\ store = 0 /\ pc = 0

PlaybackInit ==
    /\ part \in {"splitter", "pins", "graph", "graphics", "monitor", "navigation", "keys", "settings"}
    /\ IF part = "pins" THEN TwoPins!Init ELSE Splitter!Init
    /\ Init /\ Graphics!Init
    /\ IF part = "monitor" THEN Monitor!Init ELSE MonitorOff
    /\ IF part = "navigation" THEN Navigation!Init ELSE IF part = "keys" THEN Keys!Init ELSE NavigationOff
    /\ IF part = "settings" THEN Settings!Init ELSE SettingsOff

InSplitter == UNCHANGED <<part, vars, graphicsVars, monitorVars, navigationVars, settingsVars>>
InGraph == UNCHANGED <<part, splitterVars, graphicsVars, monitorVars, navigationVars, settingsVars>>
InGraphics == UNCHANGED <<part, splitterVars, vars, monitorVars, navigationVars, settingsVars>>
InMonitor == UNCHANGED <<part, splitterVars, vars, graphicsVars, navigationVars, settingsVars>>
InNavigation == UNCHANGED <<part, splitterVars, vars, graphicsVars, monitorVars, settingsVars>>
InSettings == UNCHANGED <<part, splitterVars, vars, graphicsVars, monitorVars, navigationVars>>

PlaybackNext ==
    \/ part = "splitter" /\ Splitter!Next /\ InSplitter
    \/ part = "pins" /\ TwoPins!Next /\ InSplitter
    \/ part = "graph" /\ Next /\ InGraph
    \/ part = "graphics" /\ Graphics!Next /\ InGraphics
    \/ part = "monitor" /\ Monitor!Next /\ InMonitor
    \/ part = "navigation" /\ Navigation!Next /\ InNavigation
    \/ part = "keys" /\ Keys!Next /\ InNavigation
    \/ part = "settings" /\ Settings!Next /\ InSettings

PlaybackSteps == PlaybackInit /\ [][PlaybackNext]_allVars

-----------------------------------------------------------------------------
(* The types of each component, and the bound of the splitter's queues.       *)
PartsTyped ==
    /\ part = "splitter" => Splitter!TypeOK
    /\ part = "pins" => TwoPins!TypeOK
    /\ part = "graph" => TypeOK
    /\ part = "graphics" => Graphics!TypeOK
    /\ part = "monitor" => Monitor!TypeOK
    /\ part = "navigation" => Navigation!TypeOK
    /\ part = "keys" => Keys!TypeOK
    /\ part = "settings" => Settings!TypeOK

(* What a pin of the splitter delivers of a segment is what was read of it,   *)
(* from its start, without a gap, in order (CBaseSplitterOutputPin).          *)
InOrder == (part = "splitter" => Splitter!InOrder) /\ (part = "pins" => TwoPins!InOrder)

(* At most two packets from before a flush are delivered after it             *)
(* (CBaseSplitterOutputPin::DeliverBeginFlush, QueuePacket).                  *)
FewStale == part = "splitter" => Splitter!FewStale

(* No half of a picture gets on screen (BlurayArgbBuffer's FLUSH).            *)
WholePictures == part = "graphics" => Graphics!WholePictures

(* The disc that plays is reported lost only when it was away itself          *)
(* (BlurayMediaMonitor::LossReason).                                          *)
OnlyOwnLoss == part = "monitor" => Monitor!OnlyOwnLoss

(* The graph that plays is the one the navigator is in (TickBlurayMenu).      *)
SameList == (part = "navigation" => Navigation!SameList) /\ (part = "keys" => Keys!SameList)

(* A player alone that has moved the history sees so for the rest of its      *)
(* session, whatever flush failed and whenever the store is read again        *)
(* (CProfile::InitIni, SetupHistoryStore).                                    *)
MoveIsKept == part = "settings" => Settings!MoveIsKept

(* The navigator goes on from one playlist to the next by itself only when    *)
(* the picture is at its end (BlurayPlaybackClock).                           *)
LeftOnlyAtEnd == [][part = "navigation" /\ Navigation!Leaves => playing.pos = End]_allVars
=============================================================================
