------------------------- MODULE BlurayNavigation_proofs -------------------------
(***************************************************************************)
(* Proofs about BlurayNavigation for any playlists of any length, any      *)
(* number of seeks and, but for LeavesAtEnd, of keys.                      *)
(***************************************************************************)
EXTENDS BlurayNavigation, TLAPS

(* The types of the parts of the state.                                       *)
Maybe == Positions \cup {None}
NavState == [list : Lists, pos : Positions, at : {"title", "still", "over"}]
MenuState ==
    [list : Lists, waiting : BOOLEAN, open : BOOLEAN, jump : Maybe, armed : Maybe, due : BOOLEAN,
     completed : BOOLEAN, readEnd : BOOLEAN, still : BOOLEAN, until : BOOLEAN, resume : BOOLEAN]
ClockState == [pos : Maybe, afterSeek : BOOLEAN, fallback : BOOLEAN]
GraphState == [list : Lists, pos : Positions, early : BOOLEAN, running : BOOLEAN, ended : BOOLEAN]
UiState == [pc : {"idle", "osd", "after", "key"}, pos : Positions]

(* The menu follows the navigator, and the graph the menu, once it is built.  *)
ListInv ==
    /\ menu.list = nav.list
    /\ load = "loading" \/ (load = "loaded" /\ ~menu.waiting) => graph.list = menu.list

IInv == TypeOK /\ ListInv

(* Without keys the timer waits for a graph only between the navigator's      *)
(* opening a playlist and the end of that call, and has forgotten then what   *)
(* it knew of the playlist before.                                            *)
PhaseInv ==
    /\ ui.pc # "key" /\ menu.jump = None
    /\ load = "loading" => menu.waiting /\ ~menu.open /\ ui.pc = "idle"
    /\ load = "loaded" => (menu.open <=> menu.waiting) /\ (menu.waiting <=> ui.pc = "after")
    /\ menu.waiting /\ load # "gone" =>
         menu.armed = None /\ ~menu.completed /\ ~menu.readEnd /\ ~menu.still /\ nav.at = "title"

(* What says that the picture is at the end says so rightly.                  *)
EndInv ==
    load = "loaded" /\ ~menu.waiting =>
        /\ clock.pos # None /\ clock.afterSeek
        /\ clock.pos = End => graph.pos = End
        /\ menu.completed => graph.pos = End
        /\ ui.pc = "osd" /\ ui.pos = End /\ (menu.still \/ menu.readEnd) => graph.pos = End
        /\ nav.at = "over" /\ menu.armed = None => menu.readEnd \/ menu.completed

KeylessInv == IInv /\ PhaseInv /\ EndInv

-----------------------------------------------------------------------------
LEMMA Numbers ==
    ASSUME Constants
    PROVE  /\ End \in Nat /\ MaxSeeks \in Nat /\ MaxKeys \in Nat
           /\ 0 \in Positions /\ End \in Positions /\ None \notin Positions
           /\ \A p \in Positions : p \in Nat /\ p <= End /\ (p < End => p + 1 \in Positions)
  BY DEF Constants, Positions, None

LEMMA Typed ==
    TypeOK <=> /\ nav \in NavState /\ menu \in MenuState /\ clock \in ClockState /\ graph \in GraphState
               /\ load \in {"loaded", "loading", "gone"} /\ ui \in UiState
               /\ user \in [seeks : 0 .. MaxSeeks, keys : 0 .. MaxKeys]
  BY DEF TypeOK, NavState, MenuState, ClockState, GraphState, UiState, Maybe

LEMMA InitHolds == ASSUME Constants, Init PROVE IInv
  <1>1. PICK l \in Lists :
          /\ nav = [list |-> l, pos |-> 0, at |-> "title"]
          /\ menu = [list |-> l, waiting |-> FALSE, open |-> FALSE, jump |-> None, armed |-> None, due |-> FALSE,
                     completed |-> FALSE, readEnd |-> FALSE, still |-> FALSE, until |-> FALSE, resume |-> FALSE]
          /\ graph = [list |-> l, pos |-> 0, early |-> FALSE, running |-> TRUE, ended |-> FALSE]
    BY DEF Init
  <1>2. nav \in NavState /\ menu \in MenuState /\ graph \in GraphState
    BY <1>1, Numbers DEF NavState, MenuState, GraphState, Maybe
  <1>3. clock \in ClockState /\ ui \in UiState /\ load = "loaded"
        /\ user \in [seeks : 0 .. MaxSeeks, keys : 0 .. MaxKeys]
    BY Numbers DEF Init, SoughtClock, ClockState, UiState, Maybe
  <1> QED BY <1>1, <1>2, <1>3, Typed DEF IInv, ListInv

-----------------------------------------------------------------------------
(* The types of what the operators return.                                    *)
LEMMA ReportedIsTyped == ASSUME Constants, graph \in GraphState PROVE Reported \in Positions
  BY Numbers DEF Reported, GraphState

LEMMA UpdatedIsTyped ==
    ASSUME Constants, graph \in GraphState, clock \in ClockState
    PROVE  Updated \in ClockState /\ Updated.pos \in Positions
  <1> DEFINE expected == IF clock.pos = None THEN 0 ELSE graph.pos
             fallback == \/ clock.fallback
                         \/ clock.afterSeek /\ clock.pos # None /\ Reported = End /\ expected < End
             p == IF fallback THEN expected ELSE Reported
  <1>1. Updated = [clock EXCEPT !.pos = p, !.fallback = fallback]
    BY DEF Updated
  <1>2. p \in Positions
    BY Numbers, ReportedIsTyped DEF GraphState
  <1>3. fallback \in BOOLEAN
    BY DEF ClockState
  <1> HIDE DEF p, fallback
  <1> QED BY <1>1, <1>2, <1>3 DEF ClockState, Maybe

LEMMA SoughtIsTyped ==
    ASSUME Constants, graph \in GraphState, NEW p \in Positions, NEW g \in Sought(p)
    PROVE  /\ g \in GraphState /\ g.list = graph.list /\ g.pos = p
           /\ [g EXCEPT !.running = TRUE] \in GraphState
           /\ [g EXCEPT !.running = TRUE].list = graph.list /\ [g EXCEPT !.running = TRUE].pos = p
  <1>1. PICK e \in BOOLEAN : g = [graph EXCEPT !.pos = p, !.early = e]
    BY DEF Sought
  <1>2. g \in GraphState /\ g.list = graph.list /\ g.pos = p
    BY <1>1 DEF GraphState
  <1> QED BY <1>2 DEF GraphState

LEMMA SoughtClockIsTyped == ASSUME NEW p \in Positions PROVE SoughtClock(p) \in ClockState
  BY DEF SoughtClock, ClockState, Maybe

LEMMA NavAtIsTyped ==
    ASSUME nav \in NavState, NEW p \in Positions
    PROVE  NavAt(p) \in NavState /\ NavAt(p).list = nav.list
  BY DEF NavAt, NavState

LEMMA MenuIsTyped ==
    ASSUME menu \in MenuState
    PROVE  /\ Synced \in MenuState /\ Synced.list = menu.list /\ Synced.waiting = menu.waiting
           /\ Taken \in MenuState /\ Taken.list = menu.list /\ Taken.waiting = menu.waiting
           /\ Attached(menu) \in MenuState /\ Attached(menu).list = menu.list
           /\ Attached(Taken) \in MenuState /\ Attached(Taken).list = menu.list
           /\ \A p \in Positions :
                /\ Queued(p) \in MenuState /\ Queued(p).list = menu.list /\ Queued(p).waiting = menu.waiting
                /\ SeekEvent(menu, p) \in MenuState /\ SeekEvent(menu, p).list = menu.list
                /\ SeekEvent(menu, p).waiting = menu.waiting
                /\ SeekEvent(Synced, p) \in MenuState /\ SeekEvent(Synced, p).list = menu.list
                /\ SeekEvent(Synced, p).waiting = menu.waiting
  BY ZenonT(40) DEF MenuState, Maybe, Synced, Taken, Attached, Queued, SeekEvent, Rewound

(* Another playlist.                                                          *)
LEMMA NextPlaylistKeeps ==
    ASSUME Constants, IInv, NEW l \in Lists, NextPlaylist(l), load = "loaded", UNCHANGED <<graph, load>>
    PROVE  nav' \in NavState /\ menu' \in MenuState /\ clock' \in ClockState /\ ListInv'
  <1>1. menu \in MenuState
    BY Typed DEF IInv
  <1>2. nav' \in NavState /\ nav'.list = l
    BY Numbers DEF NextPlaylist, NavState
  <1>3. menu' \in MenuState /\ menu'.list = l /\ menu'.waiting
    BY <1>1 DEF NextPlaylist, Playlist, MenuState, Maybe
  <1>4. clock' \in ClockState
    BY DEF NextPlaylist, ResetClock, ClockState, Maybe
  <1> QED BY <1>2, <1>3, <1>4 DEF ListInv

LEMMA NextKeeps == ASSUME Constants, IInv, [Next]_vars PROVE IInv'
  <1>0. /\ nav \in NavState /\ menu \in MenuState /\ clock \in ClockState /\ graph \in GraphState
        /\ load \in {"loaded", "loading", "gone"} /\ ui \in UiState
        /\ user \in [seeks : 0 .. MaxSeeks, keys : 0 .. MaxKeys]
        /\ ListInv
    BY Typed DEF IInv
  <1> DEFINE Good == /\ nav' \in NavState /\ menu' \in MenuState /\ clock' \in ClockState
                     /\ graph' \in GraphState /\ load' \in {"loaded", "loading", "gone"} /\ ui' \in UiState
                     /\ user' \in [seeks : 0 .. MaxSeeks, keys : 0 .. MaxKeys]
  <1>G. ASSUME Good, ListInv' PROVE IInv'
    BY <1>G DEF IInv, TypeOK, NavState, MenuState, ClockState, GraphState, UiState, Maybe
  <1>1. CASE Tick
    <2>1. load = "loaded" /\ UNCHANGED <<graph, load, user>>
      BY <1>1 DEF Tick
    <2>2. Updated \in ClockState /\ Updated.pos \in Positions /\ Reported \in Positions
      BY <1>0, UpdatedIsTyped, ReportedIsTyped
    <2>3. ui' \in UiState
      BY <1>1, <2>2 DEF Tick, UiState
    <2>4. CASE menu.waiting
      BY <1>0, <1>1, <1>G, <2>1, <2>3, <2>4 DEF Tick, ListInv
    <2>5. CASE ~menu.waiting /\ SyncNow(menu) /\ menu' = Synced /\ nav' = NavAt(menu.armed) /\ clock' = Updated
      <3>1. menu.armed \in Positions
        BY <1>0, <2>5 DEF SyncNow, MenuState, Maybe
      <3>2. nav' \in NavState /\ nav'.list = nav.list /\ menu' \in MenuState /\ menu'.list = menu.list
            /\ menu'.waiting = menu.waiting
        BY <1>0, <2>5, <3>1, NavAtIsTyped, MenuIsTyped
      <3> QED BY <1>0, <1>G, <2>1, <2>2, <2>3, <2>5, <3>2 DEF ListInv
    <2>6. CASE /\ ~menu.waiting /\ StillOver /\ nav' = [nav EXCEPT !.at = "over"] /\ clock' = Updated
               /\ menu' = [menu EXCEPT !.still = FALSE, !.until = FALSE]
      <3>1. nav' \in NavState /\ nav'.list = nav.list /\ menu' \in MenuState /\ menu'.list = menu.list
            /\ menu'.waiting = menu.waiting
        BY <1>0, <2>6 DEF NavState, MenuState
      <3> QED BY <1>0, <1>G, <2>1, <2>2, <2>3, <2>6, <3>1 DEF ListInv
    <2>7. CASE ~menu.waiting /\ Read
      <3>1. CASE ReadOn \/ ReadEnd
        <4>1. nav' \in NavState /\ nav'.list = nav.list
          BY <1>0, <3>1, Numbers DEF ReadOn, ReadEnd, NavState
        <4>2. menu' \in MenuState /\ menu'.list = menu.list /\ menu'.waiting = menu.waiting /\ clock' = Updated
          BY <1>0, <3>1 DEF ReadOn, ReadEnd, MenuState
        <4> QED BY <1>0, <1>G, <2>1, <2>2, <2>3, <4>1, <4>2 DEF ListInv
      <3>2. CASE \E l \in Lists : NextPlaylist(l)
        BY <1>0, <1>G, <2>1, <2>3, <3>2, NextPlaylistKeeps
      <3> QED BY <2>7, <3>1, <3>2 DEF Read
    <2>8. CASE clock' = Updated /\ UNCHANGED <<nav, menu>>
      BY <1>0, <1>G, <2>1, <2>2, <2>3, <2>8 DEF ListInv
    <2> QED BY <1>1, <2>4, <2>5, <2>6, <2>7, <2>8 DEF Tick
  <1>2. CASE TickEnds
    <2>1. load = "loaded" /\ UNCHANGED <<nav, user>> /\ ui' \in UiState
      BY <1>0, <1>2 DEF TickEnds, UiState
    <2>2. Start \in Positions
      BY <1>0, Numbers DEF Start, MenuState, Maybe
    <2>3. CASE Reuse
      <3>1. PICK g \in Sought(Start) : graph' = [g EXCEPT !.running = TRUE]
        BY <2>3 DEF Reuse
      <3>2. graph' \in GraphState /\ graph'.list = graph.list
        BY <1>0, <2>2, <3>1, SoughtIsTyped
      <3>3. graph.list = menu.list /\ menu' \in MenuState /\ menu'.list = menu.list /\ clock' \in ClockState
            /\ load' = load
        BY <1>0, <2>2, <2>3, MenuIsTyped, SoughtClockIsTyped DEF Reuse, Plays
      <3> QED BY <1>0, <1>G, <2>1, <3>2, <3>3 DEF ListInv
    <2>4. CASE OpenMedia
      <3>1. graph' \in GraphState /\ graph'.list = menu.list
        BY <1>0, <2>2, <2>4 DEF OpenMedia, GraphState, MenuState
      <3>2. menu' \in MenuState /\ menu'.list = menu.list /\ load' = "loading" /\ clock' = clock
        BY <1>0, <2>4, MenuIsTyped DEF OpenMedia
      <3> QED BY <1>0, <1>G, <2>1, <3>1, <3>2 DEF ListInv
    <2>5. CASE FollowJump
      <3>1. menu.jump \in Positions
        BY <1>0, <2>5 DEF FollowJump, MenuState, Maybe
      <3>2. PICK g \in Sought(menu.jump) : graph' = [g EXCEPT !.running = TRUE]
        BY <2>5 DEF FollowJump
      <3>3. graph' \in GraphState /\ graph'.list = graph.list /\ clock' \in ClockState /\ load' = load
        BY <1>0, <2>5, <3>1, <3>2, SoughtIsTyped, SoughtClockIsTyped DEF FollowJump
      <3>4. menu' \in MenuState /\ menu'.list = menu.list /\ menu'.waiting = menu.waiting
        BY <1>0, <2>5 DEF FollowJump, Taken, AtEnd, MenuState, Maybe
      <3> QED BY <1>0, <1>G, <2>1, <3>3, <3>4 DEF ListInv
    <2>6. CASE GoOn
      <3>1. graph' \in GraphState /\ graph'.list = graph.list
        BY <1>0, <2>6 DEF GoOn, Paused, GraphState, MenuState
      <3>2. menu' \in MenuState /\ menu'.list = menu.list /\ menu'.waiting = menu.waiting /\ UNCHANGED <<clock, load>>
        BY <1>0, <2>6 DEF GoOn, AtEnd, MenuState
      <3> QED BY <1>0, <1>G, <2>1, <3>1, <3>2 DEF ListInv
    <2> QED BY <1>2, <2>3, <2>4, <2>5, <2>6 DEF TickEnds
  <1>3. CASE Opened
    <2>1. graph' \in GraphState /\ graph'.list = graph.list /\ clock' \in ClockState
      BY <1>0, <1>3, SoughtClockIsTyped DEF Opened, GraphState
    <2>2. menu' \in MenuState /\ menu'.list = menu.list
      BY <1>0, <1>3, MenuIsTyped DEF Opened
    <2> QED BY <1>0, <1>3, <1>G, <2>1, <2>2 DEF Opened, ListInv
  <1>4. CASE Key
    <2>1. load = "loaded" /\ ~menu.waiting /\ UNCHANGED <<graph, load>>
      BY <1>4 DEF Key
    <2>2. ui' \in UiState /\ user' \in [seeks : 0 .. MaxSeeks, keys : 0 .. MaxKeys]
      BY <1>0, <1>4, Numbers DEF Key, UiState
    <2> DEFINE m == IF menu.armed = None THEN menu ELSE Synced
               n == IF menu.armed = None THEN nav ELSE NavAt(menu.armed)
    <2>3. n \in NavState /\ n.list = nav.list
      BY <1>0, NavAtIsTyped DEF MenuState, Maybe
    <2>4. m \in MenuState /\ m.list = menu.list /\ m.waiting = menu.waiting
          /\ \A p \in Positions : SeekEvent(m, p) \in MenuState /\ SeekEvent(m, p).list = menu.list
                                  /\ SeekEvent(m, p).waiting = menu.waiting
      BY <1>0, MenuIsTyped
    <2>5. \/ menu' = m /\ nav' = n /\ clock' = clock
          \/ \E p \in Positions : menu' = SeekEvent(m, p) /\ nav' = NavAt(p) /\ clock' = clock
          \/ \E l \in Lists : NextPlaylist(l)
      BY <1>4 DEF Key
    <2> HIDE DEF m, n
    <2>6. CASE menu' = m /\ nav' = n /\ clock' = clock
      BY <1>0, <1>G, <2>1, <2>2, <2>3, <2>4, <2>6 DEF ListInv
    <2>7. CASE \E p \in Positions : menu' = SeekEvent(m, p) /\ nav' = NavAt(p) /\ clock' = clock
      <3>1. PICK p \in Positions : menu' = SeekEvent(m, p) /\ nav' = NavAt(p) /\ clock' = clock
        BY <2>7
      <3>2. nav' \in NavState /\ nav'.list = nav.list
        BY <1>0, <3>1, NavAtIsTyped
      <3> QED BY <1>0, <1>G, <2>1, <2>2, <2>4, <3>1, <3>2 DEF ListInv
    <2>8. CASE \E l \in Lists : NextPlaylist(l)
      BY <1>0, <1>G, <2>1, <2>2, <2>8, NextPlaylistKeeps
    <2> QED BY <2>5, <2>6, <2>7, <2>8
  <1>5. CASE KeyEnds
    BY <1>0, <1>5, <1>G DEF KeyEnds, UiState, ListInv
  <1>6. CASE Due \/ StillTime
    BY <1>0, <1>6, <1>G DEF Due, StillTime, MenuState, ListInv
  <1>7. CASE Play \/ PictureGoesOn \/ StreamsEnd
    BY <1>0, <1>7, <1>G, Numbers DEF Play, PictureGoesOn, StreamsEnd, GraphState, ListInv
  <1>8. CASE Close
    BY <1>0, <1>8, <1>G DEF Close, UiState, ListInv
  <1>9. CASE Complete
    BY <1>0, <1>9, <1>G, ZenonT(40) DEF Complete, MenuState, GraphState, ClockState, ListInv
  <1>10. ASSUME NEW p \in Positions, Seek(p) PROVE IInv'
    <2>1. graph' \in GraphState /\ graph'.list = graph.list /\ UNCHANGED <<nav, load, ui>>
      BY <1>0, <1>10, SoughtIsTyped DEF Seek
    <2>2. menu' \in MenuState /\ menu'.list = menu.list /\ menu'.waiting = menu.waiting /\ clock' \in ClockState
      BY <1>0, <1>10, MenuIsTyped, SoughtClockIsTyped DEF Seek
    <2>3. user' \in [seeks : 0 .. MaxSeeks, keys : 0 .. MaxKeys]
      BY <1>0, <1>10, Numbers DEF Seek
    <2> QED BY <1>0, <1>G, <2>1, <2>2, <2>3 DEF ListInv
  <1>11. CASE UNCHANGED vars
    BY <1>11 DEF vars, IInv, TypeOK, ListInv
  <1> QED BY <1>1, <1>2, <1>3, <1>4, <1>5, <1>6, <1>7, <1>8, <1>9, <1>10, <1>11 DEF Next

-----------------------------------------------------------------------------
(* The same without keys.                                                     *)
LEMMA KeylessInit == ASSUME Constants, Init PROVE KeylessInv
  <1>1. menu.jump = None /\ ~menu.waiting /\ ~menu.open /\ ~menu.completed /\ nav.at = "title" /\ graph.pos = 0
    BY DEF Init
  <1>2. clock.pos = 0 /\ clock.afterSeek /\ 0 # None
    BY DEF Init, SoughtClock, None
  <1> QED BY <1>1, <1>2, InitHolds DEF Init, KeylessInv, PhaseInv, EndInv

(* The clock reads the end only when the picture is there.                    *)
LEMMA UpdatedAtEnd ==
    ASSUME Constants, graph \in GraphState, clock \in ClockState, clock.pos # None, clock.afterSeek
    PROVE  /\ Updated.pos # None /\ Updated.afterSeek
           /\ Updated.pos = End => graph.pos = End
  <1> DEFINE fallback == clock.fallback \/ (Reported = End /\ graph.pos < End)
             p == IF fallback THEN graph.pos ELSE Reported
  <1>1. Updated = [clock EXCEPT !.pos = p, !.fallback = fallback]
    BY DEF Updated
  <1>2. Updated.pos = p /\ Updated.afterSeek
    BY <1>1 DEF ClockState
  <1>3. graph.pos \in Nat /\ graph.pos <= End /\ End \in Nat
    BY Numbers DEF GraphState
  <1>4. p = End => graph.pos = End
    BY <1>3
  <1>5. Updated.pos # None
    BY <1>2, UpdatedIsTyped, Numbers
  <1> QED BY <1>2, <1>4, <1>5

LEMMA KeylessNext == ASSUME Constants, MaxKeys = 0, KeylessInv, [Next]_vars PROVE KeylessInv'
  <1>0. /\ nav \in NavState /\ menu \in MenuState /\ clock \in ClockState /\ graph \in GraphState
        /\ load \in {"loaded", "loading", "gone"} /\ ui \in UiState
        /\ user \in [seeks : 0 .. MaxSeeks, keys : 0 .. MaxKeys]
        /\ PhaseInv /\ EndInv
    BY Typed DEF KeylessInv, IInv
  <1>1. IInv'
    BY NextKeeps DEF KeylessInv
  <1> SUFFICES PhaseInv' /\ EndInv'
    BY <1>1 DEF KeylessInv
  <1>2. CASE Tick
    <2>1. load = "loaded" /\ ui.pc = "idle" /\ ~menu.waiting /\ ~menu.open /\ UNCHANGED <<graph, load, user>>
      BY <1>0, <1>2 DEF Tick, PhaseInv
    <2>2. /\ Updated.pos # None /\ Updated.afterSeek
          /\ Updated.pos = End => graph.pos = End
      BY <1>0, <2>1, UpdatedAtEnd DEF EndInv
    <2> DEFINE Osd == clock' = Updated /\ ui' = [pc |-> "osd", pos |-> Updated.pos]
    <2>3. CASE SyncNow(menu) /\ menu' = Synced /\ nav' = NavAt(menu.armed) /\ Osd
      <3>1. ~menu'.waiting /\ ~menu'.open /\ menu'.jump = None /\ menu'.completed = menu.completed
            /\ nav'.at = "title" /\ ui'.pc = "osd" /\ ui'.pos = Updated.pos
        BY <1>0, <2>1, <2>3 DEF PhaseInv, MenuState, NavState, Synced, NavAt
      <3> QED BY <1>0, <2>1, <2>2, <2>3, <3>1 DEF PhaseInv, EndInv
    <2>4. CASE StillOver /\ nav' = [nav EXCEPT !.at = "over"] /\ Osd
               /\ menu' = [menu EXCEPT !.still = FALSE, !.until = FALSE]
      <3>1. ~menu'.waiting /\ ~menu'.open /\ menu'.jump = None /\ menu'.completed /\ menu.completed
            /\ ui'.pc = "osd" /\ ui'.pos = Updated.pos
        BY <1>0, <2>1, <2>4 DEF PhaseInv, MenuState, StillOver
      <3> QED BY <1>0, <2>1, <2>2, <2>4, <3>1 DEF PhaseInv, EndInv
    <2>5. CASE ReadOn /\ ui' = [pc |-> IF menu'.waiting THEN "after" ELSE "osd", pos |-> Updated.pos]
      <3>1. menu' = menu /\ nav'.at = "title" /\ Osd
        BY <1>0, <2>1, <2>5 DEF ReadOn, NavState
      <3> QED BY <1>0, <2>1, <2>2, <3>1 DEF PhaseInv, EndInv
    <2>6. CASE ReadEnd /\ ui' = [pc |-> IF menu'.waiting THEN "after" ELSE "osd", pos |-> Updated.pos]
      <3>1. /\ ~menu'.waiting /\ ~menu'.open /\ menu'.jump = None /\ menu'.completed = menu.completed
            /\ nav'.at = "over" => menu'.readEnd
        BY <1>0, <2>1, <2>6 DEF ReadEnd, NavState, MenuState, PhaseInv
      <3>2. Osd
        BY <2>6, <3>1 DEF ReadEnd
      <3> QED BY <1>0, <2>1, <2>2, <3>1, <3>2 DEF PhaseInv, EndInv
    <2>7. ASSUME NEW l \in Lists, NextPlaylist(l),
                 ui' = [pc |-> IF menu'.waiting THEN "after" ELSE "osd", pos |-> Updated.pos]
          PROVE  PhaseInv' /\ EndInv'
      <3>1. /\ menu'.waiting /\ menu'.open /\ menu'.jump = None /\ menu'.armed = None
            /\ ~menu'.completed /\ ~menu'.readEnd /\ ~menu'.still /\ nav'.at = "title" /\ ui'.pc = "after"
        BY <1>0, <2>7 DEF NextPlaylist, Playlist, MenuState
      <3> QED BY <2>1, <3>1 DEF PhaseInv, EndInv
    <2>8. CASE UNCHANGED <<nav, menu>> /\ Osd
      BY <1>0, <2>1, <2>2, <2>8 DEF PhaseInv, EndInv
    <2> QED BY <1>2, <2>1, <2>3, <2>4, <2>5, <2>6, <2>7, <2>8 DEF Tick, Read
  <1>3. CASE TickEnds
    <2>1. load = "loaded" /\ nav' = nav /\ ui'.pc = "idle" /\ ui.pc \in {"osd", "after"} /\ menu.jump = None
      BY <1>0, <1>3 DEF TickEnds, UiState, PhaseInv
    <2>2. CASE Reuse
      <3>1. PICK g \in Sought(Start) : graph' = [g EXCEPT !.running = TRUE]
        BY <2>2 DEF Reuse
      <3>2. Start = 0 /\ graph'.pos = 0
        BY <1>0, <2>1, <3>1, SoughtIsTyped, Numbers DEF Start
      <3>3. /\ menu.waiting /\ ~menu'.waiting /\ ~menu'.open /\ menu'.jump = None
            /\ menu'.completed = menu.completed /\ load' = load
        BY <1>0, <2>1, <2>2 DEF Reuse, Attached, Taken, MenuState, PhaseInv
      <3>4. clock'.pos = 0 /\ clock'.afterSeek /\ 0 # None
        BY <2>2, <3>2 DEF Reuse, SoughtClock, None
      <3> QED BY <1>0, <2>1, <3>2, <3>3, <3>4 DEF PhaseInv, EndInv
    <2>3. CASE OpenMedia
      <3>1. /\ menu.waiting /\ menu'.waiting /\ ~menu'.open /\ menu'.jump = None /\ menu'.armed = menu.armed
            /\ menu'.completed = menu.completed /\ menu'.readEnd = menu.readEnd /\ menu'.still = menu.still
            /\ load' = "loading"
        BY <1>0, <2>1, <2>3 DEF OpenMedia, Taken, MenuState, PhaseInv
      <3> QED BY <1>0, <2>1, <3>1 DEF PhaseInv, EndInv
    <2>4. CASE FollowJump
      BY <2>1, <2>4 DEF FollowJump
    <2>5. CASE GoOn
      <3>1. ~menu.open /\ ~menu.waiting /\ ui.pc = "osd" /\ UNCHANGED <<clock, load>>
        BY <1>0, <2>1, <2>5 DEF GoOn, PhaseInv
      <3>2. graph'.pos = graph.pos
        BY <1>0, <2>5 DEF GoOn, Paused, GraphState
      <3>3. /\ ~menu'.waiting /\ ~menu'.open /\ menu'.jump = None /\ menu'.armed = menu.armed
            /\ menu'.readEnd = menu.readEnd /\ menu'.still = menu.still
            /\ menu'.completed <=> menu.completed \/ AtEnd
        BY <1>0, <2>5, <3>1 DEF GoOn, AtEnd, MenuState, PhaseInv
      <3>4. AtEnd => graph.pos = End
        BY <1>0, <2>1, <3>1 DEF AtEnd, EndInv
      <3> QED BY <1>0, <2>1, <3>1, <3>2, <3>3, <3>4 DEF PhaseInv, EndInv
    <2> QED BY <1>3, <2>2, <2>3, <2>4, <2>5 DEF TickEnds
  <1>4. CASE Opened
    <2>1. /\ load = "loading" /\ load' = "loaded" /\ UNCHANGED <<nav, ui>> /\ ui.pc = "idle"
          /\ menu.waiting /\ ~menu.open
      BY <1>0, <1>4 DEF Opened, PhaseInv
    <2>2. /\ ~menu'.waiting /\ ~menu'.open /\ menu'.jump = menu.jump /\ menu'.completed = menu.completed
      BY <1>0, <1>4, <2>1 DEF Opened, Attached, MenuState
    <2>3. /\ graph'.pos = graph.pos /\ clock'.pos = graph.pos /\ clock'.afterSeek /\ graph.pos # None
      BY <1>0, <1>4, Numbers DEF Opened, SoughtClock, GraphState
    <2> QED BY <1>0, <2>1, <2>2, <2>3 DEF PhaseInv, EndInv
  <1>5. CASE Key \/ KeyEnds
    <2>1. ~Key
      BY <1>0 DEF Key
    <2>2. ~KeyEnds
      BY <1>0 DEF KeyEnds, PhaseInv
    <2> QED BY <1>5, <2>1, <2>2
  <1>6. CASE Due \/ StillTime
    <2>1. /\ menu'.waiting = menu.waiting /\ menu'.open = menu.open /\ menu'.jump = menu.jump
          /\ menu'.armed = menu.armed /\ menu'.completed = menu.completed /\ menu'.readEnd = menu.readEnd
          /\ menu'.still = menu.still /\ UNCHANGED <<nav, clock, graph, load, ui>>
      BY <1>0, <1>6 DEF Due, StillTime, MenuState
    <2> QED BY <1>0, <2>1 DEF PhaseInv, EndInv
  <1>7. CASE Play \/ StreamsEnd
    <2>1. graph'.pos = graph.pos /\ UNCHANGED <<nav, menu, clock, load, ui>>
      BY <1>0, <1>7 DEF Play, StreamsEnd, GraphState
    <2> QED BY <1>0, <2>1 DEF PhaseInv, EndInv
  <1>8. CASE PictureGoesOn
    <2>1. graph.pos < End /\ graph.pos # End /\ UNCHANGED <<nav, menu, clock, load, ui>>
      BY <1>0, <1>8, Numbers DEF PictureGoesOn, GraphState
    <2> QED BY <1>0, <2>1 DEF PhaseInv, EndInv
  <1>9. CASE Close
    BY <1>0, <1>9 DEF Close, UiState, PhaseInv, EndInv
  <1>10. CASE Complete
    <2>1. load = "loaded" /\ ui.pc \in {"idle", "osd"} /\ ~menu.waiting /\ UNCHANGED <<nav, load, ui>>
      BY <1>0, <1>10 DEF Complete, Dispatching, PhaseInv
    <2>2. graph'.pos = graph.pos
      BY <1>0, <1>10 DEF Complete, GraphState
    <2>3. CASE AcceptEnd /\ menu' = [menu EXCEPT !.completed = TRUE] /\ clock' = clock
      <3>1. graph.pos = End
        BY <1>0, <2>1, <2>3 DEF AcceptEnd, EndInv
      <3>2. /\ ~menu'.waiting /\ menu'.open = menu.open /\ menu'.jump = menu.jump /\ menu'.completed
        BY <1>0, <2>1, <2>3 DEF MenuState
      <3> QED BY <1>0, <2>1, <2>2, <2>3, <3>1, <3>2 DEF PhaseInv, EndInv
    <2>4. CASE clock' = [clock EXCEPT !.fallback = TRUE] /\ menu' = menu
      <3>1. clock'.pos = clock.pos /\ clock'.afterSeek = clock.afterSeek
        BY <1>0, <2>4 DEF ClockState
      <3> QED BY <1>0, <2>1, <2>2, <2>4, <3>1 DEF PhaseInv, EndInv
    <2> QED BY <1>10, <2>3, <2>4 DEF Complete
  <1>11. ASSUME NEW p \in Positions, Seek(p) PROVE PhaseInv' /\ EndInv'
    <2>1. /\ load = "loaded" /\ ui.pc \in {"idle", "osd"} /\ ~menu.waiting /\ UNCHANGED <<nav, load, ui>>
          /\ menu' = Queued(p) /\ clock' = SoughtClock(p)
      BY <1>0, <1>11 DEF Seek, Dispatching, PhaseInv
    <2>2. graph'.pos = p
      BY <1>0, <1>11, SoughtIsTyped DEF Seek
    <2>3. /\ ~menu'.waiting /\ menu'.open = menu.open /\ menu'.jump = menu.jump /\ menu'.armed = p
          /\ ~menu'.completed /\ ~menu'.readEnd /\ ~menu'.still
      BY <1>0, <2>1 DEF Queued, Rewound, MenuState
    <2>4. clock'.pos = p /\ clock'.afterSeek /\ p # None
      BY <2>1, Numbers DEF SoughtClock
    <2> QED BY <1>0, <2>1, <2>2, <2>3, <2>4 DEF PhaseInv, EndInv
  <1>12. CASE UNCHANGED vars
    BY <1>0, <1>12 DEF vars, PhaseInv, EndInv
  <1> QED BY <1>2, <1>3, <1>4, <1>5, <1>6, <1>7, <1>8, <1>9, <1>10, <1>11, <1>12 DEF Next

(* Another playlist is read on only when nothing is at the end but in name.   *)
LEMMA LeavesAtEnd == ASSUME Constants, MaxKeys = 0, KeylessInv, Next, Leaves PROVE graph.pos = End
  <1>1. PhaseInv /\ EndInv /\ menu \in MenuState /\ nav \in NavState /\ ui \in UiState
    BY Typed DEF KeylessInv, IInv
  <1>2. Tick
    <2>1. ui.pc = "idle" /\ ui'.pc = "after"
      BY DEF Leaves
    <2>2. ~TickEnds /\ ~KeyEnds
      BY <2>1 DEF TickEnds, KeyEnds
    <2>3. ~Key
      BY <1>1, <2>1 DEF Key, UiState
    <2>4. ~Close
      BY <1>1, <2>1 DEF Close, UiState
    <2>5. UNCHANGED ui => FALSE
      BY <2>1
    <2>6. ~Opened /\ ~Due /\ ~StillTime /\ ~Play /\ ~Complete /\ ~PictureGoesOn /\ ~StreamsEnd
          /\ \A p \in Positions : ~Seek(p)
      BY <2>5 DEF Opened, Due, StillTime, Play, Complete, PictureGoesOn, StreamsEnd, Seek
    <2> QED BY <2>2, <2>3, <2>4, <2>6 DEF Next
  <1>3. load = "loaded" /\ ~menu.waiting /\ ~menu.open
    BY <1>1, <1>2 DEF Tick, PhaseInv
  <1>4. menu'.open /\ ui'.pc = "after"
    BY DEF Leaves
  <1>5. ReadsNow(menu, Updated) /\ Read
    <2>1. ~Synced.open /\ ~[menu EXCEPT !.still = FALSE, !.until = FALSE].open
      BY <1>1, <1>3 DEF Synced, MenuState
    <2> QED BY <1>2, <1>3, <1>4, <2>1 DEF Tick
  <1>6. ~ReadOn /\ ~ReadEnd
    BY <1>1, <1>3, <1>4 DEF ReadOn, ReadEnd, MenuState
  <1>7. nav.at = "over" /\ menu.armed = None /\ (menu.readEnd => menu.completed)
    BY <1>5, <1>6 DEF Read, ReadsNow
  <1> QED BY <1>1, <1>3, <1>7 DEF EndInv

-----------------------------------------------------------------------------
LEMMA Invariant == ASSUME Constants PROVE Spec => []IInv
  <1>1. Init => IInv
    BY InitHolds
  <1>2. IInv /\ [Next]_vars => IInv'
    BY NextKeeps
  <1> QED BY <1>1, <1>2, PTL DEF Spec

(* The state of the bridge has its types.                                     *)
THEOREM TypeCorrect == ASSUME Constants PROVE Spec => []TypeOK
  <1>1. IInv => TypeOK
    BY DEF IInv
  <1> QED BY <1>1, Invariant, PTL

(* However keys, jumps, seeks, failures and late graphs come together, the    *)
(* graph that plays is the one the navigator is in (TickBlurayMenu).          *)
THEOREM ListsAgree == ASSUME Constants PROVE Spec => []SameList
  <1>1. IInv => SameList
    BY DEF IInv, ListInv, SameList
  <1> QED BY <1>1, Invariant, PTL

(* As long as no key is pressed, the navigator leaves a playlist by itself    *)
(* only when the picture is at its end (BlurayPlaybackClock, Pump).           *)
THEOREM LeftAtEnd == ASSUME Constants, MaxKeys = 0 PROVE Spec => LeftOnlyAtEnd
  <1>1. Init => KeylessInv
    BY KeylessInit
  <1>2. KeylessInv /\ [Next]_vars => KeylessInv'
    BY KeylessNext
  <1>3. KeylessInv /\ [Next]_vars => [Leaves => graph.pos = End]_vars
    BY LeavesAtEnd
  <1> QED BY <1>1, <1>2, <1>3, PTL DEF Spec, LeftOnlyAtEnd
================================================================================
