------------------------------ MODULE ProfileStore ------------------------------
(***************************************************************************)
(* The settings of the player (Profile.cpp, mplayerc.cpp): two INI files,  *)
(* the main one and the history, each cached in memory by every running    *)
(* player.  A store is read when first used, and again when it was not     *)
(* used for 100 ms and holds no change; changes are flushed when the       *)
(* player is idle, by writing the whole file in place.  The first start    *)
(* moves the history out of the main file; /reset empties both.  A file    *)
(* may be unreadable or unwritable for a while, a player may be killed.    *)
(***************************************************************************)
CONSTANTS Players,
          Values,       \* what the option may be set to
          Done,         \* the marker of the split, and the one history there is
          Absent,
          Resets,       \* the player may be started with /reset
          Missing       \* a file that does not exist

VARIABLES file,     \* what each store's file holds
          torn,     \* the player that failed to write a file to its end, if any
          store,    \* the CProfile of each player for each file
          pc        \* where each player is

vars == <<file, torn, store, pc>>

(* What the constants have to be.                                             *)
Constants == Absent \notin Players /\ Done # Absent

Stores == {"main", "history"}
Keys == {"option", "split", "history"}
Settings == [option : Values \cup {Absent}, split : {Done, Absent}, history : {Done, Absent}]
NoSettings == [option |-> Absent, split |-> Absent, history |-> Absent]
Profile == [map : Settings, firstInit : BOOLEAN, readFailed : BOOLEAN,
            needFlush : BOOLEAN]
NewProfile == [map |-> NoSettings, firstInit |-> FALSE, readFailed |-> FALSE,
               needFlush |-> FALSE]
PCs == {"down", "starting", "splitting", "ready", "running", "idle", "reset", "defaults", "cleared"}

TypeOK ==
    /\ file \in [Stores -> Settings \cup {Missing}]
    /\ torn \in [Stores -> Players \cup {Absent}]
    /\ store \in [Players -> [Stores -> Profile]]
    /\ pc \in [Players -> PCs]

(* An older player left a main file with an option and a history.             *)
Init ==
    /\ \E v \in Values : file = [s \in Stores |->
         IF s = "main" THEN [option |-> v, split |-> Absent, history |-> Done] ELSE Missing]
    /\ torn = [s \in Stores |-> Absent]
    /\ store = [p \in Players |-> [s \in Stores |-> NewProfile]]
    /\ pc = [p \in Players |-> "down"]

GoTo(p, l) == pc' = [pc EXCEPT ![p] = l]
Become(p, s, c) == store' = [store EXCEPT ![p][s] = c]

-----------------------------------------------------------------------------
(* One store.                                                                 *)

(* Mutant: changes not flushed yet do not keep a store from being read again. *)
InitIni_Always(c, content) ==
    IF c.readFailed THEN {c}
    ELSE IF content = Missing THEN {[c EXCEPT !.firstInit = TRUE]}
    ELSE {[c EXCEPT !.map = content, !.firstInit = TRUE], [c EXCEPT !.readFailed = ~c.firstInit]}

(* What a store may be after InitIni: read, unless it holds changes; or as it *)
(* was, when it was used less than 100 ms ago or the file cannot be read just *)
(* now.  A store that never was read gives up then.                           *)
InitIni(c, content) ==
    IF c.readFailed \/ (c.firstInit /\ c.needFlush) THEN {c}
    ELSE IF content = Missing THEN {[c EXCEPT !.firstInit = TRUE]}
    ELSE {[c EXCEPT !.map = content, !.firstInit = TRUE], [c EXCEPT !.readFailed = ~c.firstInit]}

(* WriteString and its like.                                                  *)
Written(c, content, k, v) ==
    {[d EXCEPT !.map[k] = v, !.needFlush = @ \/ d.map[k] # v] : d \in InitIni(c, content)}

(* What a file may hold when its writing stops halfway: parts of the new      *)
(* settings, then what was there, or new settings and an old tail.            *)
Torn(old, new) ==
    IF old = Missing THEN {NoSettings, new}
    ELSE [option : {old.option, new.option}, split : {old.split, new.split}, history : {old.history, new.history}]

(* Mutant: a store that could not be read is flushed like any other.          *)
MustFlush_Unread(c, force) == force \/ c.needFlush

MustFlush(c, force) == (force \/ c.needFlush) /\ ~c.readFailed

(* Mutant: the change is taken for flushed before the file is written.        *)
Flush_ClearsFirst(p, s, force) ==
    /\ IF MustFlush(store[p][s], force)
       THEN /\ \/ file' = [file EXCEPT ![s] = store[p][s].map] /\ torn' = [torn EXCEPT ![s] = Absent]
               \/ \E f \in Torn(file[s], store[p][s].map) :
                    file' = [file EXCEPT ![s] = f] /\ torn' = [torn EXCEPT ![s] = p]
            /\ Become(p, s, [store[p][s] EXCEPT !.needFlush = FALSE])
       ELSE UNCHANGED <<file, torn, store>>

(* Flush: the file is written, or cannot be opened or grown, or is written in *)
(* part, and then the change stays for the next flush.                        *)
Flush(p, s, force) ==
    IF MustFlush(store[p][s], force)
    THEN \/ /\ file' = [file EXCEPT ![s] = store[p][s].map]
            /\ torn' = [torn EXCEPT ![s] = Absent]
            /\ Become(p, s, [store[p][s] EXCEPT !.needFlush = FALSE])
         \/ UNCHANGED <<file, torn, store>>
         \/ /\ \E f \in Torn(file[s], store[p][s].map) : file' = [file EXCEPT ![s] = f]
            /\ torn' = [torn EXCEPT ![s] = p]
            /\ UNCHANGED store
    ELSE UNCHANGED <<file, torn, store>>

(* Clear: the file is emptied unless another program has it open.             *)
Clear(p, s) ==
    /\ file' \in {[file EXCEPT ![s] = IF @ = Missing THEN Missing ELSE NoSettings], file}
    /\ torn' = [torn EXCEPT ![s] = Absent]
    /\ Become(p, s, [store[p][s] EXCEPT !.map = NoSettings, !.needFlush = FALSE])

-----------------------------------------------------------------------------
(* The player.                                                                *)
(* The language of the interface is read first.                               *)
Launch(p) ==
    /\ pc[p] = "down"
    /\ \E c \in InitIni(store[p]["main"], file["main"]) : Become(p, "main", c)
    /\ GoTo(p, "starting")
    /\ UNCHANGED <<file, torn>>

(* NeedsSetup: no file, or the empty one of a reset.  The file is committed   *)
(* by renaming and reloaded.                                                  *)
FirstRun(p) ==
    /\ pc[p] = "starting" /\ file["main"] \in {Missing, NoSettings}
    /\ \E v \in Values :
         LET imported == [option |-> v, split |-> Done, history |-> Absent]
         IN /\ file' = [file EXCEPT !["main"] = imported]
            /\ Become(p, "main", [NewProfile EXCEPT !.map = imported, !.firstInit = TRUE])
    /\ torn' = [torn EXCEPT !["main"] = Absent]
    /\ UNCHANGED pc

(* A file without the section of the options is refused: the player ends.     *)
Accepted == file["main"] # Missing /\ file["main"].option # Absent

(* SetupHistoryStore until its flush: MoveSectionTree and the marker.         *)
SetupHistoryStore(p) ==
    /\ pc[p] = "starting" /\ Accepted
    /\ \E m \in InitIni(store[p]["main"], file["main"]) :
         IF m.map["split"] # Absent
         THEN Become(p, "main", m) /\ GoTo(p, "ready")
         ELSE /\ \E h \in IF m.map["history"] = Absent THEN {store[p]["history"]}
                          ELSE Written(store[p]["history"], file["history"], "history", m.map["history"]) :
                   store' = [store EXCEPT ![p]["history"] = h,
                               ![p]["main"] = [m EXCEPT !.map["history"] = Absent, !.map["split"] = Done,
                                                        !.needFlush = TRUE]]
              /\ GoTo(p, "splitting")
    /\ UNCHANGED <<file, torn>>

FlushSplit(p) == pc[p] = "splitting" /\ Flush(p, "main", TRUE) /\ GoTo(p, "ready")

Ready(p) == pc[p] = "ready" /\ GoTo(p, "running") /\ UNCHANGED <<file, torn, store>>

(* The program reads and writes a setting of either store.                    *)
Use(p, s) ==
    /\ pc[p] = "running"
    /\ \E c \in InitIni(store[p][s], file[s]) : Become(p, s, c)
    /\ UNCHANGED <<file, torn, pc>>

Change(p, s, k, v) ==
    /\ pc[p] = "running"
    /\ \E c \in Written(store[p][s], file[s], k, v) : Become(p, s, c)
    /\ UNCHANGED <<file, torn, pc>>

Write(p) == (\E v \in Values : Change(p, "main", "option", v)) \/ Change(p, "history", "history", Done)

(* OnIdle: FlushProfile flushes the main store, then the history.             *)
FlushMain(p) == pc[p] = "running" /\ Flush(p, "main", FALSE) /\ GoTo(p, "idle")

FlushHistory(p) == pc[p] = "idle" /\ Flush(p, "history", FALSE) /\ GoTo(p, "running")

(* A player started with /reset, when no other one is open; then it goes on.  *)
BeginReset(p) ==
    /\ Resets /\ pc[p] = "ready" /\ \A q \in Players \ {p} : pc[q] = "down"
    /\ Clear(p, "main") /\ GoTo(p, "reset")

SetDefaults(p) ==
    /\ pc[p] = "reset"
    /\ \E v \in Values : \E c \in Written(store[p]["main"], file["main"], "option", v) :
         Become(p, "main", [c EXCEPT !.map["split"] = Done, !.needFlush = TRUE])
    /\ GoTo(p, "defaults")
    /\ UNCHANGED <<file, torn>>

FlushReset(p) == pc[p] = "defaults" /\ Flush(p, "main", TRUE) /\ GoTo(p, "cleared")

EndReset(p) == pc[p] = "cleared" /\ Clear(p, "history") /\ GoTo(p, "running")

(* The player ends, or is killed, in a flush too.                             *)
Stop(p) ==
    /\ pc[p] # "down"
    /\ \/ UNCHANGED file
       \/ \E s \in Stores :
            /\ MustFlush(store[p][s], FALSE)
            /\ \E f \in Torn(file[s], store[p][s].map) : file' = [file EXCEPT ![s] = f]
    /\ torn' = [s \in Stores |-> IF torn[s] = p THEN Absent ELSE torn[s]]
    /\ store' = [store EXCEPT ![p] = [s \in Stores |-> NewProfile]]
    /\ GoTo(p, "down")

Settle(p) ==
    \/ FirstRun(p) \/ SetupHistoryStore(p) \/ FlushSplit(p) \/ Ready(p) \/ FlushMain(p) \/ FlushHistory(p)
    \/ SetDefaults(p) \/ FlushReset(p) \/ EndReset(p)

Next ==
    \E p \in Players :
        \/ Launch(p) \/ Settle(p) \/ Stop(p)
        \/ \E s \in Stores : Use(p, s)
        \/ Write(p) \/ BeginReset(p)

Spec == Init /\ [][Next]_vars

-----------------------------------------------------------------------------
(* Properties.                                                                *)

(* A file that could not be read is never overwritten by the player that      *)
(* could not read it, whatever it changes; only /reset empties it, and the    *)
(* first run replaces a file that is missing or empty.                        *)
UnreadKept ==
    [][\A p \in Players, s \in Stores :
         /\ store[p][s].readFailed /\ \A q \in Players \ {p} : pc[q] = "down"
         /\ pc[p] # "cleared" /\ pc'[p] # "reset" /\ file[s] \notin {Missing, NoSettings}
         => file'[s] = file[s]]_vars

(* A file left half written by a running player is still to be flushed by it, *)
(* until somebody has written it whole.                                       *)
TornIsRetried ==
    \A s \in Stores, p \in Players : torn[s] = p => store[p][s].needFlush

(* A player that has moved the history sees so for the rest of its session:   *)
(* the file that it could not write, or wrote in part, does not get back into *)
(* its store by being read again.  Another player may undo it in the file.    *)
MoveIsKept ==
    \A p \in Players :
        pc[p] \in {"ready", "running", "idle", "defaults", "cleared"} => store[p]["main"].map.split = Done
=============================================================================
