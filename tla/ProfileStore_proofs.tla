---------------------------- MODULE ProfileStore_proofs ----------------------------
(***************************************************************************)
(* Proofs about the settings, for any players and values.  A change counts *)
(* as flushed only when its file was written to the end, and a flush that  *)
(* is forced has a change to flush; so a file that a player left half      *)
(* written is one it still has to write.  While a player is alone, a main  *)
(* store that knows of the split is not read again from a file that does   *)
(* not.                                                                    *)
(***************************************************************************)
EXTENDS ProfileStore, TLAPS

Forced == {"splitting", "defaults"}

(* A store that is flushed at any rate holds a change.                        *)
ForcedInv == \A p \in Players : pc[p] \in Forced => store[p]["main"].needFlush

IInv == TypeOK /\ TornIsRetried /\ ForcedInv

(* What a step of the player p may do without breaking it.                    *)
OwnStep(p) ==
    /\ file' \in [Stores -> Settings \cup {Missing}]
    /\ torn' \in [Stores -> Players \cup {Absent}]
    /\ store'[p] \in [Stores -> Profile] /\ store' = [store EXCEPT ![p] = store'[p]]
    /\ pc'[p] \in PCs /\ pc' = [pc EXCEPT ![p] = pc'[p]]
    /\ \A s \in Stores : torn'[s] = p => store'[p][s].needFlush
    /\ \A s \in Stores : torn'[s] \in {p, Absent, torn[s]}
    /\ pc'[p] \in Forced => store'[p]["main"].needFlush

-----------------------------------------------------------------------------
LEMMA NewIsTyped == NewProfile \in Profile
/\ NoSettings \in Settings
  BY DEF NewProfile, Profile, NoSettings, Settings

LEMMA InitHolds ==
    ASSUME Constants, Init PROVE IInv
  <1>1. ASSUME NEW v \in Values
        PROVE  [option |-> v, split |-> Absent, history |-> Done] \in Settings
    BY DEF Settings
  <1>2. TypeOK
    BY <1>1, NewIsTyped DEF Init, TypeOK, PCs
  <1>3. TornIsRetried /\ ForcedInv
    BY DEF Constants, Init, TornIsRetried, ForcedInv, Forced
  <1> QED BY <1>2, <1>3 DEF IInv

LEMMA OwnStepKeeps ==
    ASSUME Constants, IInv, NEW p \in Players, OwnStep(p)
    PROVE  IInv'
  <1>1. \A q \in Players : q # p => store'[q] = store[q] /\ pc'[q] = pc[q]
    BY DEF OwnStep, IInv, TypeOK
  <1>2. TypeOK'
    BY DEF OwnStep, IInv, TypeOK
  <1>3. TornIsRetried'
    BY <1>1 DEF OwnStep, IInv, TypeOK, TornIsRetried, Constants
  <1>4. ForcedInv'
    BY <1>1 DEF OwnStep, IInv, ForcedInv
  <1> QED BY <1>2, <1>3, <1>4 DEF IInv

(* Reading a store keeps what is to be flushed ...                            *)
LEMMA InitIniKeeps ==
    ASSUME NEW c \in Profile, NEW content \in Settings \cup {Missing},
           NEW d \in InitIni(c, content)
    PROVE  d \in Profile /\ d.needFlush = c.needFlush
  BY DEF InitIni, Profile

(* ... and so does writing to it.                                             *)
LEMMA WrittenKeeps ==
    ASSUME NEW c \in Profile, NEW content \in Settings \cup {Missing},
           NEW k \in Keys, NEW v,
           (k = "option" /\ v \in Values) \/ (k = "history" /\ v \in {Done, Absent}),
           NEW e \in Written(c, content, k, v)
    PROVE  e \in Profile /\ (c.needFlush => e.needFlush)
  <1>1. PICK d \in InitIni(c, content) :
          e = [d EXCEPT !.map[k] = v, !.needFlush = @ \/ d.map[k] # v]
    BY DEF Written
  <1>2. d \in Profile /\ d.needFlush = c.needFlush
    BY <1>1, InitIniKeeps
  <1>3. d.needFlush \in BOOLEAN /\ d.map \in Settings
    BY <1>2 DEF Profile
  <1>4. (d.needFlush \/ d.map[k] # v) \in BOOLEAN
    OBVIOUS
  <1>5. [d.map EXCEPT ![k] = v] \in Settings
    BY <1>3 DEF Settings, Keys
  <1> QED BY <1>1, <1>2, <1>4, <1>5 DEF Profile

LEMMA TornIsTyped ==
    ASSUME NEW old \in Settings \cup {Missing}, NEW new \in Settings
    PROVE  Torn(old, new) \subseteq Settings
  BY DEF Torn, Settings, NoSettings

(* A flush, forced only when there is a change.                               *)
LEMMA FlushIsOwn ==
    ASSUME Constants, IInv, NEW p \in Players, NEW s \in Stores,
           NEW force \in BOOLEAN, NEW l \in PCs \ Forced,
           force => store[p][s].needFlush, Flush(p, s, force), GoTo(p, l)
    PROVE  OwnStep(p)
  <1>1. /\ store \in [Players -> [Stores -> Profile]]
        /\ store[p] \in [Stores -> Profile]
        /\ store[p][s] \in Profile /\ file[s] \in Settings \cup {Missing}
        /\ store[p][s].map \in Settings
        /\ file \in [Stores -> Settings \cup {Missing}]
        /\ torn \in [Stores -> Players \cup {Absent}]
        /\ \A r \in Stores : torn[r] = p => store[p][r].needFlush
    BY DEF IInv, TypeOK, Profile, TornIsRetried
  <1>2. pc'[p] = l /\ pc' = [pc EXCEPT ![p] = l]
    BY DEF GoTo, IInv, TypeOK
  <1>3. CASE UNCHANGED <<file, torn, store>>
    BY <1>1, <1>2, <1>3 DEF OwnStep
  <1>4. CASE MustFlush(store[p][s], force)
    <2>1. store[p][s].needFlush
      BY <1>4 DEF MustFlush
    <2>2. CASE /\ file' = [file EXCEPT ![s] = store[p][s].map] /\ torn' = [torn EXCEPT ![s] = Absent]
               /\ Become(p, s, [store[p][s] EXCEPT !.needFlush = FALSE])
      <3> DEFINE c == [store[p][s] EXCEPT !.needFlush = FALSE]
      <3>1. c \in Profile
        BY <1>1 DEF Profile
      <3>2. store'[p] = [store[p] EXCEPT ![s] = c] /\ store' = [store EXCEPT ![p] = store'[p]]
        BY <1>1, <2>2 DEF Become
      <3>3. Absent # p
        BY DEF Constants
      <3> HIDE DEF c
      <3> QED BY <1>1, <1>2, <2>2, <3>1, <3>2, <3>3 DEF OwnStep
    <2>3. CASE /\ \E f \in Torn(file[s], store[p][s].map) : file' = [file EXCEPT ![s] = f]
               /\ torn' = [torn EXCEPT ![s] = p]
               /\ UNCHANGED store
      <3>1. PICK f \in Torn(file[s], store[p][s].map) : file' = [file EXCEPT ![s] = f]
        BY <2>3
      <3>2. f \in Settings
        BY <1>1, <3>1, TornIsTyped
      <3> QED BY <1>1, <1>2, <2>1, <2>3, <3>1, <3>2 DEF OwnStep
    <2> QED BY <1>3, <1>4, <2>2, <2>3 DEF Flush
  <1> QED BY <1>3, <1>4 DEF Flush

(* /reset empties a store together with its file.                             *)
LEMMA ClearIsOwn ==
    ASSUME Constants, IInv, NEW p \in Players, NEW s \in Stores,
           NEW l \in PCs \ Forced, Clear(p, s), GoTo(p, l)
    PROVE  OwnStep(p)
  <1> DEFINE c == [store[p][s] EXCEPT !.map = NoSettings, !.needFlush = FALSE]
  <1>1. /\ store \in [Players -> [Stores -> Profile]]
        /\ store[p] \in [Stores -> Profile]
        /\ store[p][s] \in Profile
        /\ file \in [Stores -> Settings \cup {Missing}]
        /\ torn \in [Stores -> Players \cup {Absent}]
        /\ \A r \in Stores : torn[r] = p => store[p][r].needFlush
    BY DEF IInv, TypeOK, TornIsRetried
  <1>2. pc'[p] = l /\ pc' = [pc EXCEPT ![p] = l]
    BY DEF GoTo, IInv, TypeOK
  <1>3. c \in Profile
    BY <1>1, NewIsTyped DEF Profile
  <1>4. store'[p] = [store[p] EXCEPT ![s] = c] /\ store' = [store EXCEPT ![p] = store'[p]]
    BY <1>1 DEF Clear, Become
  <1>5. torn' = [torn EXCEPT ![s] = Absent]
        /\ file' \in [Stores -> Settings \cup {Missing}]
    BY <1>1, NewIsTyped DEF Clear
  <1>6. Absent # p
    BY DEF Constants
  <1> HIDE DEF c
  <1> QED BY <1>1, <1>2, <1>3, <1>4, <1>5, <1>6 DEF OwnStep

(* A step that only replaces the stores of the player, losing no change.      *)
LEMMA StoreIsOwn ==
    ASSUME Constants, IInv, NEW p \in Players,
           NEW st \in [Stores -> Profile], NEW l \in PCs,
           store' = [store EXCEPT ![p] = st], GoTo(p, l), UNCHANGED <<file, torn>>,
           \A s \in Stores : store[p][s].needFlush => st[s].needFlush,
           l \in Forced => st["main"].needFlush
    PROVE  OwnStep(p)
  BY DEF OwnStep, GoTo, IInv, TypeOK, TornIsRetried

(* The invariant is inductive.                                                *)
LEMMA NextKeeps ==
    ASSUME Constants, IInv, [Next]_(vars) PROVE IInv'
  <1>1. ASSUME NEW p \in Players,
               \/ Launch(p) \/ Settle(p) \/ Stop(p)
               \/ \E s \in Stores : Use(p, s)
               \/ Write(p) \/ BeginReset(p)
        PROVE  OwnStep(p)
    <2> USE DEF Forced
    <2>1. /\ store \in [Players -> [Stores -> Profile]]
          /\ store[p] \in [Stores -> Profile]
          /\ file \in [Stores -> Settings \cup {Missing}]
          /\ torn \in [Stores -> Players \cup {Absent}]
          /\ pc \in [Players -> PCs] /\ pc[p] \in PCs
          /\ \A s \in Stores :
                store[p][s] \in Profile /\ file[s] \in Settings \cup {Missing}
          /\ \A s \in Stores : torn[s] = p => store[p][s].needFlush
          /\ "main" \in Stores /\ "history" \in Stores
      BY DEF IInv, TypeOK, TornIsRetried, Stores
    <2>2. CASE Launch(p)
      <3>1. PICK c \in InitIni(store[p]["main"], file["main"]) : Become(p, "main", c)
        BY <2>2 DEF Launch
      <3>2. c \in Profile /\ c.needFlush = store[p]["main"].needFlush
        BY <2>1, <3>1, InitIniKeeps
      <3> DEFINE st == [store[p] EXCEPT !["main"] = c]
      <3>3. st \in [Stores -> Profile]
            /\ \A s \in Stores : store[p][s].needFlush => st[s].needFlush
        BY <2>1, <3>2
      <3>4. store' = [store EXCEPT ![p] = st] /\ GoTo(p, "starting") /\ UNCHANGED <<file, torn>>
        BY <2>1, <2>2, <3>1 DEF Launch, Become
      <3> HIDE DEF st
      <3> QED BY <3>3, <3>4, StoreIsOwn DEF PCs
    <2>3. CASE FirstRun(p)
      <3>1. PICK v \in Values :
              LET imported == [option |-> v, split |-> Done, history |-> Absent]
              IN /\ file' = [file EXCEPT !["main"] = imported]
                 /\ Become(p, "main", [NewProfile EXCEPT !.map = imported,
                                                !.firstInit = TRUE])
        BY <2>3 DEF FirstRun
      <3> DEFINE imported == [option |-> v, split |-> Done, history |-> Absent]
                 c == [NewProfile EXCEPT !.map = imported, !.firstInit = TRUE]
      <3>2. imported \in Settings
        BY DEF Settings
      <3>3. c \in Profile
        BY <3>2, NewIsTyped DEF Profile
      <3>4. /\ file' = [file EXCEPT !["main"] = imported]
            /\ store'[p] = [store[p] EXCEPT !["main"] = c] /\ store' = [store EXCEPT ![p] = store'[p]]
            /\ torn' = [torn EXCEPT !["main"] = Absent] /\ pc' = pc /\ pc[p] = "starting"
        BY <2>1, <2>3, <3>1 DEF FirstRun, Become
      <3>5. Absent # p
        BY DEF Constants
      <3> HIDE DEF imported, c
      <3> QED BY <2>1, <3>2, <3>3, <3>4, <3>5 DEF OwnStep
    <2>4. CASE SetupHistoryStore(p)
      <3>1. PICK m \in InitIni(store[p]["main"], file["main"]) :
         IF m.map["split"] # Absent
         THEN Become(p, "main", m) /\ GoTo(p, "ready")
         ELSE /\ \E h \in IF m.map["history"] = Absent THEN {store[p]["history"]}
                          ELSE Written(store[p]["history"], file["history"], "history",
                                                m.map["history"]) :
                   store' = [store EXCEPT ![p]["history"] = h,
                               ![p]["main"] = [m EXCEPT !.map["history"] = Absent, !.map["split"] = Done,
                                                        !.needFlush = TRUE]]
              /\ GoTo(p, "splitting")
        BY <2>4 DEF SetupHistoryStore
      <3>2. m \in Profile /\ m.needFlush = store[p]["main"].needFlush
        BY <2>1, <3>1, InitIniKeeps
      <3>3. UNCHANGED <<file, torn>>
        BY <2>4 DEF SetupHistoryStore
      <3>4. CASE m.map["split"] # Absent
        <4> DEFINE st == [store[p] EXCEPT !["main"] = m]
        <4>1. st \in [Stores -> Profile]
              /\ \A s \in Stores : store[p][s].needFlush => st[s].needFlush
          BY <2>1, <3>2
        <4>2. store' = [store EXCEPT ![p] = st] /\ GoTo(p, "ready")
          BY <2>1, <3>1, <3>4 DEF Become
        <4> HIDE DEF st
        <4> QED BY <3>3, <4>1, <4>2, StoreIsOwn DEF PCs
      <3>5. CASE m.map["split"] = Absent
        <4> DEFINE n == [m EXCEPT !.map["history"] = Absent, !.map["split"] = Done, !.needFlush = TRUE]
        <4>1. PICK h \in IF m.map["history"] = Absent THEN {store[p]["history"]}
                          ELSE Written(store[p]["history"], file["history"], "history",
                                                m.map["history"]) :
                   store' = [store EXCEPT ![p]["history"] = h, ![p]["main"] = n]
          BY <3>1, <3>5
        <4>2. m.map["history"] \in {Done, Absent}
          BY <3>2 DEF Profile, Settings
        <4>3. h \in Profile /\ (store[p]["history"].needFlush => h.needFlush)
          <5>1. CASE m.map["history"] = Absent
            BY <2>1, <4>1, <5>1
          <5>2. CASE m.map["history"] # Absent
            <6>1. h \in Written(store[p]["history"], file["history"], "history", m.map["history"])
              BY <4>1, <5>2
            <6> QED BY <2>1, <4>2, <6>1, WrittenKeeps DEF Keys
          <5> QED BY <5>1, <5>2
        <4>4. n \in Profile /\ n.needFlush
          BY <3>2 DEF Profile, Settings
        <4> HIDE DEF n
        <4> DEFINE st == [store[p] EXCEPT !["history"] = h, !["main"] = n]
        <4>5. st \in [Stores -> Profile] /\ st["main"] = n
              /\ \A s \in Stores : store[p][s].needFlush => st[s].needFlush
          BY <2>1, <4>3, <4>4 DEF Stores
        <4>6. store' = [store EXCEPT ![p] = st]
          BY <2>1, <4>1
        <4>7. GoTo(p, "splitting")
          BY <3>1, <3>5
        <4> HIDE DEF st
        <4> QED BY <3>3, <4>4, <4>5, <4>6, <4>7, StoreIsOwn DEF PCs
      <3> QED BY <3>4, <3>5
    <2>5. CASE FlushSplit(p)
      BY <2>1, <2>5, FlushIsOwn DEF FlushSplit, IInv, ForcedInv, PCs
    <2>6. CASE Ready(p)
      BY <2>1, <2>6, StoreIsOwn DEF Ready, PCs
    <2>7. CASE FlushMain(p)
      BY <2>1, <2>7, FlushIsOwn DEF FlushMain, PCs
    <2>8. CASE FlushHistory(p)
      BY <2>1, <2>8, FlushIsOwn DEF FlushHistory, PCs
    <2>9. CASE SetDefaults(p)
      <3>1. PICK v \in Values : \E c \in Written(store[p]["main"], file["main"], "option", v) :
              Become(p, "main", [c EXCEPT !.map["split"] = Done, !.needFlush = TRUE])
        BY <2>9 DEF SetDefaults
      <3>2. PICK c \in Written(store[p]["main"], file["main"], "option", v) :
              Become(p, "main", [c EXCEPT !.map["split"] = Done, !.needFlush = TRUE])
        BY <3>1
      <3>3. c \in Profile
        BY <2>1, <3>2, WrittenKeeps DEF Keys
      <3> DEFINE d == [c EXCEPT !.map["split"] = Done, !.needFlush = TRUE]
                 st == [store[p] EXCEPT !["main"] = d]
      <3>4. d \in Profile /\ d.needFlush
        BY <3>3 DEF Profile, Settings
      <3>5. store' = [store EXCEPT ![p] = st] /\ GoTo(p, "defaults") /\ UNCHANGED <<file, torn>>
        BY <2>1, <2>9, <3>2 DEF SetDefaults, Become
      <3> HIDE DEF d
      <3>6. st \in [Stores -> Profile] /\ st["main"] = d
            /\ \A s \in Stores : store[p][s].needFlush => st[s].needFlush
        BY <2>1, <3>4
      <3> HIDE DEF st
      <3> QED BY <3>4, <3>5, <3>6, StoreIsOwn DEF PCs
    <2>10. CASE FlushReset(p)
      BY <2>1, <2>10, FlushIsOwn DEF FlushReset, IInv, ForcedInv, PCs
    <2>11. CASE EndReset(p)
      BY <2>1, <2>11, ClearIsOwn DEF EndReset, PCs
    <2>12. CASE Stop(p)
      <3>1. /\ store'[p] = [s \in Stores |-> NewProfile]
            /\ store' = [store EXCEPT ![p] = store'[p]]
            /\ pc'[p] = "down" /\ pc' = [pc EXCEPT ![p] = pc'[p]]
            /\ torn' = [s \in Stores |-> IF torn[s] = p THEN Absent ELSE torn[s]]
        BY <2>1, <2>12 DEF Stop, GoTo
      <3>2. file' \in [Stores -> Settings \cup {Missing}]
        <4>1. CASE UNCHANGED file
          BY <2>1, <4>1
        <4>2. CASE \E s \in Stores :
                     \E f \in Torn(file[s], store[p][s].map) : file' = [file EXCEPT ![s] = f]
          <5>1. PICK s \in Stores :
                     \E f \in Torn(file[s], store[p][s].map) : file' = [file EXCEPT ![s] = f]
            BY <4>2
          <5>2. PICK f \in Torn(file[s], store[p][s].map) : file' = [file EXCEPT ![s] = f]
            BY <5>1
          <5>3. store[p][s].map \in Settings
            BY <2>1 DEF Profile
          <5>4. f \in Settings
            BY <2>1, <5>2, <5>3, TornIsTyped
          <5> QED BY <2>1, <5>2, <5>4
        <4> QED BY <2>12, <4>1, <4>2 DEF Stop
      <3>3. Absent # p
        BY DEF Constants
      <3> QED BY <2>1, <3>1, <3>2, <3>3, NewIsTyped DEF OwnStep, PCs
    <2>13. ASSUME NEW s \in Stores, Use(p, s) PROVE OwnStep(p)
      <3>1. PICK c \in InitIni(store[p][s], file[s]) : Become(p, s, c)
        BY <2>13 DEF Use
      <3>2. c \in Profile /\ c.needFlush = store[p][s].needFlush
        BY <2>1, <3>1, InitIniKeeps
      <3> DEFINE st == [store[p] EXCEPT ![s] = c]
      <3>3. st \in [Stores -> Profile]
            /\ \A r \in Stores : store[p][r].needFlush => st[r].needFlush
        BY <2>1, <3>2
      <3>4. store' = [store EXCEPT ![p] = st] /\ GoTo(p, "running") /\ UNCHANGED <<file, torn>>
        BY <2>1, <2>13, <3>1 DEF Use, Become, GoTo
      <3> HIDE DEF st
      <3> QED BY <3>3, <3>4, StoreIsOwn DEF PCs
    <2>14. ASSUME NEW s \in Stores, NEW k \in Keys, NEW v,
                  Change(p, s, k, v),
                  (k = "option" /\ v \in Values) \/ (k = "history" /\ v \in {Done, Absent})
           PROVE  OwnStep(p)
      <3>1. PICK c \in Written(store[p][s], file[s], k, v) : Become(p, s, c)
        BY <2>14 DEF Change
      <3>2. c \in Profile /\ (store[p][s].needFlush => c.needFlush)
        BY <2>1, <2>14, <3>1, WrittenKeeps
      <3> DEFINE st == [store[p] EXCEPT ![s] = c]
      <3>3. st \in [Stores -> Profile]
            /\ \A r \in Stores : store[p][r].needFlush => st[r].needFlush
        BY <2>1, <3>2
      <3>4. store' = [store EXCEPT ![p] = st] /\ GoTo(p, "running") /\ UNCHANGED <<file, torn>>
        BY <2>1, <2>14, <3>1 DEF Change, Become, GoTo
      <3> HIDE DEF st
      <3> QED BY <3>3, <3>4, StoreIsOwn DEF PCs
    <2>15. CASE Write(p)
      BY <2>1, <2>14, <2>15 DEF Write, Keys
    <2>16. CASE BeginReset(p)
      BY <2>1, <2>16, ClearIsOwn DEF BeginReset, PCs
    <2> QED BY <1>1, <2>2, <2>3, <2>4, <2>5, <2>6, <2>7, <2>8, <2>9, <2>10, <2>11, <2>12, <2>13, <2>15,
       <2>16
            DEF Settle
  <1>2. CASE UNCHANGED vars
    BY <1>2 DEF vars, IInv, TypeOK, TornIsRetried, ForcedInv
  <1> QED BY <1>1, <1>2, OwnStepKeeps DEF Next

-----------------------------------------------------------------------------
(* A player that could not read a file, while it is alone.                    *)
Unread(p, s) ==
    /\ store[p][s].readFailed /\ \A q \in Players \ {p} : pc[q] = "down"
    /\ pc[p] # "cleared" /\ file[s] \notin {Missing, NoSettings}

LEMMA UnreadStep ==
    ASSUME IInv, Next, NEW p \in Players, NEW s \in Stores, Unread(p, s), pc'[p] # "reset"
    PROVE  file'[s] = file[s]
  <1>1. /\ store[p][s].readFailed /\ \A q \in Players \ {p} : pc[q] = "down"
        /\ pc[p] # "cleared" /\ file[s] \notin {Missing, NoSettings}
    BY DEF Unread
  <1>2. /\ file \in [Stores -> Settings \cup {Missing}] /\ pc \in [Players -> PCs]
        /\ "main" \in Stores /\ "history" \in Stores
    BY DEF IInv, TypeOK, Stores
  <1>3. PICK q \in Players :
          \/ Launch(q) \/ Settle(q) \/ Stop(q)
          \/ \E r \in Stores : Use(q, r)
          \/ Write(q) \/ BeginReset(q)
    BY DEF Next
  <1>4. CASE q # p
    <2>1. pc[q] = "down"
      BY <1>1, <1>4
    <2>2. UNCHANGED file
      BY <1>3, <2>1 DEF Launch, Settle, FirstRun, SetupHistoryStore,
           FlushSplit, Ready, FlushMain, FlushHistory,
           SetDefaults, FlushReset, EndReset, Stop, Use,
           Write, Change, BeginReset
    <2> QED BY <2>2
  <1>5. CASE q = p
    <2>1. ASSUME NEW r \in Stores, NEW force, Flush(p, r, force) PROVE file'[s] = file[s]
      <3>1. CASE r = s
        BY <1>1, <2>1, <3>1 DEF Flush, MustFlush
      <3>2. CASE r # s
        BY <1>2, <2>1, <3>2 DEF Flush
      <3> QED BY <3>1, <3>2
    <2>2. CASE FirstRun(p)
      BY <1>1, <1>2, <2>2 DEF FirstRun
    <2>3. CASE \/ FlushSplit(p) \/ FlushMain(p)
               \/ FlushHistory(p) \/ FlushReset(p)
      BY <1>2, <2>1, <2>3
         DEF FlushSplit, FlushMain, FlushHistory, FlushReset
    <2>4. CASE Stop(p)
      <3>1. CASE UNCHANGED file
        BY <3>1
      <3>2. CASE \E r \in Stores :
                   /\ MustFlush(store[p][r], FALSE)
                   /\ \E f \in Torn(file[r], store[p][r].map) : file' = [file EXCEPT ![r] = f]
        <4>1. PICK r \in Stores :
                   /\ MustFlush(store[p][r], FALSE)
                   /\ \E f \in Torn(file[r], store[p][r].map) : file' = [file EXCEPT ![r] = f]
          BY <3>2
        <4>2. r # s
          BY <1>1, <4>1 DEF MustFlush
        <4> QED BY <1>2, <4>1, <4>2
      <3> QED BY <2>4, <3>1, <3>2 DEF Stop
    <2>5. CASE EndReset(p)
      BY <1>1, <2>5 DEF EndReset
    <2>6. CASE BeginReset(p)
      BY <1>2, <2>6 DEF BeginReset, GoTo
    <2>7. CASE \/ Launch(p) \/ SetupHistoryStore(p) \/ Ready(p)
               \/ SetDefaults(p)
               \/ \E r \in Stores : Use(p, r)
               \/ Write(p)
      BY <2>7 DEF Launch, SetupHistoryStore, Ready, SetDefaults,
                  Use, Write, Change
    <2> QED BY <1>3, <1>5, <2>2, <2>3, <2>4, <2>5, <2>6, <2>7 DEF Settle
  <1> QED BY <1>4, <1>5

-----------------------------------------------------------------------------
LEMMA Invariant == ASSUME Constants PROVE Spec => []IInv
  <1>1. Init => IInv
    BY InitHolds
  <1>2. IInv /\ [Next]_vars => IInv'
    BY NextKeeps
  <1> QED BY <1>1, <1>2, PTL DEF Spec

(* What a file holds is always settings, however many writings stopped        *)
(* halfway (CProfile::Flush).                                                 *)
THEOREM TypeCorrect == ASSUME Constants PROVE Spec => []TypeOK
  <1>1. IInv => TypeOK
    BY DEF IInv
  <1> QED BY <1>1, Invariant, PTL

(* A file that a running player left half written is still to be flushed by   *)
(* it, through the split of the history and a reset too (CProfile::Flush,     *)
(* SetupHistoryStore).                                                        *)
THEOREM TornAreRetried == ASSUME Constants PROVE Spec => []TornIsRetried
  <1>1. IInv => TornIsRetried
    BY DEF IInv
  <1> QED BY <1>1, Invariant, PTL

(* A player that could not read a file does not overwrite it, whatever it     *)
(* changes and however it ends, while no other player runs: none of its       *)
(* flushes writes, and the first run replaces only a file that is missing or  *)
(* empty (CProfile::Flush, InitIni).                                          *)
THEOREM UnreadAreKept == ASSUME Constants PROVE Spec => UnreadKept
  <1> DEFINE Kept == \A p \in Players, s \in Stores :
                       /\ store[p][s].readFailed /\ \A q \in Players \ {p} : pc[q] = "down"
                       /\ pc[p] # "cleared" /\ pc'[p] # "reset" /\ file[s] \notin {Missing, NoSettings}
                       => file'[s] = file[s]
  <1>1. IInv /\ [Next]_vars => [Kept]_vars
    BY UnreadStep DEF Unread
  <1> QED BY <1>1, Invariant, PTL DEF Spec, UnreadKept
-----------------------------------------------------------------------------
(* One player alone.  Moved: where it has moved the history.                  *)
Moved == {"splitting", "ready", "running", "idle", "defaults", "cleared"}

(* What a main store m and its file f are when the player is at l: the store  *)
(* was read or gave up; it knows of the split where it should; and then the   *)
(* file says so too, or the store is to be flushed, or is never read again.   *)
Keeps(l, m, f) ==
    /\ IF l = "down" THEN m.map.split = Absent ELSE m.firstInit \/ m.readFailed
    /\ l \in Moved => m.map.split = Done
    /\ l # "reset" /\ m.map.split = Done => f.split = Done \/ m.needFlush \/ m.readFailed

MoveInv == \A p \in Players : Keeps(pc[p], store[p]["main"], file["main"])

(* A store that is read again has no change, so its file knows of the split.  *)
LEMMA InitIniKeepsMove ==
    ASSUME Constants, NEW c \in Profile, NEW content \in Settings \cup {Missing},
           NEW d \in InitIni(c, content), NEW l, Keeps(l, c, content)
    PROVE  /\ d.firstInit \/ d.readFailed
           /\ l \in Moved => d.map.split = Done
           /\ l # "reset" /\ d.map.split = Done => content.split = Done \/ d.needFlush \/ d.readFailed
  <1>1. CASE d = c /\ (c.readFailed \/ (c.firstInit /\ c.needFlush))
    BY <1>1 DEF Keeps
  <1>2. CASE d = [c EXCEPT !.firstInit = TRUE]
    <2>1. d.firstInit /\ d.map = c.map /\ d.needFlush = c.needFlush /\ d.readFailed = c.readFailed
      BY <1>2 DEF Profile
    <2> QED BY <2>1 DEF Keeps, Constants
  <1>3. CASE /\ ~c.readFailed /\ ~(c.firstInit /\ c.needFlush)
             /\ d = [c EXCEPT !.map = content, !.firstInit = TRUE]
    <2>1. d.firstInit /\ d.map = content
      BY <1>3 DEF Profile
    <2>2. l \in Moved => content.split = Done
      BY <1>3 DEF Keeps, Moved
    <2> QED BY <2>1, <2>2
  <1>4. CASE ~c.readFailed /\ d = [c EXCEPT !.readFailed = ~c.firstInit]
    <2>1. d.firstInit = c.firstInit /\ d.map = c.map /\ d.needFlush = c.needFlush /\ d.readFailed = ~c.firstInit
      BY <1>4 DEF Profile
    <2>2. c.firstInit \in BOOLEAN
      BY DEF Profile
    <2> QED BY <1>4, <2>1, <2>2 DEF Keeps, Constants
  <1> QED BY <1>1, <1>2, <1>3, <1>4 DEF InitIni

(* Writing a setting other than the marker is no different.                   *)
LEMMA WrittenKeepsMove ==
    ASSUME Constants, NEW c \in Profile, NEW content \in Settings \cup {Missing}, NEW k \in {"option", "history"},
           NEW v, NEW e \in Written(c, content, k, v), NEW l, Keeps(l, c, content)
    PROVE  /\ e.firstInit \/ e.readFailed
           /\ l \in Moved => e.map.split = Done
           /\ l # "reset" /\ e.map.split = Done => content.split = Done \/ e.needFlush \/ e.readFailed
  <1>1. PICK d \in InitIni(c, content) :
          e = [d EXCEPT !.map[k] = v, !.needFlush = @ \/ d.map[k] # v]
    BY DEF Written
  <1>2. d \in Profile
    BY <1>1, InitIniKeeps
  <1>3. /\ e.firstInit = d.firstInit /\ e.readFailed = d.readFailed
        /\ e.map = [d.map EXCEPT ![k] = v] /\ e.needFlush = (d.needFlush \/ d.map[k] # v)
    BY <1>1, <1>2 DEF Profile
  <1>4. e.map.split = d.map.split
    BY <1>2, <1>3 DEF Profile, Settings
  <1>5. /\ d.firstInit \/ d.readFailed
        /\ l \in Moved => d.map.split = Done
        /\ l # "reset" /\ d.map.split = Done => content.split = Done \/ d.needFlush \/ d.readFailed
    BY InitIniKeepsMove
  <1>6. d.needFlush => e.needFlush
    BY <1>3
  <1> QED BY <1>3, <1>4, <1>5, <1>6

(* A flush loses a change only to the file.                                   *)
LEMMA FlushKeepsMove ==
    ASSUME Constants, IInv, NEW p \in Players, NEW s \in Stores, NEW force \in BOOLEAN,
           force => s = "main" /\ store[p]["main"].needFlush, Flush(p, s, force), NEW l,
           l \notin {"down", "reset"}, pc[p] \notin {"down", "reset"}, l \in Moved => pc[p] \in Moved,
           Keeps(pc[p], store[p]["main"], file["main"])
    PROVE  Keeps(l, store'[p]["main"], file'["main"])
  <1>1. /\ store \in [Players -> [Stores -> Profile]] /\ store[p] \in [Stores -> Profile]
        /\ "main" \in Stores /\ store[p]["main"] \in Profile /\ store[p][s] \in Profile
        /\ file \in [Stores -> Settings \cup {Missing}]
    BY DEF IInv, TypeOK, Stores
  <1>2. CASE UNCHANGED <<file, torn, store>>
    BY <1>2 DEF Keeps
  <1>3. CASE s # "main"
    <2>1. ~force
      BY <1>3
    <2>2. file'["main"] = file["main"] /\ store'[p]["main"] = store[p]["main"]
      BY <1>1, <1>3 DEF Flush, Become
    <2> QED BY <2>2 DEF Keeps
  <1>4. CASE s = "main" /\ MustFlush(store[p]["main"], force)
    <2>1. store[p]["main"].needFlush
      BY <1>4 DEF MustFlush
    <2>2. CASE /\ file' = [file EXCEPT ![s] = store[p][s].map]
               /\ Become(p, s, [store[p][s] EXCEPT !.needFlush = FALSE])
      <3>1. file'["main"] = store[p]["main"].map
            /\ store'[p]["main"] = [store[p]["main"] EXCEPT !.needFlush = FALSE]
        BY <1>1, <1>4, <2>2 DEF Become
      <3>2. /\ store'[p]["main"].map = store[p]["main"].map
            /\ store'[p]["main"].firstInit = store[p]["main"].firstInit
            /\ store'[p]["main"].readFailed = store[p]["main"].readFailed
        BY <1>1, <3>1 DEF Profile
      <3> QED BY <3>1, <3>2 DEF Keeps
    <2>3. CASE UNCHANGED store
      BY <2>1, <2>3 DEF Keeps
    <2> QED BY <1>2, <1>4, <2>2, <2>3 DEF Flush
  <1> QED BY <1>2, <1>3, <1>4 DEF Flush

(* No step of a player that is alone undoes the move.                         *)
LEMMA MoveStays ==
    ASSUME Constants, IInv, MoveInv, \A p, q \in Players : p = q, [Next]_vars
    PROVE  MoveInv'
  <1>1. CASE UNCHANGED vars
    BY <1>1 DEF vars, MoveInv
  <1>2. ASSUME NEW p \in Players,
               \/ Launch(p) \/ Settle(p) \/ Stop(p)
               \/ \E s \in Stores : Use(p, s)
               \/ Write(p) \/ BeginReset(p)
        PROVE  Keeps(pc'[p], store'[p]["main"], file'["main"])
    <2> DEFINE c == store[p]["main"]
               f == file["main"]
               l == pc[p]
    <2>1. /\ store \in [Players -> [Stores -> Profile]] /\ store[p] \in [Stores -> Profile]
          /\ "main" \in Stores /\ "history" \in Stores /\ c \in Profile
          /\ file \in [Stores -> Settings \cup {Missing}] /\ f \in Settings \cup {Missing}
          /\ pc \in [Players -> PCs] /\ Keeps(l, c, f)
      BY DEF IInv, TypeOK, Stores, MoveInv
    <2>2. ASSUME NEW k, GoTo(p, k) PROVE pc'[p] = k
      BY <2>1, <2>2 DEF GoTo
    <2>3. ASSUME NEW s \in Stores, NEW d, Become(p, s, d)
          PROVE  store'[p]["main"] = IF s = "main" THEN d ELSE c
      BY <2>1, <2>3 DEF Become
    <2>4. l # "reset" => \A d \in InitIni(c, f) :
              /\ d.firstInit \/ d.readFailed
              /\ l \in Moved => d.map.split = Done
              /\ d.map.split = Done => f.split = Done \/ d.needFlush \/ d.readFailed
      BY <2>1, InitIniKeepsMove
    <2>5. ASSUME NEW d, NEW k, k # "down", d.firstInit \/ d.readFailed, k \in Moved => d.map.split = Done,
                 d.map.split = Done => f.split = Done \/ d.needFlush \/ d.readFailed,
                 pc'[p] = k, store'[p]["main"] = d, file'["main"] = f
          PROVE  Keeps(pc'[p], store'[p]["main"], file'["main"])
      BY <2>5 DEF Keeps
    <2>6. CASE Launch(p)
      <3>1. PICK d \in InitIni(c, f) : Become(p, "main", d)
        BY <2>6 DEF Launch
      <3>2. l = "down" /\ pc'[p] = "starting" /\ file' = file /\ store'[p]["main"] = d
        BY <2>1, <2>2, <2>3, <2>6, <3>1 DEF Launch
      <3> QED BY <2>4, <2>5, <3>1, <3>2 DEF Moved
    <2>7. CASE FirstRun(p)
      <3>1. PICK v \in Values :
              LET imported == [option |-> v, split |-> Done, history |-> Absent]
              IN /\ file' = [file EXCEPT !["main"] = imported]
                 /\ Become(p, "main", [NewProfile EXCEPT !.map = imported, !.firstInit = TRUE])
        BY <2>7 DEF FirstRun
      <3> DEFINE imported == [option |-> v, split |-> Done, history |-> Absent]
                 d == [NewProfile EXCEPT !.map = imported, !.firstInit = TRUE]
      <3>2. file'["main"] = imported /\ store'[p]["main"] = d /\ pc'[p] = "starting"
        BY <2>1, <2>3, <2>7, <3>1 DEF FirstRun
      <3>3. imported.split = Done /\ d.map = imported /\ d.firstInit
        BY DEF NewProfile
      <3> HIDE DEF imported, d
      <3> QED BY <3>2, <3>3 DEF Keeps
    <2>8. CASE SetupHistoryStore(p)
      <3>1. PICK m \in InitIni(c, f) :
         IF m.map["split"] # Absent
         THEN Become(p, "main", m) /\ GoTo(p, "ready")
         ELSE /\ \E h \in IF m.map["history"] = Absent THEN {store[p]["history"]}
                          ELSE Written(store[p]["history"], file["history"], "history",
                                                m.map["history"]) :
                   store' = [store EXCEPT ![p]["history"] = h,
                               ![p]["main"] = [m EXCEPT !.map["history"] = Absent, !.map["split"] = Done,
                                                        !.needFlush = TRUE]]
              /\ GoTo(p, "splitting")
        BY <2>8 DEF SetupHistoryStore
      <3>2. m \in Profile /\ l = "starting" /\ file' = file
        BY <2>1, <2>8, <3>1, InitIniKeeps DEF SetupHistoryStore
      <3>3. CASE m.map["split"] # Absent
        <4>1. pc'[p] = "ready" /\ store'[p]["main"] = m
          BY <2>1, <2>2, <2>3, <3>1, <3>3
        <4>2. m.map.split = Done
          BY <3>2, <3>3 DEF Profile, Settings
        <4> QED BY <2>4, <2>5, <3>1, <3>2, <4>1, <4>2
      <3>4. CASE m.map["split"] = Absent
        <4> DEFINE n == [m EXCEPT !.map["history"] = Absent, !.map["split"] = Done, !.needFlush = TRUE]
        <4>1. PICK h \in IF m.map["history"] = Absent THEN {store[p]["history"]}
                          ELSE Written(store[p]["history"], file["history"], "history",
                                                m.map["history"]) :
                   store' = [store EXCEPT ![p]["history"] = h, ![p]["main"] = n]
          BY <3>1, <3>4
        <4>2. pc'[p] = "splitting"
          BY <2>2, <3>1, <3>4
        <4>3. n.map.split = Done /\ n.needFlush /\ n.firstInit = m.firstInit /\ n.readFailed = m.readFailed
          BY <3>2 DEF Profile, Settings
        <4> HIDE DEF n
        <4>4. store'[p]["main"] = n
          BY <2>1, <4>1
        <4> QED BY <2>4, <2>5, <3>1, <3>2, <4>2, <4>3, <4>4
      <3> QED BY <3>3, <3>4
    <2>9. CASE FlushSplit(p) \/ FlushReset(p)
      <3>1. c.needFlush
        BY <2>9 DEF FlushSplit, FlushReset, IInv, ForcedInv, Forced
      <3>2. Flush(p, "main", TRUE) /\ pc'[p] \in {"ready", "cleared"} /\ l \in {"splitting", "defaults"}
        BY <2>2, <2>9 DEF FlushSplit, FlushReset
      <3> QED BY <2>1, <3>1, <3>2, FlushKeepsMove DEF Moved
    <2>10. CASE FlushMain(p) \/ FlushHistory(p)
      <3>1. PICK s \in Stores : Flush(p, s, FALSE)
        BY <2>1, <2>10 DEF FlushMain, FlushHistory
      <3>2. pc'[p] \in {"idle", "running"} /\ l \in {"idle", "running"}
        BY <2>2, <2>10 DEF FlushMain, FlushHistory
      <3> QED BY <2>1, <3>1, <3>2, FlushKeepsMove DEF Moved
    <2>11. CASE Ready(p)
      <3>1. l = "ready" /\ pc'[p] = "running" /\ store' = store /\ file' = file
        BY <2>2, <2>11 DEF Ready
      <3> QED BY <2>1, <3>1 DEF Keeps, Moved
    <2>12. CASE SetDefaults(p)
      <3>1. PICK v \in Values : \E d \in Written(c, f, "option", v) :
              Become(p, "main", [d EXCEPT !.map["split"] = Done, !.needFlush = TRUE])
        BY <2>12 DEF SetDefaults
      <3>2. PICK d \in Written(c, f, "option", v) :
              Become(p, "main", [d EXCEPT !.map["split"] = Done, !.needFlush = TRUE])
        BY <3>1
      <3>3. d \in Profile /\ (d.firstInit \/ d.readFailed)
        BY <2>1, <3>2, WrittenKeeps, WrittenKeepsMove DEF Keys
      <3> DEFINE n == [d EXCEPT !.map["split"] = Done, !.needFlush = TRUE]
      <3>4. n.map.split = Done /\ n.needFlush /\ n.firstInit = d.firstInit /\ n.readFailed = d.readFailed
        BY <3>3 DEF Profile, Settings
      <3>5. store'[p]["main"] = n /\ pc'[p] = "defaults" /\ file' = file
        BY <2>1, <2>2, <2>3, <2>12, <3>2 DEF SetDefaults
      <3> HIDE DEF n
      <3> QED BY <2>5, <3>3, <3>4, <3>5
    <2>13. CASE EndReset(p)
      <3>1. l = "cleared" /\ pc'[p] = "running" /\ Clear(p, "history")
        BY <2>2, <2>13 DEF EndReset
      <3>2. store'[p]["main"] = c /\ file'["main"] = f
        BY <2>1, <2>3, <3>1 DEF Clear
      <3> QED BY <2>1, <3>1, <3>2 DEF Keeps, Moved
    <2>14. CASE BeginReset(p)
      <3>1. l = "ready" /\ pc'[p] = "reset"
            /\ Become(p, "main", [c EXCEPT !.map = NoSettings, !.needFlush = FALSE])
        BY <2>2, <2>14 DEF BeginReset, Clear
      <3>2. store'[p]["main"] = [c EXCEPT !.map = NoSettings, !.needFlush = FALSE]
        BY <2>1, <2>3, <3>1
      <3>3. store'[p]["main"].firstInit = c.firstInit /\ store'[p]["main"].readFailed = c.readFailed
        BY <2>1, <3>2 DEF Profile
      <3> QED BY <2>1, <3>1, <3>3 DEF Keeps, Moved
    <2>15. CASE Stop(p)
      <3>1. pc'[p] = "down" /\ store'[p]["main"] = NewProfile
        BY <2>1, <2>2, <2>15 DEF Stop
      <3>2. NewProfile.map.split = Absent
        BY DEF NewProfile, NoSettings
      <3> QED BY <3>1, <3>2 DEF Keeps, Constants, Moved
    <2>16. ASSUME NEW s \in Stores, Use(p, s)
           PROVE  Keeps(pc'[p], store'[p]["main"], file'["main"])
      <3>1. PICK d \in InitIni(store[p][s], file[s]) : Become(p, s, d)
        BY <2>16 DEF Use
      <3>2. l = "running" /\ pc'[p] = "running" /\ file' = file
        BY <2>16 DEF Use
      <3>3. CASE s = "main"
        BY <2>3, <2>4, <2>5, <3>1, <3>2, <3>3 DEF Moved
      <3>4. CASE s # "main"
        BY <2>1, <2>3, <3>1, <3>2, <3>4
      <3> QED BY <3>3, <3>4
    <2>17. ASSUME NEW s \in Stores, NEW k \in {"option", "history"}, NEW v, Change(p, s, k, v)
           PROVE  Keeps(pc'[p], store'[p]["main"], file'["main"])
      <3>1. PICK e \in Written(store[p][s], file[s], k, v) : Become(p, s, e)
        BY <2>17 DEF Change
      <3>2. l = "running" /\ pc'[p] = "running" /\ file' = file
        BY <2>17 DEF Change
      <3>3. CASE s = "main"
        <4>1. e \in Written(c, f, k, v) /\ store'[p]["main"] = e
          BY <2>3, <3>1, <3>3
        <4>2. Keeps(l, c, f) /\ c \in Profile /\ f \in Settings \cup {Missing}
          BY <2>1
        <4> HIDE DEF c, f, l
        <4>3. /\ e.firstInit \/ e.readFailed
              /\ l \in Moved => e.map.split = Done
              /\ l # "reset" /\ e.map.split = Done => f.split = Done \/ e.needFlush \/ e.readFailed
          BY <4>1, <4>2, WrittenKeepsMove
        <4> USE DEF c, f, l
        <4> QED BY <2>5, <3>2, <4>1, <4>3 DEF Moved
      <3>4. CASE s # "main"
        BY <2>1, <2>3, <3>1, <3>2, <3>4
      <3> QED BY <3>3, <3>4
    <2>18. CASE Write(p)
      BY <2>1, <2>17, <2>18 DEF Write
    <2> QED BY <1>2, <2>6, <2>7, <2>8, <2>9, <2>10, <2>11, <2>12, <2>13, <2>14, <2>15, <2>16, <2>18 DEF Settle
  <1>3. CASE Next
    <2>1. PICK p \in Players :
            \/ Launch(p) \/ Settle(p) \/ Stop(p)
            \/ \E s \in Stores : Use(p, s)
            \/ Write(p) \/ BeginReset(p)
      BY <1>3 DEF Next
    <2>2. Keeps(pc'[p], store'[p]["main"], file'["main"])
      BY <1>2, <2>1
    <2> QED BY <2>2 DEF MoveInv
  <1> QED BY <1>1, <1>3

(* At the start nobody runs.                                                  *)
LEMMA MoveBegins == ASSUME Constants, Init PROVE MoveInv
  BY DEF Constants, Init, MoveInv, Keeps, Moved, NewProfile, NoSettings, Stores

LEMMA MoveHolds == MoveInv => MoveIsKept
  BY DEF MoveInv, MoveIsKept, Keeps, Moved

(* A player that runs alone and has moved the history out of its main store   *)
(* knows so until it ends: what it could not flush is not read back, and what *)
(* it flushed in part names the marker (CProfile::InitIni, Flush,             *)
(* SetupHistoryStore).                                                        *)
THEOREM MovesAreKept ==
    ASSUME Constants, \A p, q \in Players : p = q PROVE Spec => []MoveIsKept
  <1>1. IInv /\ MoveInv /\ [Next]_vars => MoveInv'
    BY MoveStays
  <1> QED BY <1>1, MoveBegins, MoveHolds, Invariant, PTL DEF Spec
====================================================================================
