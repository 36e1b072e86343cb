--------------------------- MODULE Playback_proofs ---------------------------
(***************************************************************************)
(* Proofs about the graph, for any number of openings, the graphics of a   *)
(* disc, for any number of planes, pictures and changes of the playlist,   *)
(* and the monitor of its drive, for any media, openings and changes; and, *)
(* resting on BaseSplitter_proofs, BlurayNavigation_proofs and             *)
(* ProfileStore_proofs, about the splitter, for any pins, packets, queues, *)
(* seeks and stops, the navigation, for any playlists, seeks and keys, and *)
(* the settings of one player.                                             *)
(*                                                                         *)
(* The load state says where the one request to the graph thread is:       *)
(* queued, being worked at, or answered by a message; and the window       *)
(* touches the graph itself only in states where there is none.            *)
(*                                                                         *)
(* A picture is incomplete only in the memory the program draws into, and  *)
(* only between the two halves of a drawing; whatever leaves that memory   *)
(* was published before or after.                                          *)
(*                                                                         *)
(* A worker acts on its own Data only, and no longer once it was told to   *)
(* stop; what it read while its disc was the one that plays tells whether  *)
(* that disc was away.                                                     *)
(***************************************************************************)
EXTENDS Playback, TLAPS

(* The graph.                                                                 *)

(* Where a request to open or to close is.                                    *)
Quiet == gq = <<>> /\ gt.pc = "idle"
Answered == gq = <<>> /\ gt.pc \in {"idle", "opened"}
Requested == gq = <<<<"open", opens>>>> /\ gt.pc = "idle"
Building == gq = <<>> /\ gt.pc \in {"create", "work", "done", "failed"} /\ gt.item = opens
ToClose == gq = <<<<"close", opens>>>> /\ gt.pc \in {"idle", "opened"}
Destroying == gq = <<>> /\ gt.pc \in {"close", "closed"}

Ui ==
    [pc : UiPCs, then : {"idle", "open", "load", "exiting"}, terminated : BOOLEAN, exit : BOOLEAN]
Gt ==
    [pc : {"idle", "create", "work", "done", "failed", "opened", "close", "closed"},
     item : 0 .. MaxOpens]

GraphTyped ==
    /\ load \in {"CLOSED", "LOADING", "LOADED", "FAILING", "ABORTING", "CLOSING"}
    /\ active \in BOOLEAN /\ aborted \in BOOLEAN /\ threaded \in BOOLEAN
    /\ evOpen \in BOOLEAN /\ evClose \in BOOLEAN
    /\ gb \in 0 .. MaxOpens /\ opens \in 0 .. MaxOpens
    /\ ui \in Ui
    /\ gt \in Gt

(* One message at most, about the opening under way.                          *)
MsgInv ==
    \/ uq = <<>>
    \/ /\ \E k \in {"postopen", "openfailed"} : uq = <<<<k, opens>>>>
       /\ load \in {"LOADING", "ABORTING"} /\ opens > 0

(* What the load state says of the graph thread, the queues and the graph.    *)
LoadInv ==
    /\ load = "CLOSED" => Quiet /\ uq = <<>> /\ gb = 0
    /\ load = "LOADING" /\ (threaded \/ ui.pc = "posted") =>
          /\ active
          /\ (uq = <<>> /\ (Requested \/ Building)) \/ (uq # <<>> /\ Answered /\ gb # 0)
    /\ load = "LOADING" /\ ~threaded => ui.pc \in {"posted", "build"}
    /\ load # "CLOSED" => opens > 0
    /\ load = "ABORTING" => (uq = <<>> /\ (Requested \/ Building)) \/ Answered
    /\ load \in {"LOADED", "FAILING"} => Answered /\ (~threaded => Quiet)
    /\ load = "LOADED" => gb # 0
    /\ load = "CLOSING" => Quiet \/ (threaded /\ (ToClose \/ Destroying))

(* The flags, the events and the graph.                                       *)
FlagInv ==
    /\ aborted /\ ui.pc # "killed" => load = "ABORTING" /\ ui.pc = "abort"
    /\ Requested \/ gt.pc = "create" => gb = 0
    /\ gt.pc \in {"work", "done", "failed"} => gb # 0
    /\ evOpen => ~Requested /\ gt.pc \notin {"create", "work", "done", "failed", "opened"}
    /\ ui.pc = "wait" /\ evClose => Quiet /\ gb = 0
    /\ gt.pc = "closed" => gb = 0
    /\ gb \in {0, opens} \/ ui.then = "load" \/ ui.pc = "killed"

(* Where the window is.                                                       *)
UiInv ==
    /\ ui.pc \in {"idle", "open"} => load \in {"CLOSED", "LOADING", "LOADED", "FAILING"}
    /\ ui.pc \in {"idle", "open", "load", "posted", "build"} => ui.then # "load"
    /\ ui.pc = "load" => load = "CLOSED" /\ active /\ opens > 0
    /\ ui.pc = "build" => load = "LOADING" /\ ~threaded /\ Quiet /\ uq = <<>> /\ gb = 0 /\ opens > 0
    /\ ui.pc = "posted" => load = "LOADING"
    /\ ui.pc = "abort" => load = "ABORTING" /\ threaded
    /\ ui.pc = "closing" =>
          /\ load \in {"LOADED", "FAILING", "ABORTING"}
          /\ ui.terminated <=> load = "ABORTING"
          /\ ui.terminated => Quiet /\ uq = <<>>
    /\ ui.pc = "wait" => load = "CLOSING" /\ threaded
    /\ ui.pc = "private" => load = "CLOSING" /\ Quiet
    /\ ui.pc = "closed" => load = "CLOSING" /\ Quiet /\ gb = 0
    /\ ui.pc = "exiting" => load \in {"CLOSED", "FAILING"}
    /\ ui.pc = "exited" => load = "CLOSED"
    /\ ui.pc = "killed" => load \in {"ABORTING", "CLOSING", "FAILING"}
    /\ ui.terminated => ui.pc \in {"closing", "private", "closed"}
    /\ ui.exit => ui.pc \notin {"idle", "open", "load", "posted", "build"}
    /\ ui.exit /\ ui.pc \in {"abort", "closing", "wait", "private", "closed"} => ui.then = "exiting"
    /\ ui.then = "load" => active /\ opens > 0 /\ load # "ABORTING"

GraphInv == GraphTyped /\ MsgInv /\ LoadInv /\ FlagInv /\ UiInv

-----------------------------------------------------------------------------
(* An opening that was aborted leaves no message.                             *)
LEMMA PurgedIsEmpty ==
    ASSUME NEW k \in {"postopen", "openfailed"}, NEW n
    PROVE  Purged(<<>>) = <<>> /\ Purged(<<<<k, n>>>>) = <<>>
  <1> DEFINE q == <<<<k, n>>>>
  <1>1. Len(q) = 1 /\ q[1] = <<k, n>> /\ q[1][1] = k
    OBVIOUS
  <1>2. Purged(<<>>) = <<>>
    BY DEF Purged, RemoveFirstMatch
  <1>3. RemoveAt(q, 1) = <<>>
    BY <1>1 DEF RemoveAt
  <1>4. {i \in 1 .. Len(q) : q[i][1] = k} = {1}
    BY <1>1
  <1>5. CASE k = "postopen"
    <2>1. RemoveFirstMatch(q, LAMBDA m : m[1] = "postopen")
              = RemoveAt(q, SelectInSeq(q, LAMBDA m : m[1] = "postopen"))
      BY <1>1, <1>5 DEF RemoveFirstMatch
    <2>2. SelectInSeq(q, LAMBDA m : m[1] = "postopen") = 1
      BY <1>1, <1>4, <1>5 DEF SelectInSeq, Min
    <2>3. RemoveFirstMatch(<<>>, LAMBDA m : m[1] = "openfailed") = <<>>
      BY DEF RemoveFirstMatch
    <2> QED BY <1>2, <1>3, <2>1, <2>2, <2>3 DEF Purged
  <1>6. CASE k = "openfailed"
    <2>1. RemoveFirstMatch(q, LAMBDA m : m[1] = "postopen") = q
      BY <1>1, <1>6 DEF RemoveFirstMatch
    <2>2. RemoveFirstMatch(q, LAMBDA m : m[1] = "openfailed")
              = RemoveAt(q, SelectInSeq(q, LAMBDA m : m[1] = "openfailed"))
      BY <1>1, <1>6 DEF RemoveFirstMatch
    <2>3. SelectInSeq(q, LAMBDA m : m[1] = "openfailed") = 1
      BY <1>1, <1>4, <1>6 DEF SelectInSeq, Min
    <2> QED BY <1>2, <1>3, <2>1, <2>2, <2>3 DEF Purged
  <1> QED BY <1>5, <1>6

LEMMA MessagePurged == ASSUME MsgInv PROVE Purged(uq) = <<>>
  BY PurgedIsEmpty DEF MsgInv

(* A queue of one.                                                            *)
LEMMA OneMessage ==
    ASSUME NEW m
    PROVE  Append(<<>>, m) = <<m>> /\ Head(<<m>>) = m /\ Tail(<<m>>) = <<>> /\ <<m>> # <<>>
  OBVIOUS

LEMMA MessageTaken ==
    ASSUME MsgInv, uq # <<>>
    PROVE  /\ Tail(uq) = <<>> /\ load \in {"LOADING", "ABORTING"}
           /\ Head(uq)[1] \in {"postopen", "openfailed"}
  <1>1. PICK k \in {"postopen", "openfailed"} : uq = <<<<k, opens>>>>
    BY DEF MsgInv
  <1>2. Head(uq) = <<k, opens>> /\ Tail(uq) = <<>>
    BY <1>1, OneMessage
  <1> QED BY <1>2 DEF MsgInv

(* A request is only there while media are opened or closed.                  *)
LEMMA NoRequest ==
    ASSUME GraphInv
    PROVE  /\ gt.pc \in {"close", "closed"} => load = "CLOSING" /\ threaded /\ gq = <<>>
           /\ \/ gq = <<>>
              \/ gq = <<<<"open", opens>>>> /\ load \in {"LOADING", "ABORTING"} /\ gt.pc = "idle"
              \/ gq = <<<<"close", opens>>>> /\ load = "CLOSING" /\ threaded
  <1> USE DEF Quiet, Answered, Requested, Building, ToClose, Destroying
  <1>1. CASE load \in {"LOADING", "ABORTING"}
    <2>1. Requested \/ Building \/ Answered
      BY <1>1 DEF GraphInv, LoadInv, UiInv
    <2>2. gt.pc \notin {"close", "closed"}
      BY <2>1
    <2>3. gq # <<>> => gq = <<<<"open", opens>>>> /\ gt.pc = "idle"
      BY <2>1
    <2> QED BY <1>1, <2>2, <2>3
  <1>3. CASE load = "CLOSING"
    <2>1. <<<<"close", opens>>>> # <<<<"open", opens>>>>
      OBVIOUS
    <2> QED BY <1>3, <2>1 DEF GraphInv, LoadInv
  <1>4. CASE load \in {"CLOSED", "LOADED", "FAILING"}
    BY <1>4 DEF GraphInv, LoadInv
  <1> QED BY <1>1, <1>3, <1>4 DEF GraphInv, GraphTyped

(* Where the window goes when it closes the media.                            *)
LEMMA CloseMediaGoes ==
    ASSUME GraphInv, NEW then \in {"idle", "open", "load", "exiting"}, CloseMedia(then)
    PROVE  /\ ui' \in Ui
           /\ ui'.then = then /\ ui'.terminated = ui.terminated /\ ui'.exit = ui.exit
           /\ load \in {"LOADING", "LOADED", "FAILING"}
           /\ \/ load = "LOADING" /\ load' = "ABORTING" /\ aborted' = TRUE
                 /\ ui'.pc = IF threaded THEN "abort" ELSE "killed"
              \/ load # "LOADING" /\ load' = load /\ aborted' = aborted /\ ui'.pc = "closing"
  <1>1. ui \in Ui /\ load \in {"LOADING", "LOADED", "FAILING"}
    BY DEF CloseMedia, GraphInv, GraphTyped
  <1>2. CASE load = "LOADING"
    BY <1>1, <1>2 DEF CloseMedia, Ui, UiPCs, Waiting
  <1>3. CASE load # "LOADING"
    BY <1>1, <1>3 DEF CloseMedia, Ui, UiPCs
  <1> QED BY <1>2, <1>3


(* The invariant is inductive.                                                *)
LEMMA GraphKeeps == ASSUME Constants, GraphInv, [Next]_vars PROVE GraphInv'
  <1> USE DEF Constants, Quiet, Answered, Requested, Building, ToClose, Destroying,
              Ui, Gt, UiPCs, Waiting
  <1>1. CASE DropPosted
    <2>1. uq' = <<>>
      BY <1>1, MessageTaken DEF DropPosted, GraphInv
    <2>2. GraphTyped'
      BY <1>1, <2>1 DEF DropPosted, graph, GraphInv, GraphTyped
    <2>3. MsgInv'
      BY <1>1, <2>1 DEF DropPosted, graph, GraphInv, MsgInv
    <2>4. LoadInv'
      BY <1>1, <2>1 DEF DropPosted, graph, GraphInv, LoadInv, UiInv
    <2>5. FlagInv'
      BY <1>1, <2>1 DEF DropPosted, graph, GraphInv, FlagInv
    <2>6. UiInv'
      BY <1>1, <2>1 DEF DropPosted, graph, GraphInv, UiInv
    <2> QED BY <2>2, <2>3, <2>4, <2>5, <2>6 DEF GraphInv
  <1>2. CASE Aborted
    <2>1. uq' = <<>>
      BY <1>2, MessagePurged DEF Aborted, GraphInv
    <2>2. Quiet
      BY <1>2 DEF Aborted, GraphInv, GraphTyped, LoadInv, FlagInv, UiInv
    <2>3. GraphTyped'
      BY <1>2, <2>1, <2>2 DEF Aborted, GraphInv, GraphTyped
    <2>4. MsgInv'
      BY <1>2, <2>1, <2>2 DEF Aborted, GraphInv, MsgInv
    <2>5. LoadInv'
      BY <1>2, <2>1, <2>2 DEF Aborted, GraphInv, LoadInv, UiInv
    <2>6. FlagInv'
      BY <1>2, <2>1, <2>2 DEF Aborted, GraphInv, FlagInv
    <2>7. UiInv'
      BY <1>2, <2>1, <2>2 DEF Aborted, GraphInv, UiInv
    <2> QED BY <2>3, <2>4, <2>5, <2>6, <2>7 DEF GraphInv
  <1>3. CASE Closing
    <2>1. gq = <<>> /\ uq = <<>>
      BY <1>3 DEF Closing, GraphInv, MsgInv, LoadInv, UiInv
    <2>2. threaded /\ ~ui.terminated => gq' = <<<<"close", opens>>>> /\ ~Requested'
      BY <1>3, <2>1, OneMessage DEF Closing
    <2>3. GraphTyped'
      BY <1>3, <2>1, <2>2 DEF Closing, UiGoes, GraphInv, GraphTyped
    <2>4. MsgInv'
      BY <1>3, <2>1, <2>2 DEF Closing, UiGoes, GraphInv, MsgInv
    <2>5. LoadInv'
      BY <1>3, <2>1, <2>2 DEF Closing, UiGoes, GraphInv, LoadInv, UiInv
    <2>6. FlagInv'
      BY <1>3, <2>1, <2>2 DEF Closing, UiGoes, GraphInv, GraphTyped, FlagInv
    <2>7. UiInv'
      BY <1>3, <2>1, <2>2 DEF Closing, UiGoes, GraphInv, GraphTyped, LoadInv, UiInv
    <2> QED BY <2>3, <2>4, <2>5, <2>6, <2>7 DEF GraphInv
  <1>4. CASE CloseMediaPrivate
    <2>1. GraphTyped'
      BY <1>4 DEF CloseMediaPrivate, UiGoes, GraphInv, GraphTyped
    <2>2. MsgInv'
      BY <1>4 DEF CloseMediaPrivate, UiGoes, GraphInv, MsgInv
    <2>3. LoadInv'
      BY <1>4 DEF CloseMediaPrivate, UiGoes, GraphInv, LoadInv, UiInv
    <2>4. FlagInv'
      BY <1>4 DEF CloseMediaPrivate, UiGoes, GraphInv, FlagInv, UiInv
    <2>5. UiInv'
      BY <1>4 DEF CloseMediaPrivate, UiGoes, GraphInv, UiInv
    <2> QED BY <2>1, <2>2, <2>3, <2>4, <2>5 DEF GraphInv
  <1>5. CASE ClosedByThread
    <2>1. GraphTyped'
      BY <1>5 DEF ClosedByThread, UiGoes, GraphInv, GraphTyped
    <2>2. MsgInv'
      BY <1>5 DEF ClosedByThread, UiGoes, GraphInv, MsgInv
    <2>3. LoadInv'
      BY <1>5 DEF ClosedByThread, UiGoes, GraphInv, LoadInv
    <2>4. FlagInv'
      BY <1>5 DEF ClosedByThread, UiGoes, GraphInv, FlagInv
    <2>5. UiInv'
      BY <1>5 DEF ClosedByThread, UiGoes, GraphInv, GraphTyped, LoadInv, FlagInv, UiInv
    <2> QED BY <2>1, <2>2, <2>3, <2>4, <2>5 DEF GraphInv
  <1>6. CASE Kill
    <2>1. GraphTyped'
      BY <1>6 DEF Kill, UiGoes, graph, Waiting, GraphInv, GraphTyped
    <2>2. MsgInv'
      BY <1>6 DEF Kill, UiGoes, graph, Waiting, GraphInv, MsgInv
    <2>3. LoadInv'
      BY <1>6 DEF Kill, UiGoes, graph, Waiting, GraphInv, LoadInv
    <2>4. FlagInv'
      BY <1>6 DEF Kill, UiGoes, graph, Waiting, GraphInv, FlagInv
    <2>5. UiInv'
      BY <1>6 DEF Kill, UiGoes, graph, Waiting, GraphInv, UiInv
    <2> QED BY <2>1, <2>2, <2>3, <2>4, <2>5 DEF GraphInv
  <1>7. CASE OnFilePostClosemedia
    <2>1. ui'.pc = ui.then /\ ui'.then = "idle" /\ ui'.terminated = FALSE /\ ui'.exit = ui.exit
      BY <1>7 DEF OnFilePostClosemedia, GraphInv, GraphTyped
    <2>2. GraphTyped'
      BY <1>7, <2>1 DEF OnFilePostClosemedia, graph, GraphInv, GraphTyped
    <2>3. MsgInv'
      BY <1>7, <2>1 DEF OnFilePostClosemedia, graph, GraphInv, MsgInv, UiInv
    <2>4. LoadInv'
      BY <1>7, <2>1 DEF OnFilePostClosemedia, graph, GraphInv, GraphTyped, MsgInv, LoadInv, FlagInv, UiInv
    <2>5. FlagInv'
      BY <1>7, <2>1 DEF OnFilePostClosemedia, graph, GraphInv, FlagInv, UiInv
    <2>6. UiInv'
      BY <1>7, <2>1 DEF OnFilePostClosemedia, graph, GraphInv, GraphTyped, UiInv
    <2> QED BY <2>2, <2>3, <2>4, <2>5, <2>6 DEF GraphInv
  <1>8. CASE UserOpens
    <2>1. CASE ui' = [ui EXCEPT !.pc = "open"] /\ UNCHANGED <<load, aborted>>
      <3>1. GraphTyped'
        BY <1>8, <2>1 DEF UserOpens, graph, GraphInv, GraphTyped
      <3>2. MsgInv'
        BY <1>8, <2>1 DEF UserOpens, graph, GraphInv, MsgInv
      <3>3. LoadInv'
        BY <1>8, <2>1 DEF UserOpens, graph, GraphInv, LoadInv
      <3>4. FlagInv'
        BY <1>8, <2>1 DEF UserOpens, graph, GraphInv, FlagInv
      <3>5. UiInv'
        BY <1>8, <2>1 DEF UserOpens, graph, GraphInv, UiInv
      <3> QED BY <3>1, <3>2, <3>3, <3>4, <3>5 DEF GraphInv
    <2>2. CASE CloseMedia("open")
      <3>1. GraphTyped'
        BY <1>8, <2>2, CloseMediaGoes DEF UserOpens, graph, GraphInv, GraphTyped
      <3>2. MsgInv'
        BY <1>8, <2>2, CloseMediaGoes DEF UserOpens, graph, GraphInv, MsgInv
      <3>3. LoadInv'
        BY <1>8, <2>2, CloseMediaGoes DEF UserOpens, graph, GraphInv, LoadInv
      <3>4. FlagInv'
        BY <1>8, <2>2, CloseMediaGoes DEF UserOpens, graph, GraphInv, FlagInv, UiInv
      <3>5. UiInv'
        BY <1>8, <2>2, CloseMediaGoes DEF UserOpens, graph, GraphInv, UiInv
      <3> QED BY <3>1, <3>2, <3>3, <3>4, <3>5 DEF GraphInv
    <2> QED BY <1>8, <2>1, <2>2 DEF UserOpens, UiGoes
  <1>9. CASE OpenMedia
    <2>1. CASE ui' = [ui EXCEPT !.pc = "idle"] /\ UNCHANGED <<load, active, aborted, opens>>
      <3>1. GraphTyped'
        BY <1>9, <2>1 DEF OpenMedia, graph, GraphInv, GraphTyped
      <3>2. MsgInv'
        BY <1>9, <2>1 DEF OpenMedia, graph, GraphInv, MsgInv
      <3>3. LoadInv'
        BY <1>9, <2>1 DEF OpenMedia, graph, GraphInv, LoadInv
      <3>4. FlagInv'
        BY <1>9, <2>1 DEF OpenMedia, graph, GraphInv, FlagInv
      <3>5. UiInv'
        BY <1>9, <2>1 DEF OpenMedia, graph, GraphInv, UiInv
      <3> QED BY <3>1, <3>2, <3>3, <3>4, <3>5 DEF GraphInv
    <2>2. CASE /\ active' = TRUE /\ opens' = opens + 1 /\ ~active /\ opens # MaxOpens
               /\ load = "CLOSED" /\ ui' = [ui EXCEPT !.pc = "load"] /\ UNCHANGED <<load, aborted>>
      <3>1. GraphTyped'
        BY <1>9, <2>2 DEF OpenMedia, graph, GraphInv, GraphTyped
      <3>2. MsgInv'
        BY <1>9, <2>2 DEF OpenMedia, graph, GraphInv, MsgInv
      <3>3. LoadInv'
        BY <1>9, <2>2 DEF OpenMedia, graph, GraphInv, LoadInv
      <3>4. FlagInv'
        BY <1>9, <2>2 DEF OpenMedia, graph, GraphInv, GraphTyped, LoadInv, FlagInv
      <3>5. UiInv'
        BY <1>9, <2>2 DEF OpenMedia, graph, GraphInv, GraphTyped, UiInv
      <3> QED BY <3>1, <3>2, <3>3, <3>4, <3>5 DEF GraphInv
    <2>3. CASE active' = TRUE /\ opens' = opens + 1 /\ ~active /\ opens # MaxOpens
               /\ CloseMedia("load")
      <3>0. load # "LOADING"
        BY <1>9, <2>3 DEF OpenMedia, GraphInv, LoadInv, UiInv
      <3>1. /\ ui' \in Ui
            /\ ui'.then = "load" /\ ui'.pc = "closing" /\ ui'.terminated = ui.terminated /\ ui'.exit = ui.exit
            /\ load \in {"LOADED", "FAILING"} /\ load' = load /\ aborted' = aborted
        BY <2>3, <3>0, CloseMediaGoes
      <3>2. uq = <<>> /\ Answered /\ ui.pc = "open" /\ opens + 1 \in 1 .. MaxOpens
            /\ UNCHANGED <<threaded, gb, evOpen, evClose, uq, gt, gq>>
        BY <1>9, <2>3, <3>1 DEF OpenMedia, graph, GraphInv, GraphTyped, MsgInv, LoadInv
      <3>3. active' = TRUE /\ opens' = opens + 1
        BY <2>3
      <3>4. GraphTyped'
        BY <3>1, <3>2, <3>3 DEF GraphInv, GraphTyped
      <3>5. MsgInv'
        BY <3>1, <3>2, <3>3 DEF GraphInv, MsgInv
      <3>6. LoadInv'
        BY <3>1, <3>2, <3>3 DEF GraphInv, LoadInv
      <3>7. FlagInv'
        BY <3>1, <3>2, <3>3 DEF GraphInv, FlagInv
      <3>8. UiInv'
        BY <3>1, <3>2, <3>3 DEF GraphInv, UiInv
      <3> QED BY <3>4, <3>5, <3>6, <3>7, <3>8 DEF GraphInv
    <2> QED BY <1>9, <2>1, <2>2, <2>3 DEF OpenMedia, UiGoes, GraphInv, GraphTyped
  <1>10. CASE NoDrive
    <2>1. GraphTyped'
      BY <1>10 DEF NoDrive, UiGoes, graph, GraphInv, GraphTyped
    <2>2. MsgInv'
      BY <1>10 DEF NoDrive, UiGoes, graph, GraphInv, MsgInv
    <2>3. LoadInv'
      BY <1>10 DEF NoDrive, UiGoes, graph, GraphInv, LoadInv, UiInv
    <2>4. FlagInv'
      BY <1>10 DEF NoDrive, UiGoes, graph, GraphInv, FlagInv
    <2>5. UiInv'
      BY <1>10 DEF NoDrive, UiGoes, graph, GraphInv, UiInv
    <2> QED BY <2>1, <2>2, <2>3, <2>4, <2>5 DEF GraphInv
  <1>11. CASE Load
    <2>1. Quiet /\ uq = <<>> /\ gb = 0 /\ active /\ opens > 0
      BY <1>11 DEF Load, GraphInv, LoadInv, UiInv
    <2>2. \/ gq' = <<<<"open", opens>>>> /\ ui' = [ui EXCEPT !.pc = "posted"] /\ UNCHANGED threaded
          \/ gq' = <<>> /\ ui' = [ui EXCEPT !.pc = "build"] /\ threaded' = FALSE
      BY <1>11, <2>1, OneMessage DEF Load, UiGoes
    <2>3. GraphTyped'
      BY <1>11, <2>1, <2>2 DEF Load, UiGoes, GraphInv, GraphTyped
    <2>4. MsgInv'
      BY <1>11, <2>1, <2>2 DEF Load, UiGoes, GraphInv, MsgInv
    <2>5. LoadInv'
      BY <1>11, <2>1, <2>2 DEF Load, UiGoes, GraphInv, GraphTyped, LoadInv
    <2>6. FlagInv'
      BY <1>11, <2>1, <2>2 DEF Load, UiGoes, GraphInv, GraphTyped, FlagInv
    <2>7. UiInv'
      BY <1>11, <2>1, <2>2 DEF Load, UiGoes, GraphInv, GraphTyped, UiInv
    <2> QED BY <2>3, <2>4, <2>5, <2>6, <2>7 DEF GraphInv
  <1>12. CASE Build
    <2>1. ui.pc = "build" /\ load = "LOADING" /\ ~threaded /\ Quiet /\ uq = <<>> /\ gb = 0 /\ opens > 0
      BY <1>12 DEF Build, GraphInv, UiInv
    <2>2. CASE gb' = opens /\ Loaded /\ UiGoes("idle")
      <3>1. GraphTyped'
        BY <1>12, <2>1, <2>2 DEF Build, Loaded, UiGoes, GraphInv, GraphTyped
      <3>2. MsgInv'
        BY <1>12, <2>1, <2>2 DEF Build, Loaded, UiGoes, GraphInv, MsgInv
      <3>3. LoadInv'
        BY <1>12, <2>1, <2>2 DEF Build, Loaded, UiGoes, GraphInv, LoadInv
      <3>4. FlagInv'
        BY <1>12, <2>1, <2>2 DEF Build, Loaded, UiGoes, GraphInv, FlagInv
      <3>5. UiInv'
        BY <1>12, <2>1, <2>2 DEF Build, Loaded, UiGoes, GraphInv, UiInv
      <3> QED BY <3>1, <3>2, <3>3, <3>4, <3>5 DEF GraphInv
    <2>3. CASE gb' \in {0, opens} /\ Failed
      <3>1. GraphTyped'
        BY <1>12, <2>1, <2>3 DEF Build, Failed, UiGoes, GraphInv, GraphTyped
      <3>2. MsgInv'
        BY <1>12, <2>1, <2>3 DEF Build, Failed, UiGoes, GraphInv, MsgInv
      <3>3. LoadInv'
        BY <1>12, <2>1, <2>3 DEF Build, Failed, UiGoes, GraphInv, LoadInv
      <3>4. FlagInv'
        BY <1>12, <2>1, <2>3 DEF Build, Failed, UiGoes, GraphInv, GraphTyped, FlagInv
      <3>5. UiInv'
        BY <1>12, <2>1, <2>3 DEF Build, Failed, UiGoes, GraphInv, GraphTyped, UiInv
      <3> QED BY <3>1, <3>2, <3>3, <3>4, <3>5 DEF GraphInv
    <2>4. CASE UNCHANGED gb /\ CloseMedia("idle") /\ UNCHANGED active
      <3>1. GraphTyped'
        BY <1>12, <2>1, <2>4, CloseMediaGoes DEF Build, GraphInv, GraphTyped
      <3>2. MsgInv'
        BY <1>12, <2>1, <2>4, CloseMediaGoes DEF Build, GraphInv, MsgInv
      <3>3. LoadInv'
        BY <1>12, <2>1, <2>4, CloseMediaGoes DEF Build, GraphInv, LoadInv
      <3>4. FlagInv'
        BY <1>12, <2>1, <2>4, CloseMediaGoes DEF Build, GraphInv, FlagInv
      <3>5. UiInv'
        BY <1>12, <2>1, <2>4, CloseMediaGoes DEF Build, GraphInv, UiInv
      <3> QED BY <3>1, <3>2, <3>3, <3>4, <3>5 DEF GraphInv
    <2> QED BY <1>12, <2>2, <2>3, <2>4 DEF Build
  <1>13. CASE PostOpen
    <2>1. uq' = <<>> /\ load = "LOADING" /\ threaded
      BY <1>13, MessageTaken DEF PostOpen, GraphInv, UiInv, LoadInv
    <2>2. gb # 0 /\ Answered
      BY <1>13, <2>1 DEF PostOpen, GraphInv, LoadInv
    <2>3. GraphTyped'
      BY <1>13, <2>1, <2>2 DEF PostOpen, Loaded, GraphInv, GraphTyped
    <2>4. MsgInv'
      BY <1>13, <2>1, <2>2 DEF PostOpen, Loaded, GraphInv, MsgInv
    <2>5. LoadInv'
      BY <1>13, <2>1, <2>2 DEF PostOpen, Loaded, GraphInv, LoadInv
    <2>6. FlagInv'
      BY <1>13, <2>1, <2>2 DEF PostOpen, Loaded, GraphInv, FlagInv
    <2>7. UiInv'
      BY <1>13, <2>1, <2>2 DEF PostOpen, Loaded, GraphInv, UiInv
    <2> QED BY <2>3, <2>4, <2>5, <2>6, <2>7 DEF GraphInv
  <1>14. CASE OpenFailed
    <2>1. uq' = <<>> /\ load = "LOADING"
      BY <1>14, MessageTaken DEF OpenFailed, GraphInv, UiInv
    <2>2. GraphTyped'
      BY <1>14, <2>1 DEF OpenFailed, Failed, UiGoes, GraphInv, GraphTyped
    <2>3. MsgInv'
      BY <1>14, <2>1 DEF OpenFailed, Failed, UiGoes, GraphInv, MsgInv
    <2>4. LoadInv'
      BY <1>14, <2>1 DEF OpenFailed, Failed, UiGoes, GraphInv, LoadInv
    <2>5. FlagInv'
      BY <1>14, <2>1 DEF OpenFailed, Failed, UiGoes, GraphInv, GraphTyped, FlagInv, UiInv
    <2>6. UiInv'
      BY <1>14, <2>1 DEF OpenFailed, Failed, UiGoes, GraphInv, GraphTyped, UiInv
    <2> QED BY <2>2, <2>3, <2>4, <2>5, <2>6 DEF GraphInv
  <1>15. CASE UserCloses
    <2>1. CloseMedia("idle")
      BY <1>15 DEF UserCloses
    <2>2. GraphTyped'
      BY <1>15, <2>1, CloseMediaGoes DEF UserCloses, graph, GraphInv, GraphTyped
    <2>3. MsgInv'
      BY <1>15, <2>1, CloseMediaGoes DEF UserCloses, graph, GraphInv, MsgInv
    <2>4. LoadInv'
      BY <1>15, <2>1, CloseMediaGoes DEF UserCloses, graph, GraphInv, LoadInv
    <2>5. FlagInv'
      BY <1>15, <2>1, CloseMediaGoes DEF UserCloses, graph, GraphInv, FlagInv, UiInv
    <2>6. UiInv'
      BY <1>15, <2>1, CloseMediaGoes DEF UserCloses, graph, GraphInv, UiInv
    <2> QED BY <2>2, <2>3, <2>4, <2>5, <2>6 DEF GraphInv
  <1>16. CASE OnClose
    <2>1. /\ ui' \in Ui
          /\ ui'.then = "exiting" /\ ui'.exit /\ ui'.terminated = ui.terminated
          /\ ui'.pc = IF load = "LOADING" THEN "abort" ELSE IF load = "LOADED" THEN "closing" ELSE "exiting"
      BY <1>16, ZenonT(40) DEF OnClose, GraphInv, GraphTyped
    <2>2. GraphTyped'
      BY <1>16, <2>1, ZenonT(40) DEF OnClose, graph, GraphInv, GraphTyped
    <2>3. MsgInv'
      BY <1>16, <2>1 DEF OnClose, graph, GraphInv, MsgInv
    <2>4. LoadInv'
      BY <1>16, <2>1 DEF OnClose, graph, GraphInv, LoadInv
    <2>5. FlagInv'
      BY <1>16, <2>1 DEF OnClose, graph, GraphInv, FlagInv, UiInv
    <2>6. UiInv'
      BY <1>16, <2>1 DEF OnClose, graph, GraphInv, GraphTyped, LoadInv, UiInv
    <2> QED BY <2>2, <2>3, <2>4, <2>5, <2>6 DEF GraphInv
  <1>17. CASE Exit
    <2>1. GraphTyped'
      BY <1>17 DEF Exit, UiGoes, GraphInv, GraphTyped
    <2>2. MsgInv'
      BY <1>17 DEF Exit, UiGoes, GraphInv, MsgInv
    <2>3. LoadInv'
      BY <1>17 DEF Exit, UiGoes, GraphInv, LoadInv, UiInv
    <2>4. FlagInv'
      BY <1>17 DEF Exit, UiGoes, GraphInv, FlagInv
    <2>5. UiInv'
      BY <1>17 DEF Exit, UiGoes, GraphInv, UiInv
    <2> QED BY <2>1, <2>2, <2>3, <2>4, <2>5 DEF GraphInv
  <1>18. CASE TakeRequest
    <2>1. /\ gq # <<>> /\ gt.pc = "idle" /\ gq' = Tail(gq)
          /\ gt' \in [pc : {"create", "opened", "close", "closed"}, item : {Head(gq)[2]}]
          /\ UNCHANGED <<load, active, aborted, threaded, gb, evOpen, evClose, ui, uq, opens>>
      BY <1>18 DEF TakeRequest
    <2>2. CASE gq = <<<<"open", opens>>>> /\ load \in {"LOADING", "ABORTING"}
      <3>1. Head(gq) = <<"open", opens>> /\ Tail(gq) = <<>> /\ Requested /\ gb = 0
        BY <2>1, <2>2, OneMessage DEF GraphInv, FlagInv
      <3>2. gq' = <<>> /\ gt'.item = opens /\ gt'.pc = IF load = "LOADING" THEN "create" ELSE "opened"
        BY <1>18, <3>1 DEF TakeRequest
      <3>3. GraphTyped'
        BY <2>1, <2>2, <3>1, <3>2 DEF GraphInv, GraphTyped
      <3>4. MsgInv'
        BY <2>1, <2>2, <3>1, <3>2 DEF GraphInv, MsgInv
      <3>5. LoadInv'
        BY <2>1, <2>2, <3>1, <3>2 DEF GraphInv, LoadInv
      <3>6. FlagInv'
        BY <2>1, <2>2, <3>1, <3>2 DEF GraphInv, FlagInv
      <3>7. UiInv'
        BY <2>1, <2>2, <3>1, <3>2 DEF GraphInv, UiInv
      <3> QED BY <3>3, <3>4, <3>5, <3>6, <3>7 DEF GraphInv
    <2>3. CASE gq = <<<<"close", opens>>>> /\ load = "CLOSING" /\ threaded
      <3>1. Head(gq) = <<"close", opens>> /\ Tail(gq) = <<>> /\ ~Quiet
        BY <2>3, OneMessage
      <3>2. gq' = <<>> /\ gt'.item = opens /\ gt'.pc = "close"
        BY <1>18, <2>3, <3>1 DEF TakeRequest
      <3>3. GraphTyped'
        BY <2>1, <2>3, <3>1, <3>2 DEF GraphInv, GraphTyped
      <3>4. MsgInv'
        BY <2>1, <2>3, <3>1, <3>2 DEF GraphInv, MsgInv
      <3>5. LoadInv'
        BY <2>1, <2>3, <3>1, <3>2 DEF GraphInv, LoadInv
      <3>6. FlagInv'
        BY <2>1, <2>3, <3>1, <3>2 DEF GraphInv, FlagInv
      <3>7. UiInv'
        BY <2>1, <2>3, <3>1, <3>2 DEF GraphInv, UiInv
      <3> QED BY <3>3, <3>4, <3>5, <3>6, <3>7 DEF GraphInv
    <2> QED BY <2>1, <2>2, <2>3, NoRequest
  <1>19. CASE Create
    <2>1. GraphTyped'
      BY <1>19 DEF Create, GtGoes, GraphInv, GraphTyped, LoadInv, UiInv
    <2>2. MsgInv'
      BY <1>19 DEF Create, GtGoes, GraphInv, MsgInv
    <2>3. LoadInv'
      BY <1>19 DEF Create, GtGoes, GraphInv, GraphTyped, LoadInv, FlagInv, UiInv
    <2>4. FlagInv'
      BY <1>19 DEF Create, GtGoes, GraphInv, GraphTyped, LoadInv, FlagInv, UiInv
    <2>5. UiInv'
      BY <1>19 DEF Create, GtGoes, GraphInv, GraphTyped, LoadInv, UiInv
    <2> QED BY <2>1, <2>2, <2>3, <2>4, <2>5 DEF GraphInv
  <1>20. CASE Work
    <2>1. GraphTyped'
      BY <1>20 DEF Work, GtGoes, GraphInv, GraphTyped
    <2>2. MsgInv'
      BY <1>20 DEF Work, GtGoes, GraphInv, MsgInv
    <2>3. LoadInv'
      BY <1>20 DEF Work, GtGoes, GraphInv, GraphTyped, LoadInv
    <2>4. FlagInv'
      BY <1>20 DEF Work, GtGoes, GraphInv, GraphTyped, FlagInv
    <2>5. UiInv'
      BY <1>20 DEF Work, GtGoes, GraphInv, UiInv
    <2> QED BY <2>1, <2>2, <2>3, <2>4, <2>5 DEF GraphInv
  <1>21. CASE Done
    <2>1. uq = <<>> /\ opens > 0 /\ gt.item = opens
      BY <1>21 DEF Done, GraphInv, LoadInv, UiInv, GraphTyped
    <2>2. uq' = <<<<"postopen", opens>>>>
      BY <1>21, <2>1, OneMessage DEF Done
    <2>3. GraphTyped'
      BY <1>21, <2>1, <2>2 DEF Done, GtGoes, GraphInv, GraphTyped
    <2>4. MsgInv'
      BY <1>21, <2>1, <2>2 DEF Done, GtGoes, GraphInv, GraphTyped, MsgInv, LoadInv
    <2>5. LoadInv'
      BY <1>21, <2>1, <2>2 DEF Done, GtGoes, GraphInv, GraphTyped, LoadInv, FlagInv
    <2>6. FlagInv'
      BY <1>21, <2>1, <2>2 DEF Done, GtGoes, GraphInv, FlagInv
    <2>7. UiInv'
      BY <1>21, <2>1, <2>2 DEF Done, GtGoes, GraphInv, UiInv
    <2> QED BY <2>3, <2>4, <2>5, <2>6, <2>7 DEF GraphInv
  <1>22. CASE Fail
    <2>1. aborted => load = "ABORTING"
      BY <1>22 DEF Fail, Alive, GraphInv, FlagInv
    <2>2. uq = <<>> /\ opens > 0 /\ gt.item = opens
      BY <1>22 DEF Fail, GraphInv, LoadInv, UiInv, GraphTyped
    <2>3. uq' = <<>> \/ uq' = <<<<"openfailed", opens>>>>
      BY <1>22, <2>2, OneMessage DEF Fail
    <2>4. load \in {"LOADING", "ABORTING"} /\ gb # 0
      BY <1>22, <2>2 DEF Fail, GraphInv, GraphTyped, LoadInv, FlagInv, UiInv
    <2>5. Answered' /\ (load = "LOADING" => uq' # <<>> /\ active' = active)
      BY <1>22, <2>1, <2>2, <2>4, OneMessage DEF Fail, GtGoes, GraphInv, GraphTyped, LoadInv, UiInv
    <2>6. GraphTyped'
      <3>1. gt' \in Gt
        BY <1>22 DEF Fail, GtGoes, GraphInv, GraphTyped, Gt
      <3>2. active' \in BOOLEAN /\ UNCHANGED <<load, aborted, threaded, gb, evOpen, evClose, ui, opens>>
        BY <1>22 DEF Fail, GraphInv, GraphTyped
      <3> QED BY <3>1, <3>2 DEF GraphInv, GraphTyped
    <2>7. MsgInv'
      BY <1>22, <2>1, <2>2, <2>3, <2>4, <2>5 DEF Fail, GtGoes, GraphInv, MsgInv
    <2>8. LoadInv'
      BY <1>22, <2>1, <2>2, <2>3, <2>4, <2>5 DEF Fail, GtGoes, GraphInv, LoadInv
    <2>9. FlagInv'
      BY <1>22, <2>1, <2>2, <2>3, <2>4, <2>5 DEF Fail, GtGoes, GraphInv, FlagInv
    <2>10. UiInv'
      BY <1>22, <2>1, <2>2, <2>3, <2>4, <2>5 DEF Fail, GtGoes, GraphInv, UiInv
    <2> QED BY <2>6, <2>7, <2>8, <2>9, <2>10 DEF GraphInv
  <1>23. CASE Opened
    <2>1. ~Requested' /\ gt'.pc = "idle"
      <3>1. gt.pc = "opened" /\ gt' = [gt EXCEPT !.pc = "idle"] /\ gt \in Gt /\ gq' = gq /\ opens' = opens
        BY <1>23 DEF Opened, GtGoes, GraphInv, GraphTyped
      <3>2. gq = <<>> \/ gq = <<<<"close", opens>>>>
        BY <3>1, NoRequest
      <3>3. <<>> # <<<<"open", opens>>>> /\ <<<<"close", opens>>>> # <<<<"open", opens>>>>
        OBVIOUS
      <3> QED BY ONLY <3>1, <3>2, <3>3 DEF Requested, Gt
    <2>2. GraphTyped'
      BY <1>23, <2>1, NoRequest DEF Opened, GtGoes, GraphInv, GraphTyped
    <2>3. MsgInv'
      BY <1>23, <2>1, NoRequest DEF Opened, GtGoes, GraphInv, MsgInv
    <2>4. LoadInv'
      BY <1>23, <2>1, NoRequest DEF Opened, GtGoes, GraphInv, LoadInv
    <2>5. FlagInv'
      BY <1>23, <2>1, NoRequest DEF Opened, GtGoes, GraphInv, FlagInv
    <2>6. UiInv'
      BY <1>23, <2>1, NoRequest DEF Opened, GtGoes, GraphInv, UiInv
    <2> QED BY <2>2, <2>3, <2>4, <2>5, <2>6 DEF GraphInv
  <1>24. CASE Close
    <2>1. GraphTyped'
      BY <1>24, NoRequest DEF Close, GtGoes, GraphInv, GraphTyped
    <2>2. MsgInv'
      BY <1>24, NoRequest DEF Close, GtGoes, GraphInv, MsgInv
    <2>3. LoadInv'
      BY <1>24, NoRequest DEF Close, GtGoes, GraphInv, LoadInv
    <2>4. FlagInv'
      BY <1>24, NoRequest DEF Close, GtGoes, GraphInv, FlagInv
    <2>5. UiInv'
      BY <1>24, NoRequest DEF Close, GtGoes, GraphInv, UiInv
    <2> QED BY <2>1, <2>2, <2>3, <2>4, <2>5 DEF GraphInv
  <1>25. CASE Closed
    <2>1. Quiet' /\ gb' = 0
      BY <1>25, NoRequest DEF Closed, GtGoes, GraphInv, GraphTyped, FlagInv
    <2>2. GraphTyped'
      BY <1>25, <2>1, NoRequest DEF Closed, GtGoes, GraphInv, GraphTyped
    <2>3. MsgInv'
      BY <1>25, <2>1, NoRequest DEF Closed, GtGoes, GraphInv, MsgInv
    <2>4. LoadInv'
      BY <1>25, <2>1, NoRequest DEF Closed, GtGoes, GraphInv, LoadInv
    <2>5. FlagInv'
      BY <1>25, <2>1, NoRequest DEF Closed, GtGoes, GraphInv, FlagInv
    <2>6. UiInv'
      BY <1>25, <2>1, NoRequest DEF Closed, GtGoes, GraphInv, UiInv
    <2> QED BY <2>2, <2>3, <2>4, <2>5, <2>6 DEF GraphInv
  <1>26. CASE OpenedThroughThread
    <2>1. load = "LOADING" /\ load' = load /\ threaded' /\ ui' = [ui EXCEPT !.pc = "idle"]
      BY <1>26 DEF OpenedThroughThread, UiGoes, GraphInv, UiInv
    <2>2. GraphTyped'
      BY <1>26, <2>1 DEF OpenedThroughThread, graph, GraphInv, GraphTyped
    <2>3. MsgInv'
      BY <1>26, <2>1 DEF OpenedThroughThread, graph, GraphInv, MsgInv
    <2>4. LoadInv'
      BY <1>26, <2>1 DEF OpenedThroughThread, graph, GraphInv, LoadInv
    <2>5. FlagInv'
      BY <1>26, <2>1 DEF OpenedThroughThread, graph, GraphInv, FlagInv
    <2>6. UiInv'
      BY <1>26, <2>1 DEF OpenedThroughThread, graph, GraphInv, UiInv
    <2> QED BY <2>2, <2>3, <2>4, <2>5, <2>6 DEF GraphInv
  <1>27. CASE UNCHANGED vars
    BY <1>27 DEF vars, GraphInv, GraphTyped, MsgInv, LoadInv, FlagInv, UiInv
  <1> QED BY <1>1, <1>2, <1>3, <1>4, <1>5, <1>6, <1>7, <1>8, <1>9, <1>10, <1>11, <1>12, <1>13,
              <1>14, <1>15, <1>16, <1>17, <1>18, <1>19, <1>20, <1>21, <1>22, <1>23, <1>24, <1>25, <1>26, <1>27
           DEF Next, Window, GraphThread

-----------------------------------------------------------------------------
LEMMA GraphStarts == ASSUME Constants, Init PROVE GraphInv
  <1>1. GraphTyped
    <2>1. 0 \in 0 .. MaxOpens
      BY DEF Constants
    <2>2. ui \in Ui /\ gt \in Gt
      BY <2>1 DEF Init, Ui, Gt, UiPCs
    <2> QED BY <2>1, <2>2 DEF Init, GraphTyped
  <1>2. Quiet /\ ~Requested /\ uq = <<>> /\ gt.pc = "idle" /\ ui.pc = "idle" /\ ui.then = "idle"
    BY DEF Init, Quiet, Requested
  <1>3. MsgInv /\ LoadInv
    BY <1>2 DEF Init, MsgInv, LoadInv
  <1>4. FlagInv
    BY <1>2 DEF Init, FlagInv
  <1>5. UiInv
    BY <1>2 DEF Init, UiInv
  <1> QED BY <1>1, <1>3, <1>4, <1>5 DEF GraphInv

LEMMA GraphInvariant == ASSUME Constants PROVE Spec => []GraphInv
  <1>1. Init => GraphInv
    BY GraphStarts
  <1>2. GraphInv /\ [Next]_vars => GraphInv'
    BY GraphKeeps
  <1> QED BY <1>1, <1>2, PTL DEF Spec

(* Every state is typed (CMainFrame::m_eMediaLoadState and what goes with it).*)
THEOREM GraphIsTyped == ASSUME Constants PROVE Spec => []TypeOK
  <1>1. ASSUME GraphInv PROVE TypeOK
    <2>1. uq \in Seq(Posted)
      <3>1. CASE uq = <<>>
        BY <3>1
      <3>2. CASE uq # <<>>
        <4>1. PICK k \in {"postopen", "openfailed"} : uq = <<<<k, opens>>>>
          BY <1>1, <3>2 DEF GraphInv, MsgInv
        <4>2. opens \in 1 .. MaxOpens
          BY <1>1, <3>2 DEF Constants, GraphInv, GraphTyped, MsgInv
        <4>3. <<k, opens>> \in Posted
          BY <4>1, <4>2 DEF Posted
        <4> QED BY <4>1, <4>3
      <3> QED BY <3>1, <3>2
    <2>2. gq \in Seq({"open", "close"} \X (1 .. MaxOpens))
      <3>1. CASE gq = <<>>
        BY <3>1
      <3>2. CASE gq # <<>>
        <4>1. PICK k \in {"open", "close"} : gq = <<<<k, opens>>>>
          BY <1>1, <3>2, NoRequest
        <4>2. opens \in 1 .. MaxOpens
          BY <1>1, <3>2, NoRequest DEF Constants, GraphInv, GraphTyped, LoadInv
        <4>3. <<k, opens>> \in {"open", "close"} \X (1 .. MaxOpens)
          BY <4>1, <4>2
        <4> QED BY <4>1, <4>3
      <3> QED BY <3>1, <3>2
    <2> QED BY <1>1, <2>1, <2>2 DEF GraphInv, GraphTyped, TypeOK, Ui, Gt
  <1> QED BY <1>1, GraphInvariant, PTL

(* The window builds or destroys the graph only when the graph thread neither *)
(* does nor is asked to, also after an abort (CMainFrame::CloseMedia).        *)
THEOREM OneAtTheGraphAlways == ASSUME Constants PROVE Spec => []OneAtTheGraph
  <1>1. GraphInv => OneAtTheGraph
    BY DEF GraphInv, UiInv, OneAtTheGraph, Quiet
  <1> QED BY <1>1, GraphInvariant, PTL

(* No graph outlives its media (CMainFrame::CloseMediaPrivate).               *)
THEOREM GraphIsAlwaysCurrent == ASSUME Constants PROVE Spec => []GraphIsCurrent
  <1>1. GraphInv => GraphIsCurrent
    BY DEF GraphInv, GraphTyped, LoadInv, FlagInv, GraphIsCurrent, Answered
  <1> QED BY <1>1, GraphInvariant, PTL

(* No message of an earlier opening is left to be taken for one about this    *)
(* (CMainFrame::CloseMedia, which purges them).                               *)
THEOREM PostIsAlwaysCurrent == ASSUME Constants PROVE Spec => []PostIsCurrent
  <1>1. ASSUME GraphInv PROVE PostIsCurrent
    <2>1. CASE uq = <<>>
      BY <2>1 DEF PostIsCurrent
    <2>2. CASE uq # <<>>
      <3>1. PICK k \in {"postopen", "openfailed"} : uq = <<<<k, opens>>>>
        BY <1>1, <2>2 DEF GraphInv, MsgInv
      <3>2. Len(uq) = 1 /\ uq[1][2] = opens
        BY <3>1
      <3> QED BY <1>1, <2>2, <3>2 DEF GraphInv, MsgInv, PostIsCurrent
    <2> QED BY <2>1, <2>2
  <1> QED BY <1>1, GraphInvariant, PTL

-----------------------------------------------------------------------------
(* The graphics.                                                              *)

(* Everything that was published.                                             *)
PublishedInv ==
    \A p \in Graphics!Planes :
        /\ Graphics!Complete(buffer[p].published.picture) /\ Graphics!Complete(plane[p].frame.picture)
        /\ Graphics!Complete(rend.bitmap[p]) /\ Graphics!Complete(rend.texture[p])
        /\ Graphics!Complete(rend.screen[p])

(* The memory that is drawn into.                                             *)
DrawingInv ==
    \A p \in Graphics!Planes :
        IF java.pc = "half" /\ java.at = p
        THEN buffer[p].drawing # Graphics!Closed /\ buffer[p].drawing[1] = java.drawn
        ELSE Graphics!Complete(buffer[p].drawing)

GraphicsInv == Graphics!TypeOK /\ PublishedInv /\ DrawingInv

(* The types of the parts of the state.                                       *)
Buffer == [drawing : Graphics!Pictures, published : Graphics!Frame, ready : BOOLEAN]
Plane == [frame : Graphics!Frame, dirty : BOOLEAN]
Blanks == [Graphics!Planes -> Graphics!Pictures]

-----------------------------------------------------------------------------
LEMMA BlankIsComplete ==
    /\ Graphics!Closed \in Graphics!Pictures /\ Graphics!Complete(Graphics!Closed)
    /\ Graphics!Blank \in Blanks /\ \A p \in Graphics!Planes : Graphics!Blank[p] = Graphics!Closed
    /\ Graphics!NoFrame \in Graphics!Frame
  <1>1. Graphics!Closed \in Graphics!Pictures
    BY DEF Graphics!Pictures
  <1> QED BY <1>1 DEF Graphics!Complete, Graphics!Blank, Blanks, Graphics!NoFrame, Graphics!Frame

(* Half of a picture drawn over.                                              *)
LEMMA HalfDrawn ==
    ASSUME Graphics!Constants, NEW picture \in Graphics!Pictures, picture # Graphics!Closed,
           NEW n \in 0 .. MaxPictures
    PROVE  /\ [picture EXCEPT ![1] = n] \in Graphics!Pictures
           /\ [picture EXCEPT ![1] = n] # Graphics!Closed
           /\ [picture EXCEPT ![1] = n][1] = n
           /\ [picture EXCEPT ![2] = n] \in Graphics!Pictures
           /\ picture[1] = n => Graphics!Complete([picture EXCEPT ![2] = n])
  <1>1. PICK a \in 0 .. MaxPictures, b \in 0 .. MaxPictures : picture = <<a, b>>
    BY DEF Graphics!Pictures
  <1>2. [picture EXCEPT ![1] = n] = <<n, b>> /\ [picture EXCEPT ![2] = n] = <<a, n>>
    BY <1>1
  <1>3. <<n, b>> \in Graphics!Pictures /\ <<a, n>> \in Graphics!Pictures /\ <<n, b>> # Graphics!Closed
    BY DEF Graphics!Pictures, Graphics!Closed
  <1> QED BY <1>1, <1>2, <1>3 DEF Graphics!Complete

LEMMA GraphicsStart == ASSUME Graphics!Constants, Graphics!Init PROVE GraphicsInv
  <1>1. 1 \in Graphics!Planes /\ 0 \in 0 .. MaxPictures /\ 0 \in 0 .. MaxSwitches
    BY DEF Graphics!Constants, Graphics!Planes
  <1>2. Graphics!TypeOK
    <2>1. java \in [pc : {"idle", "half", "drawn"}, at : Graphics!Planes, drawn : 0 .. MaxPictures,
                    last : [Graphics!Planes -> Graphics!Pictures]]
      BY <1>1, BlankIsComplete DEF Graphics!Init, Blanks
    <2>2. buffer \in [Graphics!Planes -> [drawing : Graphics!Pictures, published : Graphics!Frame,
                                          ready : BOOLEAN]]
      BY BlankIsComplete DEF Graphics!Init
    <2>3. plane \in [Graphics!Planes -> [frame : Graphics!Frame, dirty : BOOLEAN]]
      BY BlankIsComplete DEF Graphics!Init
    <2>4. presenter \in [pc : {"idle", "take", "pump", "present", "osd", "redraw", "gone"},
                         at : Graphics!Planes,
                         set : BOOLEAN, switches : 0 .. MaxSwitches]
      BY <1>1 DEF Graphics!Init
    <2>5. rend \in [bitmap : [Graphics!Planes -> Graphics!Pictures],
                    texture : [Graphics!Planes -> Graphics!Pictures],
                    screen : [Graphics!Planes -> Graphics!Pictures]]
      BY BlankIsComplete DEF Graphics!Init, Graphics!NewRenderer, Blanks
    <2> QED BY <2>1, <2>2, <2>3, <2>4, <2>5 DEF Graphics!Init, Graphics!TypeOK, Graphics!Times
  <1>3. PublishedInv /\ DrawingInv
    BY BlankIsComplete DEF Graphics!Init, PublishedInv, DrawingInv, Graphics!NewRenderer, Graphics!NoFrame
  <1> QED BY <1>2, <1>3 DEF GraphicsInv

(* The invariant is inductive.                                                *)
LEMMA GraphicsKeep == ASSUME Graphics!Constants, GraphicsInv, [Graphics!Next]_(Graphics!vars)
                      PROVE  GraphicsInv'
  <1>0. /\ java \in [pc : {"idle", "half", "drawn"}, at : Graphics!Planes, drawn : 0 .. MaxPictures,
                     last : Blanks]
        /\ buffer \in [Graphics!Planes -> Buffer] /\ plane \in [Graphics!Planes -> Plane]
        /\ \A p \in Graphics!Planes : buffer[p] \in Buffer /\ plane[p] \in Plane
        /\ presenter \in [pc : {"idle", "take", "pump", "present", "osd", "redraw", "gone"},
                          at : Graphics!Planes,
                          set : BOOLEAN, switches : 0 .. MaxSwitches]
        /\ osd \in {"none", "loading", "attached"} /\ redraw \in [pending : 0 .. 3, due : BOOLEAN]
        /\ time \in [now : Graphics!Times, pts : Graphics!Times \cup {Graphics!NoTime}]
        /\ rend \in [bitmap : Blanks, texture : Blanks, screen : Blanks]
        /\ 1 \in Graphics!Planes
        /\ \A p \in Graphics!Planes : p # LastPlane => p + 1 \in Graphics!Planes
    BY DEF GraphicsInv, Graphics!TypeOK, Buffer, Plane, Blanks, Graphics!Planes, Graphics!Constants
  <1>1. ASSUME NEW p \in Graphics!Planes, NEW picture \in {<<0, 0>>, Graphics!Closed},
               Graphics!Window(p, picture),
               UNCHANGED <<plane, presenter, osd, redraw, time, rend>>
        PROVE  GraphicsInv'
    <2>1. picture \in Graphics!Pictures /\ Graphics!Complete(picture)
      BY BlankIsComplete DEF Graphics!Pictures, Graphics!Complete, Graphics!Constants
    <2> DEFINE b == [drawing |-> picture, ready |-> TRUE,
                     published |-> [picture |-> picture, pts |-> Graphics!NoTime]]
    <2>2. b \in Buffer
      BY <2>1 DEF Buffer, Graphics!Frame
    <2>3. buffer' = [buffer EXCEPT ![p] = b] /\ b.drawing = picture /\ b.published.picture = picture
      BY <1>1 DEF Graphics!Window
    <2>4. java' = [java EXCEPT !.last[p] = picture, !.drawn = java.drawn + 1] /\ java.pc = "idle"
          /\ java.drawn < MaxPictures
      BY <1>0, <1>1 DEF Graphics!Window, Graphics!Want
    <2>5. java' \in [pc : {"idle", "half", "drawn"}, at : Graphics!Planes, drawn : 0 .. MaxPictures,
                     last : Blanks]
          /\ java'.pc = "idle"
      <3>1. java.drawn + 1 \in 0 .. MaxPictures /\ [java.last EXCEPT ![p] = picture] \in Blanks
        BY <1>0, <2>1, <2>4 DEF Blanks, Graphics!Constants
      <3>2. java' = [java EXCEPT !.last = [java.last EXCEPT ![p] = picture], !.drawn = java.drawn + 1]
        BY <1>0, <2>4
      <3> QED BY <1>0, <2>4, <3>1, <3>2
    <2> HIDE DEF b
    <2>6. Graphics!TypeOK'
      BY <1>0, <1>1, <2>2, <2>3, <2>5 DEF GraphicsInv, Graphics!TypeOK, Buffer, Blanks
    <2>7. PublishedInv' /\ DrawingInv'
      BY <1>0, <1>1, <2>1, <2>3, <2>4, <2>5 DEF GraphicsInv, PublishedInv, DrawingInv
    <2> QED BY <2>6, <2>7 DEF GraphicsInv
  <1>2. ASSUME NEW p \in Graphics!Planes, Graphics!DrawFirst(p), UNCHANGED <<plane, presenter, osd,
               redraw, time, rend>>
        PROVE  GraphicsInv'
    <2> DEFINE n == java.drawn + 1
               d == [buffer[p].drawing EXCEPT ![1] = n]
    <2>1. n \in 0 .. MaxPictures /\ buffer[p].drawing \in Graphics!Pictures
          /\ buffer[p].drawing # Graphics!Closed
      BY <1>0, <1>2 DEF Graphics!DrawFirst, Graphics!Constants, Buffer
    <2>2. d \in Graphics!Pictures /\ d # Graphics!Closed /\ d[1] = n
      BY <2>1, HalfDrawn
    <2>3. buffer' = [buffer EXCEPT ![p].drawing = d]
          /\ java' = [java EXCEPT !.pc = "half", !.at = p, !.drawn = n]
          /\ java.pc = "idle"
      BY <1>0, <1>2 DEF Graphics!DrawFirst, Graphics!Draw, Buffer
    <2> HIDE DEF d, n
    <2>4. /\ buffer' \in [Graphics!Planes -> Buffer] /\ buffer'[p].drawing = d
          /\ \A q \in Graphics!Planes : buffer'[q].published = buffer[q].published
          /\ \A q \in Graphics!Planes \ {p} : buffer'[q] = buffer[q]
      BY <1>0, <2>2, <2>3 DEF Buffer
    <2>5. java' \in [pc : {"idle", "half", "drawn"}, at : Graphics!Planes, drawn : 0 .. MaxPictures,
                     last : Blanks]
          /\ java'.pc = "half" /\ java'.at = p /\ java'.drawn = n
      BY <1>0, <2>1, <2>3
    <2>6. Graphics!TypeOK'
      BY <1>2, <2>4, <2>5 DEF GraphicsInv, Graphics!TypeOK, Buffer, Blanks
    <2>7. PublishedInv' /\ DrawingInv'
      BY <1>2, <2>2, <2>3, <2>4, <2>5 DEF GraphicsInv, PublishedInv, DrawingInv
    <2> QED BY <2>6, <2>7 DEF GraphicsInv
  <1>3. ASSUME Graphics!DrawSecond, UNCHANGED <<plane, presenter, osd, redraw, time, rend>>
        PROVE  GraphicsInv'
    <2> DEFINE p == java.at
               d == [buffer[p].drawing EXCEPT ![2] = java.drawn]
    <2>1. /\ p \in Graphics!Planes /\ java.drawn \in 0 .. MaxPictures
          /\ buffer[p].drawing \in Graphics!Pictures
          /\ buffer[p].drawing # Graphics!Closed /\ buffer[p].drawing[1] = java.drawn
      BY <1>0, <1>3 DEF Graphics!DrawSecond, Buffer, GraphicsInv, DrawingInv
    <2>2. d \in Graphics!Pictures /\ Graphics!Complete(d)
      BY <2>1, HalfDrawn
    <2>3. buffer' = [buffer EXCEPT ![p].drawing = d] /\ java' = [java EXCEPT !.pc = "drawn"]
          /\ java.pc = "half"
      BY <1>0, <1>3, <2>1 DEF Graphics!DrawSecond, Graphics!Draw, Buffer
    <2> HIDE DEF d
    <2>4. /\ buffer' \in [Graphics!Planes -> Buffer] /\ buffer'[p].drawing = d
          /\ \A q \in Graphics!Planes : buffer'[q].published = buffer[q].published
          /\ \A q \in Graphics!Planes \ {p} : buffer'[q] = buffer[q]
      BY <1>0, <2>1, <2>2, <2>3 DEF Buffer
    <2>5. java' \in [pc : {"idle", "half", "drawn"}, at : Graphics!Planes, drawn : 0 .. MaxPictures,
                     last : Blanks]
          /\ java'.pc = "drawn"
      BY <1>0, <2>3
    <2>6. Graphics!TypeOK'
      BY <1>3, <2>4, <2>5 DEF GraphicsInv, Graphics!TypeOK, Buffer, Blanks
    <2>7. PublishedInv' /\ DrawingInv'
      BY <1>3, <2>2, <2>3, <2>4, <2>5 DEF GraphicsInv, PublishedInv, DrawingInv
    <2> QED BY <2>6, <2>7 DEF GraphicsInv
  <1>4. ASSUME NEW pts \in {Graphics!NoTime, 1}, Graphics!Flush(pts), UNCHANGED <<plane, presenter, osd,
               redraw, time, rend>>
        PROVE  GraphicsInv'
    <2> DEFINE p == java.at
               f == [picture |-> buffer[p].drawing, pts |-> pts]
    <2>1. p \in Graphics!Planes /\ buffer[p].drawing \in Graphics!Pictures
          /\ Graphics!Complete(buffer[p].drawing) /\ java.pc = "drawn"
      BY <1>0, <1>4 DEF Graphics!Flush, Buffer, GraphicsInv, DrawingInv
    <2>2. f \in Graphics!Frame
      BY <2>1 DEF Graphics!Frame, Graphics!Times
    <2>3. buffer' = [buffer EXCEPT ![p].ready = TRUE, ![p].published = f]
          /\ java' = [java EXCEPT !.last[p] = buffer[p].drawing, !.pc = "idle"]
      BY <1>0, <1>4 DEF Graphics!Flush, Graphics!Want
    <2>4. /\ buffer' \in [Graphics!Planes -> Buffer] /\ buffer'[p].published.picture = buffer[p].drawing
          /\ \A q \in Graphics!Planes : buffer'[q].drawing = buffer[q].drawing
          /\ \A q \in Graphics!Planes \ {p} : buffer'[q] = buffer[q]
      BY <1>0, <2>1, <2>2, <2>3, ZenonT(40) DEF Buffer
    <2>5. java' \in [pc : {"idle", "half", "drawn"}, at : Graphics!Planes, drawn : 0 .. MaxPictures,
                     last : Blanks]
          /\ java'.pc = "idle"
      BY <1>0, <2>1, <2>3 DEF Blanks
    <2>6. Graphics!TypeOK'
      BY <1>4, <2>4, <2>5 DEF GraphicsInv, Graphics!TypeOK, Buffer, Blanks
    <2>7. PublishedInv' /\ DrawingInv'
      BY <1>4, <2>1, <2>4, <2>5 DEF GraphicsInv, PublishedInv, DrawingInv
    <2> QED BY <2>6, <2>7 DEF GraphicsInv
  <1>5. CASE Graphics!Java
    <2>1. CASE \E p \in Graphics!Planes : Graphics!Window(p, <<0, 0>>) \/ Graphics!Window(p,
                                                                                          Graphics!Closed)
      BY <1>1, <1>5, <2>1 DEF Graphics!Java
    <2>2. CASE \E p \in Graphics!Planes : Graphics!DrawFirst(p)
      BY <1>2, <1>5, <2>2 DEF Graphics!Java
    <2>3. CASE Graphics!DrawSecond
      BY <1>3, <1>5, <2>3 DEF Graphics!Java
    <2>4. CASE \E pts \in {Graphics!NoTime, 1} : Graphics!Flush(pts)
      BY <1>4, <1>5, <2>4 DEF Graphics!Java
    <2> QED BY <1>5, <2>1, <2>2, <2>3, <2>4 DEF Graphics!Java
  <1>6. ASSUME UNCHANGED <<java, buffer>>,
               plane' \in [Graphics!Planes -> Plane],
               \A p \in Graphics!Planes : Graphics!Complete(plane'[p].frame.picture),
               presenter' \in [pc : {"idle", "take", "pump", "present", "osd", "redraw", "gone"},
                               at : Graphics!Planes,
                               set : BOOLEAN, switches : 0 .. MaxSwitches],
               osd' \in {"none", "loading", "attached"}, redraw' \in [pending : 0 .. 3, due : BOOLEAN],
               time' \in [now : Graphics!Times, pts : Graphics!Times \cup {Graphics!NoTime}],
               rend' \in [bitmap : Blanks, texture : Blanks, screen : Blanks],
               \A p \in Graphics!Planes : /\ Graphics!Complete(rend'.bitmap[p])
                                          /\ Graphics!Complete(rend'.texture[p])
                                          /\ Graphics!Complete(rend'.screen[p])
        PROVE  GraphicsInv'
    <2>1. Graphics!TypeOK'
      BY <1>0, <1>6 DEF GraphicsInv, Graphics!TypeOK, Plane, Blanks
    <2>2. PublishedInv' /\ DrawingInv'
      BY <1>6 DEF GraphicsInv, PublishedInv, DrawingInv
    <2> QED BY <2>1, <2>2 DEF GraphicsInv
  <1>7. /\ \A p \in Graphics!Planes : Graphics!Complete(plane[p].frame.picture)
        /\ \A p \in Graphics!Planes : /\ Graphics!Complete(rend.bitmap[p])
                                      /\ Graphics!Complete(rend.texture[p])
                                      /\ Graphics!Complete(rend.screen[p])
        /\ Graphics!NewRenderer \in [bitmap : Blanks, texture : Blanks, screen : Blanks]
        /\ \A p \in Graphics!Planes : /\ Graphics!Complete(Graphics!NewRenderer.bitmap[p])
                                      /\ Graphics!Complete(Graphics!NewRenderer.texture[p])
                                      /\ Graphics!Complete(Graphics!NewRenderer.screen[p])
    BY BlankIsComplete DEF GraphicsInv, PublishedInv, Graphics!NewRenderer
  <1>8. CASE Graphics!Tick
    BY <1>0, <1>6, <1>7, <1>8 DEF Graphics!Tick, Graphics!UiGoes
  <1>9. CASE Graphics!Take
    <2> DEFINE p == presenter.at
    <2>1. p \in Graphics!Planes /\ UNCHANGED <<java, osd, redraw, time, rend>>
      BY <1>0, <1>9 DEF Graphics!Take
    <2>2. presenter' \in [pc : {"idle", "take", "pump", "present", "osd", "redraw", "gone"},
                          at : Graphics!Planes,
                          set : BOOLEAN, switches : 0 .. MaxSwitches]
      BY <1>0, <1>9, ZenonT(40) DEF Graphics!Take, Graphics!UiGoes
    <2>3. CASE ~buffer[p].ready
      <3>1. UNCHANGED <<plane, buffer>>
        BY <1>9, <2>3 DEF Graphics!Take
      <3> QED BY <1>0, <1>6, <1>7, <2>1, <2>2, <3>1
    <2>4. CASE buffer[p].ready
      <3>1. plane' = [plane EXCEPT ![p] = [frame |-> buffer[p].published, dirty |-> TRUE]]
            /\ buffer' = [buffer EXCEPT ![p].published.picture = Graphics!Closed, ![p].ready = FALSE]
        BY <1>9, <2>4 DEF Graphics!Take, Graphics!Taken
      <3>2. buffer[p].published \in Graphics!Frame /\ Graphics!Complete(buffer[p].published.picture)
        BY <1>0, <2>1 DEF Buffer, GraphicsInv, PublishedInv
      <3>3. /\ plane' \in [Graphics!Planes -> Plane]
            /\ \A q \in Graphics!Planes : Graphics!Complete(plane'[q].frame.picture)
        BY <1>0, <1>7, <2>1, <3>1, <3>2 DEF Plane
      <3>4. /\ buffer' \in [Graphics!Planes -> Buffer] /\ buffer'[p].published.picture = Graphics!Closed
            /\ \A q \in Graphics!Planes : buffer'[q].drawing = buffer[q].drawing
            /\ \A q \in Graphics!Planes \ {p} : buffer'[q] = buffer[q]
        BY <1>0, <2>1, <3>1, <3>2, BlankIsComplete, ZenonT(40) DEF Buffer, Graphics!Frame
      <3>5. Graphics!TypeOK'
        BY <2>1, <2>2, <3>3, <3>4 DEF GraphicsInv, Graphics!TypeOK, Buffer, Plane
      <3>6. PublishedInv' /\ DrawingInv'
        BY <2>1, <3>3, <3>4, BlankIsComplete DEF GraphicsInv, PublishedInv, DrawingInv
      <3> QED BY <3>5, <3>6 DEF GraphicsInv
    <2> QED BY <2>3, <2>4
  <1>10. CASE Graphics!Pump
    <2>1. presenter' \in [pc : {"idle", "take", "pump", "present", "osd", "redraw", "gone"},
                          at : Graphics!Planes,
                          set : BOOLEAN, switches : 0 .. MaxSwitches]
      <3>1. CASE presenter' = [presenter EXCEPT !.pc = "present", !.set = FALSE]
        BY <1>0, <3>1
      <3>2. CASE presenter.switches < MaxSwitches
                 /\ presenter' = [presenter EXCEPT !.pc = "idle", !.switches = presenter.switches + 1]
        <4>1. presenter.switches + 1 \in 0 .. MaxSwitches
          BY <1>0, <3>2 DEF Graphics!Constants
        <4> QED BY <1>0, <3>2, <4>1
      <3> QED BY <1>0, <1>10, <3>1, <3>2 DEF Graphics!Pump
    <2>2. rend' \in {rend, Graphics!NewRenderer} /\ osd' \in {"none", "loading", "attached"}
          /\ redraw' \in [pending : 0 .. 3, due : BOOLEAN]
          /\ time' \in [now : Graphics!Times, pts : Graphics!Times \cup {Graphics!NoTime}]
      BY <1>0, <1>10 DEF Graphics!Pump, Graphics!Detach, Graphics!Times
    <2> QED BY <1>0, <1>6, <1>7, <1>10, <2>1, <2>2 DEF Graphics!Pump
  <1>11. CASE Graphics!AttachRenderer
    <2>1. plane' \in [Graphics!Planes -> Plane]
          /\ \A p \in Graphics!Planes : plane'[p].frame = plane[p].frame
      <3>1. plane \in [Graphics!Planes -> Plane]
        BY <1>0 DEF Plane
      <3>2. plane' = [p \in Graphics!Planes |-> [plane[p] EXCEPT !.dirty = TRUE]]
        BY <1>11 DEF Graphics!AttachRenderer, Graphics!Attached
      <3>3. ASSUME NEW p \in Graphics!Planes
            PROVE  plane'[p] \in Plane /\ plane'[p].frame = plane[p].frame
        BY ONLY <3>1, <3>2, p \in Graphics!Planes DEF Plane
      <3> QED BY <3>2, <3>3
    <2> QED BY <1>0, <1>6, <1>7, <1>11, <2>1 DEF Graphics!AttachRenderer
  <1>12. CASE Graphics!PresentPlane
    BY <1>0, <1>6, <1>7, <1>12, ZenonT(40) DEF Graphics!PresentPlane, Graphics!NextPlane, Graphics!UiGoes
  <1>13. CASE Graphics!BitmapSet
    <2>1. plane' \in [Graphics!Planes -> Plane]
          /\ \A p \in Graphics!Planes : plane'[p].frame = plane[p].frame
      BY <1>0, <1>13 DEF Graphics!BitmapSet, Plane
    <2>2. presenter' \in [pc : {"idle", "take", "pump", "present", "osd", "redraw", "gone"},
                          at : Graphics!Planes,
                          set : BOOLEAN, switches : 0 .. MaxSwitches]
      BY <1>0, <1>13 DEF Graphics!BitmapSet
    <2>3. plane[presenter.at].frame.picture \in Graphics!Pictures /\ presenter.at \in Graphics!Planes
      BY <1>0 DEF Plane, Graphics!Frame
    <2>4. rend' \in [bitmap : Blanks, texture : Blanks, screen : Blanks]
          /\ \A p \in Graphics!Planes : /\ Graphics!Complete(rend'.bitmap[p])
                                        /\ Graphics!Complete(rend'.texture[p])
                                        /\ Graphics!Complete(rend'.screen[p])
      BY <1>0, <1>7, <1>13, <2>3 DEF Graphics!BitmapSet, Blanks
    <2> QED BY <1>0, <1>6, <1>7, <1>13, <2>1, <2>2, <2>4 DEF Graphics!BitmapSet
  <1>14. CASE Graphics!CloseMedia
    BY <1>0, <1>6, <1>7, <1>14 DEF Graphics!CloseMedia, Graphics!UiGoes
  <1>15. CASE Graphics!Redraw
    <2>1. presenter' \in [pc : {"idle", "take", "pump", "present", "osd", "redraw", "gone"},
                          at : Graphics!Planes,
                          set : BOOLEAN, switches : 0 .. MaxSwitches]
      BY <1>0, <1>15 DEF Graphics!Redraw, Graphics!UiGoes
    <2>2. redraw' \in [pending : 0 .. 3, due : BOOLEAN]
      <3> DEFINE r == IF presenter.set THEN [pending |-> Graphics!Redraws, due |-> TRUE] ELSE redraw
      <3>1. r \in [pending : 0 .. 3, due : BOOLEAN]
        BY <1>0 DEF Graphics!Redraws
      <3>2. r.pending > 0 => r.pending - 1 \in 0 .. 3
        BY <3>1
      <3>3. redraw' = r \/ (r.pending > 0 /\ redraw' = [pending |-> r.pending - 1, due |-> FALSE])
        BY <1>15 DEF Graphics!Redraw
      <3> HIDE DEF r
      <3>4. CASE redraw' = r
        BY <3>1, <3>4
      <3>5. CASE r.pending > 0 /\ redraw' = [pending |-> r.pending - 1, due |-> FALSE]
        BY <3>2, <3>5
      <3> QED BY <3>3, <3>4, <3>5
    <2>3. rend' = rend \/ rend' = [rend EXCEPT !.screen = rend.texture]
      BY <1>15 DEF Graphics!Redraw
    <2>4. rend' \in [bitmap : Blanks, texture : Blanks, screen : Blanks]
          /\ \A p \in Graphics!Planes : /\ Graphics!Complete(rend'.bitmap[p])
                                        /\ Graphics!Complete(rend'.texture[p])
                                        /\ Graphics!Complete(rend'.screen[p])
      BY <1>0, <1>7, <2>3
    <2> QED BY <1>0, <1>6, <1>7, <1>15, <2>1, <2>2, <2>4 DEF Graphics!Redraw
  <1>16. CASE Graphics!Key
    BY <1>0, <1>6, <1>7, <1>16 DEF Graphics!Key
  <1>17. CASE Graphics!Upload
    BY <1>0, <1>6, <1>7, <1>17 DEF Graphics!Upload
  <1>18. CASE Graphics!RedrawDue
    BY <1>0, <1>6, <1>7, <1>18 DEF Graphics!RedrawDue
  <1>19. CASE Graphics!Playback
    BY <1>0, <1>6, <1>7, <1>19 DEF Graphics!Playback, Graphics!Times
  <1>20. CASE UNCHANGED Graphics!vars
    BY <1>0, <1>6, <1>7, <1>20 DEF Graphics!vars
  <1> QED BY <1>5, <1>8, <1>9, <1>10, <1>11, <1>12, <1>13, <1>14, <1>15, <1>16, <1>17, <1>18, <1>19, <1>20
          DEF Graphics!Next, Graphics!UI

-----------------------------------------------------------------------------
Unused(d) == data[d] = NoData

(* A Start that did not happen yet has no worker and is not the current one.  *)
UnusedInv == \A d \in Monitor!Ids : Unused(d) => worker[d].pc = "none" /\ mData # d

(* Every Data but the current one was told to stop.                           *)
StoppedInv ==
    \A d \in Monitor!Ids : ~Unused(d) =>
        data[d].initial # Gone /\ (mData # d => data[d].stopped)

(* Whatever makes a loss of the current disc, or is about to, was seen.       *)
SeenInv ==
    \A d \in Monitor!Ids : mData = d /\ ~data[d].seen =>
        /\ data[d].loss = "Present"
        /\ drive = data[d].initial
        /\ worker[d].pc = "judge" => worker[d].read = data[d].initial

MonitorInv == Monitor!TypeOK /\ UnusedInv /\ StoppedInv /\ SeenInv

-----------------------------------------------------------------------------
(* Start finds a Data that is not in use.                                     *)
LEMMA NewIsUnused ==
    ASSUME \E d \in Monitor!Ids : data[d] = NoData
    PROVE  Monitor!New \in Monitor!Ids /\ data[Monitor!New] = NoData
  BY DEF Monitor!New

(* Nothing plays at first.                                                    *)
LEMMA MonitorStarts == ASSUME Monitor!Constants, Monitor!Init PROVE MonitorInv
  BY DEF Monitor!Constants, Monitor!Init, MonitorInv, Monitor!TypeOK, UnusedInv, StoppedInv, SeenInv,
     Unused, Monitor!Ids

(* What the player changes, it changes in the current Data, which exists.     *)
LEMMA CurrentExists ==
    ASSUME Monitor!Constants, MonitorInv
    PROVE  /\ mData # 0 => mData \in Monitor!Ids /\ data[mData] \in Monitor!Data /\ ~Unused(mData)
           /\ \A d \in Monitor!Ids : d # 0 /\ (~Unused(d) => data[d] \in Monitor!Data)
           /\ \A d \in Monitor!Ids : Unused(d) => data[d] \notin Monitor!Data
  <1>1. 0 \notin Monitor!Ids
    BY DEF Monitor!Constants, Monitor!Ids
  <1>2. \A d \in Monitor!Ids : data[d] \in Monitor!Data \cup {NoData}
    BY DEF MonitorInv, Monitor!TypeOK
  <1> QED BY <1>1, <1>2 DEF Monitor!Constants, MonitorInv, Monitor!TypeOK, UnusedInv, Unused

(* Telling the current worker to stop.                                        *)
LEMMA StoppedFacts ==
    ASSUME Monitor!Constants, MonitorInv
    PROVE  /\ Monitor!Stopped \in [Monitor!Ids -> Monitor!Data \cup {NoData}]
           /\ \A d \in Monitor!Ids : /\ Monitor!Stopped[d] = NoData <=> Unused(d)
                                     /\ ~Unused(d) =>
                                           Monitor!Stopped[d].stopped /\ Monitor!Stopped[d].initial # Gone
  <1>1. CASE mData = 0
    BY <1>1, CurrentExists DEF Monitor!Stopped, MonitorInv, Monitor!TypeOK, StoppedInv, Unused
  <1>2. CASE mData # 0
    <2>1. /\ mData \in Monitor!Ids /\ data[mData] \in Monitor!Data
          /\ data \in [Monitor!Ids -> Monitor!Data \cup {NoData}]
          /\ Monitor!Stopped = [data EXCEPT ![mData].stopped = TRUE]
      BY <1>2, CurrentExists DEF Monitor!Stopped, MonitorInv, Monitor!TypeOK
    <2>2. /\ Monitor!Stopped[mData] \in Monitor!Data /\ Monitor!Stopped[mData].stopped
          /\ Monitor!Stopped[mData] # NoData
          /\ Monitor!Stopped[mData].initial = data[mData].initial
      BY <2>1 DEF Monitor!Data, Monitor!Constants
    <2>3. \A d \in Monitor!Ids : d # mData => Monitor!Stopped[d] = data[d]
      BY <2>1
    <2>4. Monitor!Stopped \in [Monitor!Ids -> Monitor!Data \cup {NoData}]
      BY <2>1, <2>2
    <2> QED BY <1>2, <2>2, <2>3, <2>4, CurrentExists DEF MonitorInv, StoppedInv, Unused
  <1> QED BY <1>1, <1>2

(* The invariant is inductive.                                                *)
LEMMA MonitorKeeps == ASSUME Monitor!Constants, MonitorInv, [Monitor!Next]_(Monitor!vars)
                      PROVE  MonitorInv'
  <1>0. /\ data \in [Monitor!Ids -> Monitor!Data \cup {NoData}]
        /\ \A d \in Monitor!Ids : worker[d] \in [pc : {"none", "loop", "probe", "judge", "ended"},
                                                 read : Media \cup {Gone}]
        /\ worker \in [Monitor!Ids -> [pc : {"none", "loop", "probe", "judge", "ended"},
                                       read : Media \cup {Gone}]]
    BY DEF MonitorInv, Monitor!TypeOK
  <1>1. CASE Monitor!Start
    <2>1. Monitor!New \in Monitor!Ids /\ data[Monitor!New] = NoData
      BY <1>1, NewIsUnused DEF Monitor!Start
    <2> DEFINE n == Monitor!New
    <2> HIDE DEF n
    <2>2. CASE drive = Gone
      <3>1. data' = Monitor!Stopped /\ mData' = 0 /\ UNCHANGED <<worker, drive, changes>>
        BY <1>1, <2>2 DEF Monitor!Start
      <3>2. Monitor!TypeOK'
        BY <3>1, StoppedFacts DEF MonitorInv, Monitor!TypeOK
      <3>3. UnusedInv' /\ StoppedInv' /\ SeenInv'
        BY <3>1, StoppedFacts, CurrentExists DEF MonitorInv, UnusedInv, StoppedInv, SeenInv, Unused
      <3> QED BY <3>2, <3>3 DEF MonitorInv
    <2>3. CASE drive # Gone
      <3> DEFINE new == [initial |-> drive, stopped |-> FALSE, loss |-> "Present", seen |-> FALSE]
      <3>1. /\ data' = [Monitor!Stopped EXCEPT ![n] = new]
            /\ mData' = n /\ worker' = [worker EXCEPT ![n].pc = "loop"]
            /\ n \in Monitor!Ids /\ Unused(n) /\ drive \in Media /\ drive' = drive /\ changes' = changes
        BY <1>1, <2>1, <2>3 DEF Monitor!Start, n, Unused, MonitorInv, Monitor!TypeOK
      <3>2. new \in Monitor!Data /\ new # NoData
        <4>1. drive \in Media
          BY <3>1
        <4>2. new \in Monitor!Data
          BY <4>1 DEF Monitor!Data, Monitor!Reasons
        <4> QED BY <4>2 DEF Monitor!Constants
      <3>3. /\ \A d \in Monitor!Ids \ {n} : data'[d] = Monitor!Stopped[d] /\ worker'[d] = worker[d]
            /\ data'[n] = new
            /\ worker'[n] = [worker[n] EXCEPT !.pc = "loop"]
        BY <1>0, <3>1, StoppedFacts
      <3>4. Monitor!TypeOK'
        <4>1. data' \in [Monitor!Ids -> Monitor!Data \cup {NoData}]
          BY <3>1, <3>2, StoppedFacts
        <4>2. worker' \in [Monitor!Ids -> [pc : {"none", "loop", "probe", "judge", "ended"},
                                           read : Media \cup {Gone}]]
          BY <1>0, <3>1
        <4> QED BY <3>1, <4>1, <4>2 DEF MonitorInv, Monitor!TypeOK
      <3>5. UnusedInv'
        BY <3>1, <3>2, <3>3, StoppedFacts DEF MonitorInv, UnusedInv, Unused
      <3>6. StoppedInv'
        BY <2>3, <3>1, <3>2, <3>3, StoppedFacts DEF StoppedInv, Unused
      <3>7. SeenInv'
        BY <1>0, <3>1, <3>3 DEF SeenInv
      <3> QED BY <3>4, <3>5, <3>6, <3>7 DEF MonitorInv
    <2> QED BY <2>2, <2>3
  <1>2. CASE Monitor!Stop
    <2>1. data' = Monitor!Stopped /\ mData' = 0 /\ UNCHANGED <<worker, drive, changes>>
      BY <1>2 DEF Monitor!Stop
    <2>2. Monitor!TypeOK'
      BY <2>1, StoppedFacts DEF MonitorInv, Monitor!TypeOK
    <2>3. UnusedInv' /\ StoppedInv' /\ SeenInv'
      BY <2>1, StoppedFacts, CurrentExists DEF MonitorInv, UnusedInv, StoppedInv, SeenInv, Unused
    <2> QED BY <2>2, <2>3 DEF MonitorInv
  <1>3. CASE Monitor!DeviceRemoved
    <2>1. /\ mData \in Monitor!Ids /\ data[mData] \in Monitor!Data /\ ~Unused(mData)
          /\ UNCHANGED <<worker, drive, changes, mData>>
      BY <1>3, CurrentExists DEF Monitor!DeviceRemoved
    <2>2. PICK r \in Monitor!Reasons : data' = [data EXCEPT ![mData] = [data[mData] EXCEPT !.loss = r,
                                                                        !.seen = TRUE]]
      <3>1. CASE data[mData].loss = "Present"
        <4>1. Monitor!Lost(mData, "Removed") = [data EXCEPT ![mData].loss = "Removed"]
          BY <3>1 DEF Monitor!Lost
        <4> QED BY <1>0, <1>3, <2>1, <4>1 DEF Monitor!DeviceRemoved, Monitor!Reasons, Monitor!Data
      <3>2. CASE data[mData].loss # "Present"
        <4>1. Monitor!Lost(mData, "Removed") = data /\ data[mData].loss \in Monitor!Reasons
          BY <2>1, <3>2 DEF Monitor!Lost, Monitor!Data
        <4>2. [data[mData] EXCEPT !.loss = data[mData].loss,
               !.seen = TRUE] = [data[mData] EXCEPT !.seen = TRUE]
          BY <2>1 DEF Monitor!Data
        <4> QED BY <1>0, <1>3, <2>1, <4>1, <4>2 DEF Monitor!DeviceRemoved
      <3> QED BY <3>1, <3>2
    <2>3. /\ data'[mData] \in Monitor!Data /\ data'[mData].seen /\ data'[mData] # NoData
          /\ data'[mData].initial = data[mData].initial
          /\ \A d \in Monitor!Ids : d # mData => data'[d] = data[d]
          /\ data' \in [Monitor!Ids -> Monitor!Data \cup {NoData}]
      BY <1>0, <2>1, <2>2 DEF Monitor!Data, Monitor!Constants
    <2>4. Monitor!TypeOK'
      BY <2>1, <2>3 DEF MonitorInv, Monitor!TypeOK
    <2>5. UnusedInv' /\ StoppedInv'
      BY <2>1, <2>3 DEF MonitorInv, UnusedInv, StoppedInv, Unused
    <2>6. SeenInv'
      BY <2>1, <2>3 DEF SeenInv
    <2> QED BY <2>4, <2>5, <2>6 DEF MonitorInv
  <1>4. ASSUME NEW medium \in Media \cup {Gone}, Monitor!Change(medium) PROVE MonitorInv'
    <2>1. drive' = medium /\ changes' \in 0 .. MaxChanges /\ UNCHANGED <<mData, worker>>
      BY <1>4 DEF Monitor!Change, Monitor!Constants, MonitorInv, Monitor!TypeOK
    <2>2. CASE mData = 0 \/ medium = data[mData].initial
      <3>1. data' = data
        BY <1>4, <2>2 DEF Monitor!Change
      <3> QED BY <2>1, <2>2, <3>1, CurrentExists
              DEF MonitorInv, Monitor!TypeOK, UnusedInv, StoppedInv, SeenInv, Unused
    <2>3. CASE mData # 0 /\ medium # data[mData].initial
      <3>1. mData \in Monitor!Ids /\ data[mData] \in Monitor!Data
            /\ data' = [data EXCEPT ![mData].seen = TRUE]
        BY <1>4, <2>3, CurrentExists DEF Monitor!Change
      <3>2. /\ data'[mData] \in Monitor!Data /\ data'[mData].seen /\ data'[mData] # NoData
            /\ data'[mData].initial = data[mData].initial
            /\ \A d \in Monitor!Ids : d # mData => data'[d] = data[d]
            /\ data' \in [Monitor!Ids -> Monitor!Data \cup {NoData}]
        BY <1>0, <3>1 DEF Monitor!Data, Monitor!Constants
      <3>3. Monitor!TypeOK'
        BY <2>1, <3>2 DEF MonitorInv, Monitor!TypeOK
      <3>4. UnusedInv' /\ StoppedInv' /\ SeenInv'
        BY <2>1, <2>3, <3>1, <3>2, CurrentExists DEF MonitorInv, UnusedInv, StoppedInv, SeenInv, Unused
      <3> QED BY <3>3, <3>4 DEF MonitorInv
    <2> QED BY <2>2, <2>3
  <1>5. ASSUME NEW d \in Monitor!Ids, Monitor!Loop(d) PROVE MonitorInv'
    BY <1>0, <1>5 DEF Monitor!Loop, Monitor!WorkerGoes, Monitor!Own, MonitorInv, Monitor!TypeOK, UnusedInv,
       StoppedInv, SeenInv, Unused
  <1>6. ASSUME NEW d \in Monitor!Ids, Monitor!Probe(d) PROVE MonitorInv'
    BY <1>0, <1>6 DEF Monitor!Probe, Monitor!Identity, MonitorInv, Monitor!TypeOK, UnusedInv, StoppedInv,
       SeenInv, Unused
  <1>7. ASSUME NEW d \in Monitor!Ids, Monitor!Judge(d) PROVE MonitorInv'
    <2>1. CASE data[d].stopped
      BY <1>0, <1>7, <2>1, SMTT(40) DEF Monitor!Judge, Monitor!WorkerGoes, Monitor!Own, MonitorInv, Monitor!TypeOK,
         UnusedInv, StoppedInv, SeenInv, Unused
    <2>2. CASE ~data[d].stopped
      <3>1. ~Unused(d) /\ mData = d /\ data[d] \in Monitor!Data
        BY <1>0, <1>7, <2>2 DEF Monitor!Judge, MonitorInv, UnusedInv, StoppedInv, Unused
      <3>2. data' = data \/ \E r \in Monitor!Reasons : data' = [data EXCEPT ![d].loss = r]
        BY <1>7, <2>2 DEF Monitor!Judge, Monitor!Own, Monitor!Lost, Monitor!Reasons
      <3>3. /\ data' \in [Monitor!Ids -> Monitor!Data \cup {NoData}] /\ data'[d] \in Monitor!Data
            /\ data'[d].initial = data[d].initial /\ data'[d].stopped = data[d].stopped
            /\ \A e \in Monitor!Ids : e # d => data'[e] = data[e]
        BY <1>0, <3>1, <3>2 DEF Monitor!Data
      <3>4. worker' = [worker EXCEPT ![d].pc = "loop"] /\ UNCHANGED <<drive, changes, mData>>
        BY <1>7, <2>2 DEF Monitor!Judge, Monitor!WorkerGoes, Monitor!Own
      <3>5. Monitor!TypeOK'
        BY <1>0, <3>3, <3>4 DEF MonitorInv, Monitor!TypeOK
      <3>6. UnusedInv' /\ StoppedInv'
        <4>1. data'[d] # NoData
          BY <3>3 DEF Monitor!Constants
        <4>2. \A e \in Monitor!Ids : /\ data'[e] = NoData <=> data[e] = NoData
                                      /\ (e # d => worker'[e] = worker[e])
          BY <1>0, <3>1, <3>3, <3>4, <4>1 DEF Unused
        <4>3. UnusedInv'
          BY <3>1, <3>4, <4>1, <4>2 DEF MonitorInv, UnusedInv, Unused
        <4>4. StoppedInv'
          BY <3>1, <3>3, <3>4, <4>1, <4>2 DEF MonitorInv, StoppedInv, Unused
        <4> QED BY <4>3, <4>4
      <3>7. SeenInv'
        <4>1. ~data[d].seen => data' = data
          BY <1>7, <2>2, <3>1 DEF Monitor!Judge, Monitor!Own, MonitorInv, SeenInv, StoppedInv
        <4>2. ASSUME NEW e \in Monitor!Ids, mData' = e, ~data'[e].seen
              PROVE  /\ data'[e].loss = "Present" /\ drive' = data'[e].initial
                     /\ worker'[e].pc = "judge" => worker'[e].read = data'[e].initial
          <5>1. e = d /\ worker'[d].pc = "loop"
            BY <1>0, <3>1, <3>4, <4>2
          <5>2. data'[d].seen = data[d].seen
            BY <1>0, <3>1, <3>2 DEF Monitor!Data
          <5> QED BY <3>1, <3>4, <4>1, <4>2, <5>1, <5>2 DEF MonitorInv, SeenInv
        <4> QED BY <4>2 DEF SeenInv
      <3> QED BY <3>5, <3>6, <3>7 DEF MonitorInv
    <2> QED BY <2>1, <2>2
  <1>8. CASE UNCHANGED Monitor!vars
    BY <1>8 DEF Monitor!vars, MonitorInv, Monitor!TypeOK, UnusedInv, StoppedInv, SeenInv, Unused
  <1> QED BY <1>1, <1>2, <1>3, <1>4, <1>5, <1>6, <1>7, <1>8 DEF Monitor!Next, Monitor!Worker

-----------------------------------------------------------------------------
(* The graphics and the monitor as parts of playback: what a behaviour does   *)
(* to another part changes nothing here.                                      *)
LEMMA GraphicsRun == PlaybackSteps => Graphics!Spec
  <1>1. PlaybackInit => Graphics!Init
    BY DEF PlaybackInit
  <1>2. [PlaybackNext]_allVars => [Graphics!Next]_(Graphics!vars)
    BY DEF PlaybackNext, allVars, graphicsVars, Graphics!vars,
           InSplitter, InGraph, InMonitor, InNavigation, InSettings
  <1> QED BY <1>1, <1>2, PTL DEF PlaybackSteps, Graphics!Spec

LEMMA GraphicsInvariant == PlaybackSteps => []GraphicsInv
  <1>1. Graphics!Init => GraphicsInv
    BY GraphicsStart, PlaybackAssumption
  <1>2. GraphicsInv /\ [Graphics!Next]_(Graphics!vars) => GraphicsInv'
    BY GraphicsKeep, PlaybackAssumption
  <1> QED BY <1>1, <1>2, GraphicsRun, PTL DEF Graphics!Spec

(* Where the disc is not looked at, there is no monitor.                      *)
LEMMA MonitorInvariant == PlaybackSteps => [](part = "monitor" => MonitorInv)
  <1> DEFINE Inv == part = "monitor" => MonitorInv
  <1>1. PlaybackInit => Inv
    BY MonitorStarts, PlaybackAssumption DEF PlaybackInit
  <1>2. Inv /\ [PlaybackNext]_allVars => Inv'
    <2> SUFFICES ASSUME Inv, [PlaybackNext]_allVars, part' = "monitor" PROVE MonitorInv'
      OBVIOUS
    <2>1. part = "monitor"
      BY DEF PlaybackNext, allVars, InSplitter, InGraph, InGraphics, InMonitor, InNavigation, InSettings
    <2>2. [Monitor!Next]_(Monitor!vars)
      BY <2>1 DEF PlaybackNext, allVars, monitorVars, Monitor!vars
    <2> QED BY <2>1, <2>2, MonitorKeeps, PlaybackAssumption
  <1> QED BY <1>1, <1>2, PTL DEF PlaybackSteps

-----------------------------------------------------------------------------
(* No half drawn picture is published, taken, presented, uploaded or shown:   *)
(* a renderer only ever has what was published whole (BlurayArgbBuffer's      *)
(* FLUSH, State::Present).                                                    *)
THEOREM PicturesAreWhole == PlaybackSteps => []WholePictures
  <1>1. GraphicsInv => WholePictures
    BY DEF GraphicsInv, PublishedInv, WholePictures, Graphics!WholePictures
  <1> QED BY <1>1, GraphicsInvariant, PTL

(* A disc is reported lost only when it was itself away since it was opened,  *)
(* however late the workers of earlier discs are (BlurayMediaMonitor's        *)
(* worker, LossReason).                                                       *)
THEOREM OwnLossOnly == PlaybackSteps => []OnlyOwnLoss
  <1>1. (part = "monitor" => MonitorInv) => OnlyOwnLoss
    BY PlaybackAssumption, CurrentExists
       DEF MonitorInv, SeenInv, OnlyOwnLoss, Monitor!OnlyOwnLoss, Monitor!LossReason
  <1> QED BY <1>1, MonitorInvariant, PTL
-----------------------------------------------------------------------------
(* The splitter as the two parts of playback.  What was proved of it is       *)
(* proved of BaseSplitter_proofs' definitions, which are those of Playback's  *)
(* two instances under other names.                                           *)
One == INSTANCE BaseSplitter_proofs WITH Discontinuous <- {}
Two == INSTANCE BaseSplitter_proofs WITH
    NPins <- 2, Packets <- 4, QueueMax <- 1, QueueMin <- 1, MaxSeeks <- 0, MaxStops <- 0, Errors <- FALSE,
    Discontinuous <- {}

LEMMA SplitterSteps == Splitter!Next => One!Next
  <1>1. Splitter!Pins = One!Pins
    BY DEF Splitter!Pins, One!Pins
  <1>2. Splitter!Pause <=> One!Pause
    BY Zenon DEF Splitter!Pins, One!Pins, Splitter!Pause, One!Pause
  <1>3. /\ Splitter!Seek <=> One!Seek
        /\ Splitter!Stop <=> One!Stop
    BY DEF Splitter!Pins, One!Pins, Splitter!Seek, One!Seek, Splitter!Stop, One!Stop
  <1>4. /\ Splitter!Call <=> One!Call
        /\ Splitter!Answered <=> One!Answered
    BY DEF Splitter!AppGoes, One!AppGoes, Splitter!Call, One!Call, Splitter!Answered, One!Answered
  <1>5. Splitter!EndFlush <=> One!EndFlush
    BY DEF Splitter!AppGoes, One!AppGoes, Splitter!EndFlush, One!EndFlush
  <1>6. ASSUME NEW p
        PROVE  /\ Splitter!BeginFlush(p) <=> One!BeginFlush(p)
               /\ Splitter!EmptyQueue(p) <=> One!EmptyQueue(p)
               /\ Splitter!Reopen(p) <=> One!Reopen(p)
               /\ Splitter!Release(p) <=> One!Release(p)
               /\ Splitter!ExitPin(p) <=> One!ExitPin(p)
               /\ Splitter!PinExited(p) <=> One!PinExited(p)
    BY DEF Splitter!AppGoes, One!AppGoes, Splitter!SetPin, One!SetPin, Splitter!ForNextPin, One!ForNextPin,
        Splitter!BeginFlush, One!BeginFlush, Splitter!EmptyQueue, One!EmptyQueue, Splitter!Reopen,
        One!Reopen, Splitter!Release, One!Release, Splitter!ExitPin, One!ExitPin, Splitter!PinExited,
        One!PinExited
  <1>7. /\ Splitter!StartFilter <=> One!StartFilter
        /\ Splitter!DemuxSeek <=> One!DemuxSeek
        /\ Splitter!Reposition <=> One!Reposition
        /\ Splitter!ExitFilter <=> One!ExitFilter
        /\ Splitter!WaitForEnd <=> One!WaitForEnd
        /\ Splitter!Segmented <=> One!Segmented
        /\ Splitter!DemuxEnds <=> One!DemuxEnds
        /\ Splitter!GetRequest <=> One!GetRequest
    BY DEF Splitter!Pins, One!Pins, Splitter!StartFilter, One!StartFilter, Splitter!DemuxSeek, One!DemuxSeek,
        Splitter!Reposition, One!Reposition, Splitter!ExitFilter, One!ExitFilter, Splitter!WaitForEnd,
        One!WaitForEnd, Splitter!Segmented, One!Segmented, Splitter!DemuxEnds, One!DemuxEnds,
        Splitter!GetRequest, One!GetRequest
  <1>8. Splitter!AnyPinDrying <=> One!AnyPinDrying
    BY DEF Splitter!AnyPinDrying, One!AnyPinDrying, Splitter!MapThenSumSet, One!MapThenSumSet,
           Splitter!MapThenFoldSet, One!MapThenFoldSet
  <1>9. ASSUME NEW refused PROVE Splitter!Queued(refused) = One!Queued(refused)
    BY DEF Splitter!Queued, One!Queued, Splitter!Eos, One!Eos
  <1>10. Splitter!QueuePacket <=> One!QueuePacket
    <2>1. ASSUME NEW p PROVE Splitter!Full(p) <=> One!Full(p)
      BY <1>8 DEF Splitter!Full, One!Full
    <2> QED BY <1>9, <2>1 DEF Splitter!QueuePacket, One!QueuePacket
  <1>11. Splitter!Add <=> One!Add
    BY <1>9 DEF Splitter!SetPin, One!SetPin, Splitter!Add, One!Add
  <1>12. ASSUME NEW p
        PROVE  /\ Splitter!NewSegment(p) <=> One!NewSegment(p)
               /\ Splitter!Demux(p) <=> One!Demux(p)
               /\ Splitter!QueueEndOfStream(p) <=> One!QueueEndOfStream(p)
    BY DEF Splitter!Eos, One!Eos, Splitter!NewSegment, One!NewSegment, Splitter!Demux, One!Demux,
        Splitter!QueueEndOfStream, One!QueueEndOfStream
  <1>13. ASSUME NEW p
        PROVE  /\ Splitter!StartPin(p) <=> One!StartPin(p)
               /\ Splitter!Restart(p) <=> One!Restart(p)
               /\ Splitter!LeavePin(p) <=> One!LeavePin(p)
               /\ Splitter!Pop(p) <=> One!Pop(p)
               /\ Splitter!CheckDeliver(p) <=> One!CheckDeliver(p)
               /\ Splitter!Accept(p) <=> One!Accept(p)
               /\ Splitter!Refuse(p) <=> One!Refuse(p)
               /\ Splitter!WaitEndFlush(p) <=> One!WaitEndFlush(p)
               /\ Splitter!Judge(p) <=> One!Judge(p)
               /\ Splitter!Report(p) <=> One!Report(p)
    BY <1>1 DEF Splitter!Prerolled, One!Prerolled, Splitter!Eos, One!Eos, Splitter!SetPin, One!SetPin, Splitter!StartPin, One!StartPin,
        Splitter!Restart, One!Restart, Splitter!LeavePin, One!LeavePin, Splitter!Pop, One!Pop,
        Splitter!After, One!After, Splitter!CheckDeliver, One!CheckDeliver, Splitter!Accept, One!Accept,
        Splitter!Refuse, One!Refuse, Splitter!WaitEndFlush, One!WaitEndFlush, Splitter!Judge, One!Judge,
        Splitter!Report, One!Report
  <1> QED BY <1>1, <1>2, <1>3, <1>4, <1>5, <1>6, <1>7, <1>8, <1>10, <1>11, <1>12, <1>13
             DEF Splitter!Next, One!Next, Splitter!AppStep, One!AppStep,
                 Splitter!FilterThread, One!FilterThread, Splitter!PinThread, One!PinThread

LEMMA TwoPinsSteps == TwoPins!Next => Two!Next
  <1>1. TwoPins!Pins = Two!Pins
    BY DEF TwoPins!Pins, Two!Pins
  <1>2. TwoPins!Pause <=> Two!Pause
    BY Zenon DEF TwoPins!Pins, Two!Pins, TwoPins!Pause, Two!Pause
  <1>3. /\ TwoPins!Seek <=> Two!Seek
        /\ TwoPins!Stop <=> Two!Stop
    BY DEF TwoPins!Pins, Two!Pins, TwoPins!Seek, Two!Seek, TwoPins!Stop, Two!Stop
  <1>4. /\ TwoPins!Call <=> Two!Call
        /\ TwoPins!Answered <=> Two!Answered
    BY DEF TwoPins!AppGoes, Two!AppGoes, TwoPins!Call, Two!Call, TwoPins!Answered, Two!Answered
  <1>5. TwoPins!EndFlush <=> Two!EndFlush
    BY DEF TwoPins!AppGoes, Two!AppGoes, TwoPins!EndFlush, Two!EndFlush
  <1>6. ASSUME NEW p
        PROVE  /\ TwoPins!BeginFlush(p) <=> Two!BeginFlush(p)
               /\ TwoPins!EmptyQueue(p) <=> Two!EmptyQueue(p)
               /\ TwoPins!Reopen(p) <=> Two!Reopen(p)
               /\ TwoPins!Release(p) <=> Two!Release(p)
               /\ TwoPins!ExitPin(p) <=> Two!ExitPin(p)
               /\ TwoPins!PinExited(p) <=> Two!PinExited(p)
    BY DEF TwoPins!AppGoes, Two!AppGoes, TwoPins!SetPin, Two!SetPin, TwoPins!ForNextPin, Two!ForNextPin,
        TwoPins!BeginFlush, Two!BeginFlush, TwoPins!EmptyQueue, Two!EmptyQueue, TwoPins!Reopen,
        Two!Reopen, TwoPins!Release, Two!Release, TwoPins!ExitPin, Two!ExitPin, TwoPins!PinExited,
        Two!PinExited
  <1>7. /\ TwoPins!StartFilter <=> Two!StartFilter
        /\ TwoPins!DemuxSeek <=> Two!DemuxSeek
        /\ TwoPins!Reposition <=> Two!Reposition
        /\ TwoPins!ExitFilter <=> Two!ExitFilter
        /\ TwoPins!WaitForEnd <=> Two!WaitForEnd
        /\ TwoPins!Segmented <=> Two!Segmented
        /\ TwoPins!DemuxEnds <=> Two!DemuxEnds
        /\ TwoPins!GetRequest <=> Two!GetRequest
    BY DEF TwoPins!Pins, Two!Pins, TwoPins!StartFilter, Two!StartFilter, TwoPins!DemuxSeek, Two!DemuxSeek,
        TwoPins!Reposition, Two!Reposition, TwoPins!ExitFilter, Two!ExitFilter, TwoPins!WaitForEnd,
        Two!WaitForEnd, TwoPins!Segmented, Two!Segmented, TwoPins!DemuxEnds, Two!DemuxEnds,
        TwoPins!GetRequest, Two!GetRequest
  <1>8. TwoPins!AnyPinDrying <=> Two!AnyPinDrying
    BY DEF TwoPins!AnyPinDrying, Two!AnyPinDrying, TwoPins!MapThenSumSet, Two!MapThenSumSet,
           TwoPins!MapThenFoldSet, Two!MapThenFoldSet
  <1>9. ASSUME NEW refused PROVE TwoPins!Queued(refused) = Two!Queued(refused)
    BY DEF TwoPins!Queued, Two!Queued, TwoPins!Eos, Two!Eos
  <1>10. TwoPins!QueuePacket <=> Two!QueuePacket
    <2>1. ASSUME NEW p PROVE TwoPins!Full(p) <=> Two!Full(p)
      BY <1>8 DEF TwoPins!Full, Two!Full
    <2> QED BY <1>9, <2>1 DEF TwoPins!QueuePacket, Two!QueuePacket
  <1>11. TwoPins!Add <=> Two!Add
    BY <1>9 DEF TwoPins!SetPin, Two!SetPin, TwoPins!Add, Two!Add
  <1>12. ASSUME NEW p
        PROVE  /\ TwoPins!NewSegment(p) <=> Two!NewSegment(p)
               /\ TwoPins!Demux(p) <=> Two!Demux(p)
               /\ TwoPins!QueueEndOfStream(p) <=> Two!QueueEndOfStream(p)
    BY DEF TwoPins!Eos, Two!Eos, TwoPins!NewSegment, Two!NewSegment, TwoPins!Demux, Two!Demux,
        TwoPins!QueueEndOfStream, Two!QueueEndOfStream
  <1>13. ASSUME NEW p
        PROVE  /\ TwoPins!StartPin(p) <=> Two!StartPin(p)
               /\ TwoPins!Restart(p) <=> Two!Restart(p)
               /\ TwoPins!LeavePin(p) <=> Two!LeavePin(p)
               /\ TwoPins!Pop(p) <=> Two!Pop(p)
               /\ TwoPins!CheckDeliver(p) <=> Two!CheckDeliver(p)
               /\ TwoPins!Accept(p) <=> Two!Accept(p)
               /\ TwoPins!Refuse(p) <=> Two!Refuse(p)
               /\ TwoPins!WaitEndFlush(p) <=> Two!WaitEndFlush(p)
               /\ TwoPins!Judge(p) <=> Two!Judge(p)
               /\ TwoPins!Report(p) <=> Two!Report(p)
    BY <1>1 DEF TwoPins!Prerolled, Two!Prerolled, TwoPins!Eos, Two!Eos, TwoPins!SetPin, Two!SetPin, TwoPins!StartPin, Two!StartPin, TwoPins!Restart,
        Two!Restart, TwoPins!LeavePin, Two!LeavePin, TwoPins!Pop, Two!Pop, TwoPins!After, Two!After,
        TwoPins!CheckDeliver, Two!CheckDeliver, TwoPins!Accept, Two!Accept, TwoPins!Refuse, Two!Refuse,
        TwoPins!WaitEndFlush, Two!WaitEndFlush, TwoPins!Judge, Two!Judge, TwoPins!Report, Two!Report
  <1> QED BY <1>1, <1>2, <1>3, <1>4, <1>5, <1>6, <1>7, <1>8, <1>10, <1>11, <1>12, <1>13
             DEF TwoPins!Next, Two!Next, TwoPins!AppStep, Two!AppStep,
                 TwoPins!FilterThread, Two!FilterThread, TwoPins!PinThread, Two!PinThread

LEMMA SplitterInvariant == PlaybackSteps => [](part = "splitter" => One!IInv)
  <1> DEFINE Inv == part = "splitter" => One!IInv
  <1>1. One!Constants
    BY PlaybackAssumption DEF Splitter!Constants, One!Constants
  <1>2. PlaybackInit => Inv
    <2>1. ASSUME PlaybackInit, part = "splitter" PROVE One!Init
      BY <2>1 DEF PlaybackInit, Splitter!Init, One!Init, Splitter!Pins, One!Pins, Splitter!Eos, One!Eos
    <2> QED BY <1>1, <2>1, One!InitHolds
  <1>3. Inv /\ [PlaybackNext]_allVars => Inv'
    <2> SUFFICES ASSUME Inv, [PlaybackNext]_allVars, part' = "splitter" PROVE One!IInv'
      OBVIOUS
    <2>1. part = "splitter"
      BY DEF PlaybackNext, allVars, InSplitter, InGraph, InGraphics, InMonitor, InNavigation, InSettings
    <2>2. Splitter!Next \/ UNCHANGED <<app, flt, pin, down, got>>
      BY <2>1 DEF PlaybackNext, allVars, splitterVars
    <2>3. [One!Next]_(One!vars)
      BY <2>2, SplitterSteps DEF One!vars
    <2> QED BY <1>1, <2>1, <2>3, One!NextKeeps
  <1> QED BY <1>2, <1>3, PTL DEF PlaybackSteps

LEMMA TwoPinsInvariant == PlaybackSteps => [](part = "pins" => Two!IInv)
  <1> DEFINE Inv == part = "pins" => Two!IInv
  <1>1. Two!Constants
    BY DEF TwoPins!Constants, Two!Constants
  <1>2. PlaybackInit => Inv
    <2>1. ASSUME PlaybackInit, part = "pins" PROVE Two!Init
      BY <2>1 DEF PlaybackInit, TwoPins!Init, Two!Init, TwoPins!Pins, Two!Pins, TwoPins!Eos, Two!Eos
    <2> QED BY <1>1, <2>1, Two!InitHolds
  <1>3. Inv /\ [PlaybackNext]_allVars => Inv'
    <2> SUFFICES ASSUME Inv, [PlaybackNext]_allVars, part' = "pins" PROVE Two!IInv'
      OBVIOUS
    <2>1. part = "pins"
      BY DEF PlaybackNext, allVars, InSplitter, InGraph, InGraphics, InMonitor, InNavigation, InSettings
    <2>2. TwoPins!Next \/ UNCHANGED <<app, flt, pin, down, got>>
      BY <2>1 DEF PlaybackNext, allVars, splitterVars
    <2>3. [Two!Next]_(Two!vars)
      BY <2>2, TwoPinsSteps DEF Two!vars
    <2> QED BY <1>1, <2>1, <2>3, Two!NextKeeps
  <1> QED BY <1>2, <1>3, PTL DEF PlaybackSteps

-----------------------------------------------------------------------------
(* The packets of a segment arrive from the first on, none left out, none     *)
(* twice, in order, whatever seeks and stops come between and whatever fails  *)
(* downstream (CBaseSplitterOutputPin::ThreadProc, QueuePacket).              *)
THEOREM PacketsInOrder == PlaybackSteps => []InOrder
  <1>1. (part = "splitter" => One!IInv) /\ (part = "pins" => Two!IInv) => InOrder
    BY DEF InOrder, Splitter!InOrder, TwoPins!InOrder, Splitter!Pins, One!Pins, TwoPins!Pins, Two!Pins,
           One!IInv, One!PinInv, One!RunInv, Two!IInv, Two!PinInv, Two!RunInv
  <1> QED BY <1>1, SplitterInvariant, TwoPinsInvariant, PTL

(* After a flush at most two packets of before it are delivered: the one in   *)
(* the hands of the pin's thread and the one in those of the filter's         *)
(* (CBaseSplitterOutputPin::DeliverBeginFlush, QueuePacket).                  *)
THEOREM StalePacketsAreFew == PlaybackSteps => []FewStale
  <1>1. (part = "splitter" => One!IInv) => FewStale
    BY One!FewPackets, PlaybackAssumption
       DEF FewStale, Splitter!FewStale, One!FewStale, Splitter!Pins, One!Pins,
           Splitter!Constants, One!Constants
  <1> QED BY <1>1, SplitterInvariant, PTL

-----------------------------------------------------------------------------
(* The navigation, likewise.                                                  *)
Keyless == INSTANCE BlurayNavigation_proofs WITH
    MaxSeeks <- Seeks, MaxKeys <- 0, graph <- playing, load <- loaded, ui <- timer
Keyed == INSTANCE BlurayNavigation_proofs WITH
    End <- KeysEnd, Silent <- KeysSilent, MaxSeeks <- KeysSeeks,
    graph <- playing, load <- loaded, ui <- timer

LEMMA NavigationSteps == Navigation!Next => Keyless!Next
  <1>1. Navigation!Positions = Keyless!Positions /\ Navigation!None = Keyless!None /\ Navigation!Reported = Keyless!Reported
    BY DEF Navigation!None, Keyless!None, Navigation!Positions, Keyless!Positions, Navigation!Reported,
        Keyless!Reported
  <1>2. Navigation!Updated = Keyless!Updated
    BY <1>1 DEF Navigation!Updated, Keyless!Updated
  <1>3. Navigation!Synced = Keyless!Synced /\ Navigation!ResetClock = Keyless!ResetClock /\ Navigation!Taken = Keyless!Taken
    BY <1>1 DEF Navigation!Synced, Keyless!Synced, Navigation!ResetClock, Keyless!ResetClock,
        Navigation!Taken, Keyless!Taken
  <1>4. ASSUME NEW p
        PROVE  /\ Navigation!Sought(p) = Keyless!Sought(p) /\ Navigation!SoughtClock(p) = Keyless!SoughtClock(p)
               /\ Navigation!Queued(p) = Keyless!Queued(p) /\ Navigation!NavAt(p) = Keyless!NavAt(p)
               /\ Navigation!Attached(p) = Keyless!Attached(p)
    BY DEF Navigation!Sought, Keyless!Sought, Navigation!SoughtClock, Keyless!SoughtClock,
        Navigation!Queued, Keyless!Queued, Navigation!Rewound, Keyless!Rewound, Navigation!NavAt,
        Keyless!NavAt, Navigation!Attached, Keyless!Attached, Navigation!None, Keyless!None
  <1>5. ASSUME NEW m, NEW p PROVE Navigation!SeekEvent(m, p) = Keyless!SeekEvent(m, p)
    BY DEF Navigation!SeekEvent, Keyless!SeekEvent, Navigation!Rewound, Keyless!Rewound, Navigation!None,
        Keyless!None
  <1>6. ASSUME NEW l PROVE Navigation!NextPlaylist(l) <=> Keyless!NextPlaylist(l)
    BY <1>1, <1>3 DEF Navigation!NextPlaylist, Keyless!NextPlaylist, Navigation!Playlist, Keyless!Playlist
  <1>7. Navigation!Tick <=> Keyless!Tick
    <2>1. Navigation!Read <=> Keyless!Read
      BY <1>2, <1>6 DEF Navigation!Read, Keyless!Read, Navigation!ReadOn, Keyless!ReadOn,
          Navigation!ReadEnd, Keyless!ReadEnd
    <2>2. Navigation!SyncNow(menu) <=> Keyless!SyncNow(menu)
      BY <1>1 DEF Navigation!SyncNow, Keyless!SyncNow
    <2>3. Navigation!ReadsNow(menu, Navigation!Updated) <=> Keyless!ReadsNow(menu, Keyless!Updated)
      BY <1>1, <1>2 DEF Navigation!ReadsNow, Keyless!ReadsNow
    <2>4. Navigation!StillOver <=> Keyless!StillOver
      BY DEF Navigation!StillOver, Keyless!StillOver
    <2> QED BY <1>1, <1>2, <1>3, <1>4, <2>1, <2>2, <2>3, <2>4 DEF Navigation!Tick, Keyless!Tick
  <1>8. Navigation!TickEnds <=> Keyless!TickEnds
    <2>1. Navigation!Start = Keyless!Start
      BY <1>1 DEF Navigation!Start, Keyless!Start
    <2>2. ASSUME NEW l PROVE Navigation!Plays(l) <=> Keyless!Plays(l)
      BY DEF Navigation!Plays, Keyless!Plays
    <2>3. Navigation!Reuse <=> Keyless!Reuse
      BY <1>3, <1>4, <2>1, <2>2 DEF Navigation!Reuse, Keyless!Reuse
    <2>4. Navigation!OpenMedia <=> Keyless!OpenMedia
      BY <1>3, <2>1, <2>2 DEF Navigation!OpenMedia, Keyless!OpenMedia
    <2>5. Navigation!AtEnd <=> Keyless!AtEnd
      BY DEF Navigation!AtEnd, Keyless!AtEnd
    <2>6. Navigation!FollowJump <=> Keyless!FollowJump
      BY <1>1, <1>3, <1>4, <2>5 DEF Navigation!FollowJump, Keyless!FollowJump
    <2>7. Navigation!GoOn <=> Keyless!GoOn
      BY <1>1, <2>5 DEF Navigation!GoOn, Keyless!GoOn, Navigation!Paused, Keyless!Paused
    <2> QED BY <2>3, <2>4, <2>6, <2>7 DEF Navigation!TickEnds, Keyless!TickEnds
  <1>9. Navigation!Key <=> Keyless!Key
    BY <1>1, <1>3, <1>4, <1>5, <1>6 DEF Navigation!Key, Keyless!Key
  <1>10. Navigation!Complete <=> Keyless!Complete
    BY <1>1 DEF Navigation!Complete, Keyless!Complete, Navigation!Dispatching, Keyless!Dispatching,
        Navigation!AcceptEnd, Keyless!AcceptEnd
  <1>11. ASSUME NEW p PROVE Navigation!Seek(p) <=> Keyless!Seek(p)
    BY <1>4 DEF Navigation!Seek, Keyless!Seek, Navigation!Dispatching, Keyless!Dispatching
  <1>12. /\ Navigation!Opened <=> Keyless!Opened
         /\ Navigation!KeyEnds <=> Keyless!KeyEnds
         /\ Navigation!Due <=> Keyless!Due
         /\ Navigation!StillTime <=> Keyless!StillTime
         /\ Navigation!Play <=> Keyless!Play
         /\ Navigation!Close <=> Keyless!Close
    BY <1>1, <1>4 DEF Navigation!Opened, Keyless!Opened, Navigation!KeyEnds, Keyless!KeyEnds,
        Navigation!Due, Keyless!Due, Navigation!StillTime, Keyless!StillTime, Navigation!Play, Keyless!Play,
        Navigation!Dispatching, Keyless!Dispatching, Navigation!Close, Keyless!Close
  <1>13. /\ Navigation!PictureGoesOn <=> Keyless!PictureGoesOn
         /\ Navigation!StreamsEnd <=> Keyless!StreamsEnd
    BY <1>1 DEF Navigation!PictureGoesOn, Keyless!PictureGoesOn, Navigation!StreamsEnd, Keyless!StreamsEnd
  <1> QED BY <1>1, <1>7, <1>8, <1>9, <1>10, <1>11, <1>12, <1>13 DEF Navigation!Next, Keyless!Next

LEMMA KeysSteps == Keys!Next => Keyed!Next
  <1>1. Keys!Positions = Keyed!Positions /\ Keys!None = Keyed!None /\ Keys!Reported = Keyed!Reported
    BY DEF Keys!None, Keyed!None, Keys!Positions, Keyed!Positions, Keys!Reported, Keyed!Reported
  <1>2. Keys!Updated = Keyed!Updated
    BY <1>1 DEF Keys!Updated, Keyed!Updated
  <1>3. Keys!Synced = Keyed!Synced /\ Keys!ResetClock = Keyed!ResetClock /\ Keys!Taken = Keyed!Taken
    BY <1>1 DEF Keys!Synced, Keyed!Synced, Keys!ResetClock, Keyed!ResetClock, Keys!Taken, Keyed!Taken
  <1>4. ASSUME NEW p
        PROVE  /\ Keys!Sought(p) = Keyed!Sought(p) /\ Keys!SoughtClock(p) = Keyed!SoughtClock(p)
               /\ Keys!Queued(p) = Keyed!Queued(p) /\ Keys!NavAt(p) = Keyed!NavAt(p)
               /\ Keys!Attached(p) = Keyed!Attached(p)
    BY DEF Keys!Sought, Keyed!Sought, Keys!SoughtClock, Keyed!SoughtClock, Keys!Queued, Keyed!Queued,
        Keys!Rewound, Keyed!Rewound, Keys!NavAt, Keyed!NavAt, Keys!Attached, Keyed!Attached, Keys!None,
        Keyed!None
  <1>5. ASSUME NEW m, NEW p PROVE Keys!SeekEvent(m, p) = Keyed!SeekEvent(m, p)
    BY DEF Keys!SeekEvent, Keyed!SeekEvent, Keys!Rewound, Keyed!Rewound, Keys!None, Keyed!None
  <1>6. ASSUME NEW l PROVE Keys!NextPlaylist(l) <=> Keyed!NextPlaylist(l)
    BY <1>1, <1>3 DEF Keys!NextPlaylist, Keyed!NextPlaylist, Keys!Playlist, Keyed!Playlist
  <1>7. Keys!Tick <=> Keyed!Tick
    <2>1. Keys!Read <=> Keyed!Read
      BY <1>2, <1>6 DEF Keys!Read, Keyed!Read, Keys!ReadOn, Keyed!ReadOn, Keys!ReadEnd, Keyed!ReadEnd
    <2>2. Keys!SyncNow(menu) <=> Keyed!SyncNow(menu)
      BY <1>1 DEF Keys!SyncNow, Keyed!SyncNow
    <2>3. Keys!ReadsNow(menu, Keys!Updated) <=> Keyed!ReadsNow(menu, Keyed!Updated)
      BY <1>1, <1>2 DEF Keys!ReadsNow, Keyed!ReadsNow
    <2>4. Keys!StillOver <=> Keyed!StillOver
      BY DEF Keys!StillOver, Keyed!StillOver
    <2> QED BY <1>1, <1>2, <1>3, <1>4, <2>1, <2>2, <2>3, <2>4 DEF Keys!Tick, Keyed!Tick
  <1>8. Keys!TickEnds <=> Keyed!TickEnds
    <2>1. Keys!Start = Keyed!Start
      BY <1>1 DEF Keys!Start, Keyed!Start
    <2>2. ASSUME NEW l PROVE Keys!Plays(l) <=> Keyed!Plays(l)
      BY DEF Keys!Plays, Keyed!Plays
    <2>3. Keys!Reuse <=> Keyed!Reuse
      BY <1>3, <1>4, <2>1, <2>2 DEF Keys!Reuse, Keyed!Reuse
    <2>4. Keys!OpenMedia <=> Keyed!OpenMedia
      BY <1>3, <2>1, <2>2 DEF Keys!OpenMedia, Keyed!OpenMedia
    <2>5. Keys!AtEnd <=> Keyed!AtEnd
      BY DEF Keys!AtEnd, Keyed!AtEnd
    <2>6. Keys!FollowJump <=> Keyed!FollowJump
      BY <1>1, <1>3, <1>4, <2>5 DEF Keys!FollowJump, Keyed!FollowJump
    <2>7. Keys!GoOn <=> Keyed!GoOn
      BY <1>1, <2>5 DEF Keys!GoOn, Keyed!GoOn, Keys!Paused, Keyed!Paused
    <2> QED BY <2>3, <2>4, <2>6, <2>7 DEF Keys!TickEnds, Keyed!TickEnds
  <1>9. Keys!Key <=> Keyed!Key
    BY <1>1, <1>3, <1>4, <1>5, <1>6 DEF Keys!Key, Keyed!Key
  <1>10. Keys!Complete <=> Keyed!Complete
    BY <1>1 DEF Keys!Complete, Keyed!Complete, Keys!Dispatching, Keyed!Dispatching, Keys!AcceptEnd,
        Keyed!AcceptEnd
  <1>11. ASSUME NEW p PROVE Keys!Seek(p) <=> Keyed!Seek(p)
    BY <1>4 DEF Keys!Seek, Keyed!Seek, Keys!Dispatching, Keyed!Dispatching
  <1>12. /\ Keys!Opened <=> Keyed!Opened
         /\ Keys!KeyEnds <=> Keyed!KeyEnds
         /\ Keys!Due <=> Keyed!Due
         /\ Keys!StillTime <=> Keyed!StillTime
         /\ Keys!Play <=> Keyed!Play
         /\ Keys!Close <=> Keyed!Close
    BY <1>1, <1>4 DEF Keys!Opened, Keyed!Opened, Keys!KeyEnds, Keyed!KeyEnds, Keys!Due, Keyed!Due,
        Keys!StillTime, Keyed!StillTime, Keys!Play, Keyed!Play, Keys!Dispatching, Keyed!Dispatching,
        Keys!Close, Keyed!Close
  <1>13. /\ Keys!PictureGoesOn <=> Keyed!PictureGoesOn
         /\ Keys!StreamsEnd <=> Keyed!StreamsEnd
    BY <1>1 DEF Keys!PictureGoesOn, Keyed!PictureGoesOn, Keys!StreamsEnd, Keyed!StreamsEnd
  <1> QED BY <1>1, <1>7, <1>8, <1>9, <1>10, <1>11, <1>12, <1>13 DEF Keys!Next, Keyed!Next

LEMMA NavigationInvariant == PlaybackSteps => [](part = "navigation" => Keyless!KeylessInv)
  <1> DEFINE Inv == part = "navigation" => Keyless!KeylessInv
  <1>1. Keyless!Constants
    BY PlaybackAssumption DEF Navigation!Constants, Keyless!Constants
  <1>2. PlaybackInit => Inv
    <2>1. ASSUME PlaybackInit, part = "navigation" PROVE Keyless!Init
      BY <2>1 DEF PlaybackInit, Navigation!Init, Keyless!Init, Navigation!SoughtClock, Keyless!SoughtClock, Navigation!None, Keyless!None
    <2> QED BY <1>1, <2>1, Keyless!KeylessInit
  <1>3. Inv /\ [PlaybackNext]_allVars => Inv'
    <2> SUFFICES ASSUME Inv, [PlaybackNext]_allVars, part' = "navigation" PROVE Keyless!KeylessInv'
      OBVIOUS
    <2>1. part = "navigation"
      BY DEF PlaybackNext, allVars, InSplitter, InGraph, InGraphics, InMonitor, InNavigation, InSettings
    <2>2. Navigation!Next \/ UNCHANGED <<nav, menu, clock, playing, loaded, timer, user>>
      BY <2>1 DEF PlaybackNext, allVars, navigationVars
    <2>3. [Keyless!Next]_(Keyless!vars)
      BY <2>2, NavigationSteps DEF Keyless!vars
    <2> QED BY <1>1, <2>1, <2>3, Keyless!KeylessNext
  <1> QED BY <1>2, <1>3, PTL DEF PlaybackSteps

LEMMA KeysInvariant == PlaybackSteps => [](part = "keys" => Keyed!IInv)
  <1> DEFINE Inv == part = "keys" => Keyed!IInv
  <1>1. Keyed!Constants
    BY PlaybackAssumption DEF Keys!Constants, Keyed!Constants
  <1>2. PlaybackInit => Inv
    <2>1. ASSUME PlaybackInit, part = "keys" PROVE Keyed!Init
      BY <2>1 DEF PlaybackInit, Keys!Init, Keyed!Init, Keys!SoughtClock, Keyed!SoughtClock, Keys!None, Keyed!None
    <2> QED BY <1>1, <2>1, Keyed!InitHolds
  <1>3. Inv /\ [PlaybackNext]_allVars => Inv'
    <2> SUFFICES ASSUME Inv, [PlaybackNext]_allVars, part' = "keys" PROVE Keyed!IInv'
      OBVIOUS
    <2>1. part = "keys"
      BY DEF PlaybackNext, allVars, InSplitter, InGraph, InGraphics, InMonitor, InNavigation, InSettings
    <2>2. Keys!Next \/ UNCHANGED <<nav, menu, clock, playing, loaded, timer, user>>
      BY <2>1 DEF PlaybackNext, allVars, navigationVars
    <2>3. [Keyed!Next]_(Keyed!vars)
      BY <2>2, KeysSteps DEF Keyed!vars
    <2> QED BY <1>1, <2>1, <2>3, Keyed!NextKeeps
  <1> QED BY <1>2, <1>3, PTL DEF PlaybackSteps

-----------------------------------------------------------------------------
(* The graph that plays is the one the navigator is in, however keys, jumps,  *)
(* seeks, failures and late graphs come together (TickBlurayMenu).            *)
THEOREM ListsAgree == PlaybackSteps => []SameList
  <1>1. (part = "navigation" => Keyless!KeylessInv) /\ (part = "keys" => Keyed!IInv) => SameList
    BY DEF SameList, Navigation!SameList, Keys!SameList, Keyless!KeylessInv,
           Keyless!IInv, Keyless!ListInv, Keyed!IInv, Keyed!ListInv
  <1> QED BY <1>1, NavigationInvariant, KeysInvariant, PTL

(* As long as no key is pressed, the navigator leaves a playlist by itself    *)
(* only when the picture is at its end (BlurayPlaybackClock, Pump).           *)
THEOREM LeftAtEnd == PlaybackSteps => LeftOnlyAtEnd
  <1> DEFINE Inv == part = "navigation" => Keyless!KeylessInv
  <1>1. Inv /\ [PlaybackNext]_allVars => [part = "navigation" /\ Navigation!Leaves => playing.pos = End]_allVars
    <2> SUFFICES ASSUME Inv, PlaybackNext, part = "navigation", Navigation!Leaves PROVE playing.pos = End
      OBVIOUS
    <2>1. Keyless!Constants
      BY PlaybackAssumption DEF Navigation!Constants, Keyless!Constants
    <2>2. Keyless!Next
      BY NavigationSteps DEF PlaybackNext
    <2>3. Keyless!Leaves
      BY DEF Navigation!Leaves, Keyless!Leaves
    <2> QED BY <2>1, <2>2, <2>3, Keyless!LeavesAtEnd
  <1> QED BY <1>1, NavigationInvariant, PTL DEF PlaybackSteps, LeftOnlyAtEnd

-----------------------------------------------------------------------------
(* The settings, likewise.                                                    *)
Stored == INSTANCE ProfileStore_proofs WITH
    Players <- {Player}, Done <- Marker, Values <- {1, 2}, Resets <- TRUE, file <- ini

LEMMA SettingsSteps == Settings!Next => Stored!Next
  <1>1. /\ Settings!Stores = Stored!Stores /\ Settings!NoSettings = Stored!NoSettings
        /\ Settings!NewProfile = Stored!NewProfile
    BY DEF Settings!Stores, Stored!Stores, Settings!NoSettings, Stored!NoSettings, Settings!NewProfile,
        Stored!NewProfile
  <1>2. ASSUME NEW c, NEW content, NEW k, NEW v
        PROVE  /\ Settings!InitIni(c, content) = Stored!InitIni(c, content)
               /\ Settings!Written(c, content, k, v) = Stored!Written(c, content, k, v)
               /\ Settings!Torn(c, content) = Stored!Torn(c, content)
    BY DEF Settings!InitIni, Stored!InitIni, Settings!Written, Stored!Written, Settings!Torn, Stored!Torn,
        Settings!NoSettings, Stored!NoSettings
  <1>3. ASSUME NEW p, NEW s, NEW c, NEW l
        PROVE  /\ Settings!Become(p, s, c) <=> Stored!Become(p, s, c)
               /\ Settings!GoTo(p, l) <=> Stored!GoTo(p, l)
               /\ Settings!Clear(p, s) <=> Stored!Clear(p, s)
    BY DEF Settings!Become, Stored!Become, Settings!GoTo, Stored!GoTo, Settings!Clear, Stored!Clear,
        Settings!NoSettings, Stored!NoSettings
  <1>4. ASSUME NEW c, NEW force PROVE Settings!MustFlush(c, force) <=> Stored!MustFlush(c, force)
    BY DEF Settings!MustFlush, Stored!MustFlush
  <1>5. ASSUME NEW p, NEW s, NEW force PROVE Settings!Flush(p, s, force) <=> Stored!Flush(p, s, force)
    BY <1>2, <1>3, <1>4 DEF Settings!Flush, Stored!Flush
  <1>6. ASSUME NEW p
        PROVE  /\ Settings!Launch(p) <=> Stored!Launch(p)
               /\ Settings!FirstRun(p) <=> Stored!FirstRun(p)
    BY <1>1, <1>2, <1>3 DEF Settings!Launch, Stored!Launch, Settings!FirstRun, Stored!FirstRun
  <1>7. ASSUME NEW p PROVE Settings!SetupHistoryStore(p) <=> Stored!SetupHistoryStore(p)
    BY DEF Settings!SetupHistoryStore, Stored!SetupHistoryStore, Settings!Accepted, Stored!Accepted,
        Settings!InitIni, Stored!InitIni, Settings!Written, Stored!Written, Settings!Become, Stored!Become,
        Settings!GoTo, Stored!GoTo
  <1>8. ASSUME NEW p
        PROVE  /\ Settings!FlushSplit(p) <=> Stored!FlushSplit(p)
               /\ Settings!FlushMain(p) <=> Stored!FlushMain(p)
               /\ Settings!FlushHistory(p) <=> Stored!FlushHistory(p)
               /\ Settings!FlushReset(p) <=> Stored!FlushReset(p)
    BY <1>3, <1>5 DEF Settings!FlushSplit, Stored!FlushSplit, Settings!FlushMain, Stored!FlushMain,
        Settings!FlushHistory, Stored!FlushHistory, Settings!FlushReset, Stored!FlushReset
  <1>9. ASSUME NEW p
        PROVE  /\ Settings!Ready(p) <=> Stored!Ready(p)
               /\ Settings!BeginReset(p) <=> Stored!BeginReset(p)
               /\ Settings!EndReset(p) <=> Stored!EndReset(p)
    BY <1>3 DEF Settings!Ready, Stored!Ready, Settings!BeginReset, Stored!BeginReset, Settings!EndReset,
        Stored!EndReset
  <1>10. ASSUME NEW p PROVE Settings!SetDefaults(p) <=> Stored!SetDefaults(p)
    BY DEF Settings!SetDefaults, Stored!SetDefaults, Settings!InitIni, Stored!InitIni, Settings!Written,
        Stored!Written, Settings!Become, Stored!Become, Settings!GoTo, Stored!GoTo
  <1>11. ASSUME NEW p PROVE Settings!Stop(p) <=> Stored!Stop(p)
    BY DEF Settings!Stop, Stored!Stop, Settings!Stores, Stored!Stores, Settings!NewProfile, Stored!NewProfile,
        Settings!NoSettings, Stored!NoSettings, Settings!MustFlush, Stored!MustFlush, Settings!Torn, Stored!Torn,
        Settings!GoTo, Stored!GoTo
  <1>12. ASSUME NEW p, NEW s PROVE Settings!Use(p, s) <=> Stored!Use(p, s)
    BY <1>2, <1>3 DEF Settings!Use, Stored!Use
  <1>13. ASSUME NEW p PROVE Settings!Write(p) <=> Stored!Write(p)
    <2>1. ASSUME NEW s, NEW k, NEW v PROVE Settings!Change(p, s, k, v) <=> Stored!Change(p, s, k, v)
      BY <1>2, <1>3 DEF Settings!Change, Stored!Change
    <2> QED BY <2>1 DEF Settings!Write, Stored!Write
  <1> QED BY <1>1, <1>6, <1>7, <1>8, <1>9, <1>10, <1>11, <1>12, <1>13
             DEF Settings!Next, Stored!Next, Settings!Settle, Stored!Settle

LEMMA SettingsInvariant == PlaybackSteps => [](part = "settings" => Stored!IInv)
  <1> DEFINE Inv == part = "settings" => Stored!IInv
  <1>1. Stored!Constants
    BY PlaybackAssumption DEF Settings!Constants, Stored!Constants
  <1>2. PlaybackInit => Inv
    <2>1. ASSUME PlaybackInit, part = "settings" PROVE Stored!Init
      BY <2>1 DEF PlaybackInit, Settings!Init, Stored!Init, Settings!Stores, Stored!Stores,
                  Settings!NewProfile, Stored!NewProfile, Settings!NoSettings, Stored!NoSettings
    <2> QED BY <1>1, <2>1, Stored!InitHolds
  <1>3. Inv /\ [PlaybackNext]_allVars => Inv'
    <2> SUFFICES ASSUME Inv, [PlaybackNext]_allVars, part' = "settings" PROVE Stored!IInv'
      OBVIOUS
    <2>1. part = "settings"
      BY DEF PlaybackNext, allVars, InSplitter, InGraph, InGraphics, InMonitor, InNavigation, InSettings
    <2>2. Settings!Next \/ UNCHANGED <<ini, torn, store, pc>>
      BY <2>1 DEF PlaybackNext, allVars, settingsVars
    <2>3. [Stored!Next]_(Stored!vars)
      BY <2>2, SettingsSteps DEF Stored!vars
    <2> QED BY <1>1, <2>1, <2>3, Stored!NextKeeps
  <1> QED BY <1>2, <1>3, PTL DEF PlaybackSteps

(* The player of this part is alone, so that its move of the history stays    *)
(* (CProfile::InitIni, SetupHistoryStore).                                    *)
THEOREM TheMoveIsKept == PlaybackSteps => []MoveIsKept
  <1> DEFINE Typed == part = "settings" => Stored!IInv
             Inv == part = "settings" => Stored!MoveInv
  <1>1. Stored!Constants /\ \A p, q \in {Player} : p = q
    BY PlaybackAssumption DEF Settings!Constants, Stored!Constants
  <1>2. PlaybackInit => Inv
    <2>1. ASSUME PlaybackInit, part = "settings" PROVE Stored!Init
      BY <2>1 DEF PlaybackInit, Settings!Init, Stored!Init, Settings!Stores, Stored!Stores,
                  Settings!NewProfile, Stored!NewProfile, Settings!NoSettings, Stored!NoSettings
    <2> QED BY <1>1, <2>1, Stored!MoveBegins
  <1>3. Typed /\ Inv /\ [PlaybackNext]_allVars => Inv'
    <2> SUFFICES ASSUME Typed, Inv, [PlaybackNext]_allVars, part' = "settings" PROVE Stored!MoveInv'
      OBVIOUS
    <2>1. part = "settings"
      BY DEF PlaybackNext, allVars, InSplitter, InGraph, InGraphics, InMonitor, InNavigation, InSettings
    <2>2. Settings!Next \/ UNCHANGED <<ini, torn, store, pc>>
      BY <2>1 DEF PlaybackNext, allVars, settingsVars
    <2>3. [Stored!Next]_(Stored!vars)
      BY <2>2, SettingsSteps DEF Stored!vars
    <2> QED BY <1>1, <2>1, <2>3, Stored!MoveStays
  <1>4. Inv => MoveIsKept
    BY Stored!MoveHolds DEF MoveIsKept, Settings!MoveIsKept, Stored!MoveIsKept
  <1> QED BY <1>2, <1>3, <1>4, SettingsInvariant, PTL DEF PlaybackSteps

LEMMA GraphRuns == PlaybackSteps => Spec
  <1>1. PlaybackInit => Init
    BY DEF PlaybackInit
  <1>2. [PlaybackNext]_allVars => [Next]_vars
    BY DEF PlaybackNext, allVars, vars, InSplitter, InGraphics, InMonitor, InNavigation, InSettings
  <1> QED BY <1>1, <1>2, PTL DEF PlaybackSteps, Spec

-----------------------------------------------------------------------------
(* Every part has its types, and the queues of the splitter their bound       *)
(* (QueuePacket), for all values of the constants.                            *)
THEOREM AllPartsTyped == PlaybackSteps => []PartsTyped
  <1>1. PlaybackSteps => []TypeOK
    BY PlaybackAssumption, GraphRuns, GraphIsTyped, PTL
  <1>2. (part = "splitter" => One!IInv) => (part = "splitter" => Splitter!TypeOK)
    BY One!TypesHold
       DEF Splitter!TypeOK, One!TypeOK, Splitter!Pins, One!Pins, Splitter!Passes, One!Passes,
           Splitter!Item, One!Item, Splitter!Eos, One!Eos
  <1>3. (part = "pins" => Two!IInv) => (part = "pins" => TwoPins!TypeOK)
    BY Two!TypesHold
       DEF TwoPins!TypeOK, Two!TypeOK, TwoPins!Pins, Two!Pins, TwoPins!Passes, Two!Passes,
           TwoPins!Item, Two!Item, TwoPins!Eos, Two!Eos
  <1>4. GraphicsInv => Graphics!TypeOK
    BY DEF GraphicsInv
  <1>5. (part = "monitor" => MonitorInv) => (part = "monitor" => Monitor!TypeOK)
    BY DEF MonitorInv
  <1>6. (part = "navigation" => Keyless!KeylessInv) => (part = "navigation" => Navigation!TypeOK)
    BY DEF Keyless!KeylessInv, Keyless!IInv, Keyless!TypeOK, Navigation!TypeOK,
           Keyless!Positions, Navigation!Positions, Keyless!None, Navigation!None
  <1>7. (part = "keys" => Keyed!IInv) => (part = "keys" => Keys!TypeOK)
    BY DEF Keyed!IInv, Keyed!TypeOK, Keys!TypeOK, Keyed!Positions, Keys!Positions, Keyed!None, Keys!None
  <1>8. (part = "settings" => Stored!IInv) => (part = "settings" => Settings!TypeOK)
    BY DEF Stored!IInv, Settings!TypeOK, Stored!TypeOK, Settings!Stores, Stored!Stores,
           Settings!Settings, Stored!Settings, Settings!Profile, Stored!Profile, Settings!PCs, Stored!PCs
  <1> QED BY <1>1, <1>2, <1>3, <1>4, <1>5, <1>6, <1>7, <1>8, SplitterInvariant, TwoPinsInvariant,
             GraphicsInvariant, MonitorInvariant, NavigationInvariant, KeysInvariant, SettingsInvariant, PTL
          DEF PartsTyped
==============================================================================
