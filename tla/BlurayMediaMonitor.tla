--------------------------- MODULE BlurayMediaMonitor ---------------------------
(***************************************************************************)
(* BlurayMediaMonitor.h: while a Blu-ray disc plays, a worker thread       *)
(* probes it twice a second, without being waited for: a slow drive keeps  *)
(* a worker in its probe long after the player went on to another disc.    *)
(* Windows tells the player, not the worker, of devices that come and go.  *)
(***************************************************************************)
EXTENDS Naturals

CONSTANTS Media,        \* what may be in the drive, one after the other
          Gone,         \* nothing is
          NoData,
          MaxStarts,    \* bound: calls of Start
          MaxChanges    \* bound: changes of the medium

VARIABLES drive,    \* what is in the drive
          changes,
          data,     \* the Data of every Start that succeeded
          mData,    \* m_data
          worker    \* the thread of each Data

vars == <<drive, changes, data, mData, worker>>

Ids == 1 .. MaxStarts
Reasons == {"Present", "Removed", "Unavailable", "Replaced"}
Data == [initial : Media, stopped : BOOLEAN, loss : Reasons, seen : BOOLEAN]

(* What the constants have to be.                                             *)
Constants == MaxStarts \in Nat /\ MaxChanges \in Nat /\ NoData \notin Data

TypeOK ==
    /\ drive \in Media \cup {Gone} /\ changes \in 0 .. MaxChanges
    /\ data \in [Ids -> Data \cup {NoData}] /\ mData \in {0} \cup Ids
    /\ worker \in [Ids -> [pc : {"none", "loop", "probe", "judge", "ended"}, read : Media \cup {Gone}]]

Init ==
    /\ drive \in Media /\ changes = 0
    /\ data = [d \in Ids |-> NoData] /\ mData = 0
    /\ worker = [d \in Ids |-> [pc |-> "none", read |-> Gone]]

(* Lost: only the first reason counts.                                        *)
Lost(d, reason) == IF data[d].loss = "Present" THEN [data EXCEPT ![d].loss = reason] ELSE data

-----------------------------------------------------------------------------
(* The player.                                                                *)

Stopped == IF mData = 0 THEN data ELSE [data EXCEPT ![mData].stopped = TRUE]

(* The Data of this Start.                                                    *)
New == CHOOSE d \in Ids : data[d] = NoData

Start ==
    /\ \E d \in Ids : data[d] = NoData
    /\ IF drive = Gone
       THEN data' = Stopped /\ mData' = 0 /\ UNCHANGED worker
       ELSE /\ data' = [Stopped EXCEPT ![New] = [initial |-> drive, stopped |-> FALSE,
                            loss |-> "Present", seen |-> FALSE]]
            /\ mData' = New
            /\ worker' = [worker EXCEPT ![New].pc = "loop"]
    /\ UNCHANGED <<drive, changes>>

Stop ==
    /\ mData # 0
    /\ data' = Stopped /\ mData' = 0
    /\ UNCHANGED <<drive, changes, worker>>

(* The medium changes.  data.seen: the disc that plays was away, or Windows   *)
(* said so.                                                                   *)
Change(medium) ==
    /\ changes < MaxChanges /\ medium # drive
    /\ drive' = medium /\ changes' = changes + 1
    /\ data' = IF mData = 0 \/ medium = data[mData].initial THEN data
               ELSE [data EXCEPT ![mData].seen = TRUE]
    /\ UNCHANGED <<mData, worker>>

(* WM_DEVICECHANGE: the drive is removed or about to be.  An arrival only     *)
(* wakes the worker up, which may happen at any time.                         *)
DeviceRemoved ==
    /\ mData # 0
    /\ data' = [Lost(mData, "Removed") EXCEPT ![mData].seen = TRUE]
    /\ UNCHANGED <<drive, changes, mData, worker>>

-----------------------------------------------------------------------------
(* A worker.  It has its own reference to its Data.                           *)

(* Mutant: it uses that of the player.                                        *)
Own_Member(d) == IF mData = 0 THEN d ELSE mData

Own(d) == d

WorkerGoes(d, l) == worker' = [worker EXCEPT ![d].pc = l]

(* The loop head and the wait, which ends by itself after 500 ms.             *)
Loop(d) ==
    /\ worker[d].pc = "loop"
    /\ WorkerGoes(d, IF data[Own(d)].stopped \/ data[Own(d)].loss # "Present" THEN "ended" ELSE "probe")
    /\ UNCHANGED <<drive, changes, data, mData>>

(* Mutant: the file opened at the start is asked, not the path.               *)
Identity_Cached(d) == data[Own(d)].initial

Identity(d) == drive

Probe(d) ==
    /\ worker[d].pc = "probe"
    /\ worker' = [worker EXCEPT ![d].read = Identity(d), ![d].pc = "judge"]
    /\ UNCHANGED <<drive, changes, data, mData>>

Judge(d) ==
    /\ worker[d].pc = "judge"
    /\ IF data[Own(d)].stopped
       THEN WorkerGoes(d, "ended") /\ UNCHANGED data
       ELSE /\ WorkerGoes(d, "loop")
            /\ data' = IF worker[d].read = Gone THEN Lost(Own(d), "Unavailable")
                       ELSE IF worker[d].read # data[Own(d)].initial THEN Lost(Own(d), "Replaced") ELSE data
    /\ UNCHANGED <<drive, changes, mData>>

Worker(d) == Loop(d) \/ Probe(d) \/ Judge(d)

Next ==
    \/ Start \/ Stop \/ DeviceRemoved
    \/ \E medium \in Media \cup {Gone} : Change(medium)
    \/ \E d \in Ids : Worker(d)

Spec == Init /\ [][Next]_vars

(* A probe ends, however slow: the drive answers or the call is cancelled.    *)
FairSpec == Spec /\ \A d \in Ids : WF_vars(Worker(d))

-----------------------------------------------------------------------------
(* LossReason, what the player acts on.                                       *)
LossReason == IF mData = 0 THEN "Present" ELSE data[mData].loss

(* The disc that plays is not reported lost for what a worker of an earlier   *)
(* disc saw, or before: only when it was itself away since it was opened.     *)
OnlyOwnLoss == LossReason # "Present" => data[mData].seen

(* "Each probe opens a fresh path": a medium that stays away, or another one  *)
(* that stays in its place, is noticed while the player goes on.              *)
LossNoticed ==
    \A d \in Ids : mData = d /\ drive # data[d].initial
        ~> mData # d \/ data[d].loss # "Present" \/ drive = data[d].initial
=============================================================================
