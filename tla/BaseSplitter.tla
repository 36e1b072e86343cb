------------------------------ MODULE BaseSplitter ------------------------------
(***************************************************************************)
(* The splitters of MPC-HC (BaseSplitter.cpp): the filter's thread reads   *)
(* the file and puts packets into the queue of each output pin, a thread   *)
(* of each pin delivers them downstream, and the application starts, seeks *)
(* and stops the filter.  A seek flushes the pins, has the filter's thread *)
(* go to the new position, and ends the flush, without a lock that the     *)
(* other threads take.  A step is cut where another thread can tell.       *)
(* The reader is the DSM splitter's, the one splitter of the repository.   *)
(***************************************************************************)
EXTENDS Naturals, Sequences, FiniteSetsExt

CONSTANTS NPins,        \* connected output pins
          Packets,      \* bound: packets of each stream after a position
          QueueMax,     \* m_QueueMaxPackets
          QueueMin,     \* MINPACKETS
          MaxSeeks,     \* bound: seeks
          MaxStops,     \* bound: stops
          Errors,       \* the filters downstream may fail
          Discontinuous \* IsDiscontinuous: the pins of subtitles and scripts

(* What the constants have to be.                                             *)
Constants ==
    /\ NPins \in Nat \ {0} /\ {Packets, QueueMax, QueueMin, MaxSeeks, MaxStops} \subseteq Nat
    /\ Errors \in BOOLEAN /\ Discontinuous \subseteq Nat

VARIABLES app,      \* the application's thread, under the filter's lock
          flt,      \* the filter and its thread
          pin,      \* the output pins and their threads
          down,     \* what is downstream of each pin
          got       \* what each pin delivered since the last new segment

vars == <<app, flt, pin, down, got>>

Pins == 1 .. NPins
Eos == [pass |-> 0, nr |-> 0]
Passes == 0 .. MaxSeeks + MaxStops + 1
Item == [pass : Passes, nr : 1 .. Packets] \cup {Eos}

TypeOK ==
    /\ app \in [op : {"none", "seek", "exit"}, at : Pins, seeks : 0 .. MaxSeeks, stops : 0 .. MaxStops,
                pc : {"idle", "flags", "flush", "call", "answer", "reopen", "release", "end", "exit", "exited"}]
    /\ flt \in [pc : {"none", "init", "seek", "wait", "segment", "demux", "queue", "add", "eos", "idle"},
                send : {"none", "seek", "exit"}, done : BOOLEAN, end : BOOLEAN, flushing : BOOLEAN,
                pass : Passes, active : SUBSET Pins, todo : SUBSET Pins,
                to : Pins, item : Item, read : [Pins -> 0 .. Packets]]
    /\ pin \in [Pins -> [pc : {"none", "init", "restart", "loop", "pop", "got", "deliver", "wait", "judge", "report"},
                         send : BOOLEAN, done : BOOLEAN, ok : BOOLEAN, flushing : BOOLEAN, flushed : BOOLEAN,
                         end : BOOLEAN, queue : Seq(Item), more : BOOLEAN, item : Item, failed : {"no", "flush", "error"}]]
    /\ \A p \in Pins : Len(pin[p].queue) <= 2 * QueueMax + 1
    /\ down \in [Pins -> {"open", "flushing", "stopped"}]
    /\ got \in [Pins -> [pass : Passes, run : Seq(Nat), stale : Nat, eos : BOOLEAN, open : BOOLEAN, late : BOOLEAN]]

Init ==
    /\ app = [op |-> "none", at |-> 1, seeks |-> 0, stops |-> 0, pc |-> "idle"]
    /\ flt = [pc |-> "none", send |-> "none", done |-> FALSE, end |-> FALSE, flushing |-> FALSE, pass |-> 0,
              active |-> {}, todo |-> {}, to |-> 1, item |-> Eos, read |-> [p \in Pins |-> 0]]
    /\ pin = [p \in Pins |-> [pc |-> "none", send |-> FALSE, done |-> FALSE, ok |-> TRUE, flushing |-> FALSE,
                flushed |-> FALSE, end |-> FALSE, queue |-> <<>>, more |-> FALSE, item |-> Eos, failed |-> "no"]]
    /\ down = [p \in Pins |-> "stopped"]
    /\ got = [p \in Pins |-> [pass |-> 0, run |-> <<>>, stale |-> 0, eos |-> FALSE,
                           open |-> FALSE, late |-> FALSE]]

AppGoes(l) == app' = [app EXCEPT !.pc = l]
SetPin(p, r) == pin' = [pin EXCEPT ![p] = r]

-----------------------------------------------------------------------------
(* The application.                                                           *)

(* Pause of a stopped graph, the filters downstream first: Active and Create. *)
Pause ==
    /\ app.pc = "idle" /\ flt.pc = "none"
    /\ pin' = [p \in Pins |-> [pin[p] EXCEPT !.pc = "init"]]
    /\ flt' = [flt EXCEPT !.pc = "init"]
    /\ down' = [p \in Pins |-> "open"]
    /\ UNCHANGED <<app, got>>

(* SetPositionsInternal for a new position.  DeliverBeginFlush starts.        *)
Seek ==
    /\ app.pc = "idle" /\ app.seeks < MaxSeeks
    /\ app' = [app EXCEPT !.seeks = @ + 1, !.op = "seek", !.at = 1,
                          !.pc = IF flt.pc = "none" THEN "idle" ELSE "flags"]
    /\ flt' = [flt EXCEPT !.flushing = @ \/ flt.pc # "none"]
    /\ UNCHANGED <<pin, down, got>>

(* Stop, after the filters downstream.                                        *)
Stop ==
    /\ app.pc = "idle" /\ app.stops < MaxStops /\ flt.pc # "none"
    /\ app' = [app EXCEPT !.stops = @ + 1, !.op = "exit", !.at = 1, !.pc = "flags"]
    /\ flt' = [flt EXCEPT !.flushing = TRUE]
    /\ down' = [p \in Pins |-> "stopped"]
    /\ UNCHANGED <<pin, got>>

ForNextPin(l, last) ==
    app' = IF app.at = NPins THEN [app EXCEPT !.pc = last, !.at = 1] ELSE [app EXCEPT !.pc = l, !.at = @ + 1]

(* The pin's DeliverBeginFlush, until m_fFlushing is set.                     *)
BeginFlush(p) ==
    /\ app.pc = "flags" /\ app.at = p
    /\ SetPin(p, [pin[p] EXCEPT !.end = FALSE, !.flushed = FALSE, !.flushing = TRUE])
    /\ AppGoes("flush")
    /\ UNCHANGED <<flt, down, got>>

(* The rest of it.  When a filter downstream does not begin to flush, nobody  *)
(* has to wait for the end; those before it may flush nevertheless.           *)
EmptyQueue(p) ==
    /\ app.pc = "flush" /\ app.at = p
    /\ \E begun \in {TRUE, ~Errors} : \E flushes \in {TRUE, begun} :
          /\ SetPin(p, [pin[p] EXCEPT !.ok = FALSE, !.queue = <<>>, !.end = IF begun THEN @ ELSE TRUE])
          /\ down' = [down EXCEPT ![p] = IF flushes /\ @ = "open" THEN "flushing" ELSE @]
    /\ got' = [got EXCEPT ![p].open = FALSE, ![p].run = <<>>, ![p].eos = FALSE, ![p].stale = 0, ![p].late = ~pin[p].flushing]
    /\ ForNextPin("flags", "call")
    /\ UNCHANGED flt

(* CallWorker.                                                                *)
Call ==
    /\ app.pc = "call"
    /\ flt' = [flt EXCEPT !.send = app.op]
    /\ AppGoes("answer")
    /\ UNCHANGED <<pin, down, got>>

Answered ==
    /\ app.pc = "answer" /\ flt.done
    /\ flt' = [flt EXCEPT !.done = FALSE]
    /\ AppGoes("reopen")
    /\ UNCHANGED <<pin, down, got>>

(* The pin's DeliverEndFlush, until m_hrDeliver is set.                       *)
Reopen(p) ==
    /\ app.pc = "reopen" /\ app.at = p
    /\ SetPin(p, [pin[p] EXCEPT !.ok = TRUE])
    /\ down' = [down EXCEPT ![p] = IF @ = "flushing" THEN "open" ELSE @]
    /\ AppGoes("release")
    /\ UNCHANGED <<flt, got>>

(* Mutant: the thread that waits for the end of the flush is not woken.       *)
Release_NoSet(p) ==
    /\ app.pc = "release" /\ app.at = p
    /\ SetPin(p, [pin[p] EXCEPT !.flushing = FALSE, !.flushed = TRUE])
    /\ ForNextPin("reopen", "end")
    /\ UNCHANGED <<flt, down, got>>

(* The rest of it.                                                            *)
Release(p) ==
    /\ app.pc = "release" /\ app.at = p
    /\ SetPin(p, [pin[p] EXCEPT !.flushing = FALSE, !.flushed = TRUE, !.end = TRUE])
    /\ ForNextPin("reopen", "end")
    /\ UNCHANGED <<flt, down, got>>

(* The end of the filter's DeliverEndFlush; a stop goes on with the pins.     *)
EndFlush ==
    /\ app.pc = "end"
    /\ flt' = [flt EXCEPT !.flushing = FALSE, !.end = TRUE]
    /\ AppGoes(IF app.op = "exit" THEN "exit" ELSE "idle")
    /\ UNCHANGED <<pin, down, got>>

(* Inactive: CallWorker(CMD_EXIT).                                            *)
ExitPin(p) ==
    /\ app.pc = "exit" /\ app.at = p
    /\ SetPin(p, [pin[p] EXCEPT !.send = TRUE])
    /\ AppGoes("exited")
    /\ UNCHANGED <<flt, down, got>>

PinExited(p) ==
    /\ app.pc = "exited" /\ app.at = p /\ pin[p].done
    /\ SetPin(p, [pin[p] EXCEPT !.done = FALSE])
    /\ ForNextPin("exit", "idle")
    /\ UNCHANGED <<flt, down, got>>

AppStep ==
    \/ Call \/ Answered \/ EndFlush
    \/ \E p \in Pins : \/ BeginFlush(p) \/ EmptyQueue(p) \/ Reopen(p) \/ Release(p)
                       \/ ExitPin(p) \/ PinExited(p)

-----------------------------------------------------------------------------
(* The filter's thread.                                                       *)

StartFilter ==
    /\ flt.pc = "init"
    /\ flt' = [flt EXCEPT !.end = TRUE, !.flushing = FALSE, !.pc = "seek"]
    /\ UNCHANGED <<app, pin, down, got>>

(* DemuxSeek, and the answer to a seek.                                       *)
DemuxSeek ==
    /\ flt.pc = "seek"
    /\ flt' = [flt EXCEPT !.pass = @ + 1, !.read = [p \in Pins |-> 0], !.pc = "wait"]
    /\ UNCHANGED <<app, pin, down, got>>

(* The first command of the thread is none: its reply is not for anybody.     *)
Reposition ==
    /\ flt.pc = "idle" /\ flt.send = "seek"
    /\ flt' = [flt EXCEPT !.pass = @ + 1, !.read = [p \in Pins |-> 0], !.pc = "wait",
                          !.send = "none", !.done = TRUE]
    /\ UNCHANGED <<app, pin, down, got>>

ExitFilter ==
    /\ flt.pc = "idle" /\ flt.send = "exit"
    /\ flt' = [flt EXCEPT !.pc = "none", !.send = "none", !.done = TRUE]
    /\ UNCHANGED <<app, pin, down, got>>

(* Mutant: the packets of the new position do not wait for the flush to end.  *)
WaitForEnd_Not ==
    /\ flt.pc = "wait"
    /\ flt' = [flt EXCEPT !.active = {}, !.todo = Pins, !.pc = "segment"]
    /\ UNCHANGED <<app, pin, down, got>>

WaitForEnd ==
    /\ flt.pc = "wait" /\ flt.end
    /\ flt' = [flt EXCEPT !.end = FALSE, !.active = {}, !.todo = Pins, !.pc = "segment"]
    /\ UNCHANGED <<app, pin, down, got>>

(* DeliverNewSegment of a pin that is not flushing.                           *)
NewSegment(p) ==
    /\ flt.pc = "segment" /\ ~flt.flushing /\ p \in flt.todo /\ \A q \in flt.todo : p <= q
    /\ flt' = [flt EXCEPT !.active = @ \cup {p}, !.todo = @ \ {p}]
    /\ got' = IF pin[p].flushing THEN got
              ELSE [got EXCEPT ![p] = [@ EXCEPT !.pass = flt.pass, !.run = <<>>, !.eos = FALSE, !.open = TRUE]]
    /\ UNCHANGED <<app, pin, down>>

Segmented ==
    /\ flt.pc = "segment" /\ (flt.flushing \/ flt.todo = {})
    /\ flt' = [flt EXCEPT !.pc = "demux"]
    /\ UNCHANGED <<app, pin, down, got>>

(* DemuxLoop: a packet of some stream is read; DeliverPacket drops it when    *)
(* its pin is not active.                                                     *)
Demux(p) ==
    /\ flt.pc = "demux" /\ flt.send = "none" /\ flt.read[p] < Packets
    /\ LET nr == flt.read[p] + 1
       IN flt' = IF p \in flt.active
                 THEN [flt EXCEPT !.read[p] = nr, !.to = p, !.item = [pass |-> flt.pass, nr |-> nr], !.pc = "queue"]
                 ELSE [flt EXCEPT !.read[p] = nr]
    /\ UNCHANGED <<app, pin, down, got>>

DemuxEnds ==
    /\ flt.pc = "demux" /\ (flt.send # "none" \/ \A p \in Pins : flt.read[p] = Packets)
    /\ flt' = [flt EXCEPT !.pc = "eos", !.todo = flt.active]
    /\ UNCHANGED <<app, pin, down, got>>

(* Mutant: a full queue never grows for the sake of another.                  *)
AnyPinDrying_Not == FALSE

(* IsAnyPinDrying.                                                            *)
AnyPinDrying ==
    \/ \E p \in flt.active \ Discontinuous : Len(pin[p].queue) < QueueMin
    \/ MapThenSumSet(LAMBDA p : Len(pin[p].queue), flt.active) < QueueMax

(* Mutant: one packet too many.                                               *)
Full_OffByOne(p) ==
    LET n == Len(pin[p].queue) IN n > 2 * QueueMax + 1 \/ (n > QueueMax + 1 /\ ~AnyPinDrying)

Full(p) ==
    LET n == Len(pin[p].queue) IN n > 2 * QueueMax \/ (n > QueueMax /\ ~AnyPinDrying)

(* Back to the caller of QueuePacket; a pin that refuses a packet is given up. *)
Queued(refused) ==
    [flt EXCEPT !.active = IF refused /\ flt.item # Eos THEN @ \ {flt.to} ELSE @,
                !.pc = IF flt.item = Eos THEN "eos" ELSE "demux", !.to = 1, !.item = Eos]

(* QueuePacket until it adds, ...                                             *)
QueuePacket ==
    /\ flt.pc = "queue" /\ (~pin[flt.to].ok \/ ~Full(flt.to))
    /\ flt' = IF pin[flt.to].ok THEN [flt EXCEPT !.pc = "add"] ELSE Queued(TRUE)
    /\ got' = [got EXCEPT ![flt.to].late = @ \/ (pin[flt.to].pc = "init" /\ ~pin[flt.to].ok)]
    /\ UNCHANGED <<app, pin, down>>

(* ... which it does whether or not a flush began since.                      *)
Add ==
    /\ flt.pc = "add"
    /\ SetPin(flt.to, [pin[flt.to] EXCEPT !.queue = Append(@, flt.item)])
    /\ flt' = Queued(~pin[flt.to].ok)
    /\ UNCHANGED <<app, down, got>>

(* QueueEndOfStream for each active pin, until there is a request.            *)
QueueEndOfStream(p) ==
    /\ flt.pc = "eos" /\ flt.send = "none" /\ p \in flt.todo /\ \A q \in flt.todo : p <= q
    /\ flt' = [flt EXCEPT !.todo = @ \ {p}, !.to = p, !.item = Eos, !.pc = "queue"]
    /\ UNCHANGED <<app, pin, down, got>>

GetRequest ==
    /\ flt.pc = "eos" /\ (flt.send # "none" \/ flt.todo = {})
    /\ flt' = [flt EXCEPT !.pc = "idle"]
    /\ UNCHANGED <<app, pin, down, got>>

FilterThread ==
    \/ StartFilter \/ DemuxSeek \/ Reposition \/ ExitFilter \/ WaitForEnd \/ Segmented \/ DemuxEnds
    \/ QueuePacket \/ Add \/ GetRequest
    \/ \E p \in Pins : NewSegment(p) \/ Demux(p) \/ QueueEndOfStream(p)

-----------------------------------------------------------------------------
(* The thread of a pin.                                                       *)

StartPin(p) ==
    /\ pin[p].pc = "init"
    /\ SetPin(p, [pin[p] EXCEPT !.ok = TRUE, !.flushing = FALSE, !.flushed = FALSE, !.end = TRUE, !.pc = "restart"])
    /\ got' = [got EXCEPT ![p].late = @ \/ pin[p].flushing]
    /\ UNCHANGED <<app, flt, down>>

(* It flushes what is downstream by itself.                                   *)
Restart(p) ==
    /\ pin[p].pc = "restart"
    /\ down' = [down EXCEPT ![p] = IF @ = "flushing" THEN "open" ELSE @]
    /\ SetPin(p, [pin[p] EXCEPT !.pc = "loop"])
    /\ UNCHANGED <<app, flt, got>>

LeavePin(p) ==
    /\ pin[p].pc = "loop" /\ pin[p].send
    /\ SetPin(p, [pin[p] EXCEPT !.pc = "none", !.send = FALSE, !.done = TRUE])
    /\ UNCHANGED <<app, flt, down, got>>

(* A packet is taken from the queue; more tells whether the inner loop goes on. *)
Pop(p) ==
    /\ pin[p].pc = "pop" \/ (pin[p].pc = "loop" /\ ~pin[p].send /\ pin[p].queue # <<>>)
    /\ SetPin(p, IF pin[p].queue = <<>> THEN [pin[p] EXCEPT !.pc = "loop"]
                 ELSE [pin[p] EXCEPT !.item = Head(pin[p].queue), !.queue = Tail(@), !.more = Len(pin[p].queue) > 1, !.pc = "got"])
    /\ UNCHANGED <<app, flt, down, got>>

After(r) == [r EXCEPT !.pc = IF r.more THEN "pop" ELSE "loop", !.item = Eos, !.more = FALSE, !.failed = "no"]

(* Where the code asserts that the pin is not flushing.                       *)
CheckDeliver(p) ==
    /\ pin[p].pc = "got"
    /\ SetPin(p, IF pin[p].ok THEN [pin[p] EXCEPT !.flushed = FALSE, !.pc = "deliver"] ELSE After(pin[p]))
    /\ UNCHANGED <<app, flt, down, got>>

(* A renderer keeps its first packet until each of the others has one, or     *)
(* knows that there is none; one of subtitles does not count.                 *)
Prerolled(p) ==
    \A q \in Pins \ Discontinuous :
        q = p \/ pin[q].pc = "deliver" \/ got[q].run # <<>> \/ got[q].eos \/ ~pin[q].ok

(* The next filter takes the packet, ...                                      *)
Accept(p) ==
    /\ pin[p].pc = "deliver" /\ down[p] = "open"
    /\ pin[p].item = Eos \/ got[p].run # <<>> \/ Prerolled(p)
    /\ LET i == pin[p].item
           g == got[p]
       IN got' = [got EXCEPT ![p] =
                    IF g.open /\ i = Eos THEN [g EXCEPT !.eos = TRUE]
                    ELSE IF g.open /\ i.pass = g.pass THEN [g EXCEPT !.run = Append(@, i.nr)]
                    ELSE [g EXCEPT !.stale = @ + 1]]
    /\ SetPin(p, [pin[p] EXCEPT !.pc = "wait", !.failed = "no"])
    /\ UNCHANGED <<app, flt, down>>

(* ... or refuses it: it flushes, is stopped, or fails.                       *)
Refuse(p) ==
    /\ pin[p].pc = "deliver" /\ (down[p] # "open" \/ Errors)
    /\ SetPin(p, [pin[p] EXCEPT !.pc = "wait", !.failed = IF down[p] = "flushing" THEN "flush" ELSE "error"])
    /\ UNCHANGED <<app, flt, down, got>>

WaitEndFlush(p) ==
    /\ pin[p].pc = "wait" /\ pin[p].end
    /\ SetPin(p, [pin[p] EXCEPT !.pc = "judge"])
    /\ UNCHANGED <<app, flt, down, got>>

(* Mutant: a delivery that failed is not reported.                            *)
Judge_Ignore(p) ==
    /\ pin[p].pc = "judge"
    /\ SetPin(p, After(pin[p]))
    /\ UNCHANGED <<app, flt, down, got>>

Judge(p) ==
    /\ pin[p].pc = "judge"
    /\ SetPin(p, IF pin[p].failed # "no" /\ ~pin[p].flushed THEN [pin[p] EXCEPT !.pc = "report"] ELSE After(pin[p]))
    /\ UNCHANGED <<app, flt, down, got>>

Report(p) ==
    /\ pin[p].pc = "report"
    /\ SetPin(p, [After(pin[p]) EXCEPT !.ok = FALSE, !.pc = "loop"])
    /\ UNCHANGED <<app, flt, down, got>>

PinThread(p) ==
    \/ StartPin(p) \/ Restart(p) \/ LeavePin(p) \/ Pop(p) \/ CheckDeliver(p) \/ (down[p] # "open" /\ Refuse(p))
    \/ WaitEndFlush(p) \/ Judge(p) \/ Report(p)

Next ==
    \/ Pause \/ Seek \/ Stop \/ AppStep \/ FilterThread
    \/ \E p \in Pins : PinThread(p) \/ Accept(p) \/ Refuse(p)

(* Every thread runs, and what is downstream takes what it is given.          *)
Fairness ==
    /\ WF_vars(AppStep) /\ WF_vars(FilterThread)
    /\ \A p \in Pins : WF_vars(PinThread(p)) /\ WF_vars(Accept(p) \/ Refuse(p))

Spec == Init /\ [][Next]_vars
FairSpec == Spec /\ Fairness

-----------------------------------------------------------------------------
(* Properties.                                                                *)

(* Nobody waits for the threads of a new run.  A pin whose thread starts in   *)
(* the middle of a flush, or after a packet for it was refused because of an  *)
(* error of the run before, is late: it ends the flush by itself or has lost  *)
(* its packets, and what follows is promised from the next flush on.          *)

(* What a pin delivers of a segment is what was read of it, from its start,   *)
(* without a gap, in order.                                                   *)
InOrder ==
    \A p \in Pins : got[p].late \/ \A i \in 1 .. Len(got[p].run) : got[p].run[i] = i

(* At most two packets from before a flush are delivered after it: the one in *)
(* the hands of the pin's thread and the one in those of the filter's thread. *)
FewStale == \A p \in Pins : got[p].late \/ got[p].stale <= 2

(* A seek and a stop return.                                                  *)
Returns == app.pc # "idle" ~> app.pc = "idle"

(* A segment ends with the end of the stream, unless the pin failed, flushes  *)
(* or stops: no queue stays full, no pin stays without its packets.           *)
Ended(p) == got[p].eos \/ ~got[p].open \/ ~pin[p].ok \/ got[p].late \/ flt.pc = "none"
StreamEnds == \A p \in Pins : got[p].open ~> Ended(p)
=============================================================================
