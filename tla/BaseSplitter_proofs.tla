------------------------- MODULE BaseSplitter_proofs -------------------------
(***************************************************************************)
(* Proofs about BaseSplitter for any number of pins and packets, any size  *)
(* of the queues and any number of seeks and stops.                        *)
(*                                                                         *)
(* The pins are independent but for the application and the filter's       *)
(* thread, so that the invariant says for one pin p what its record, what  *)
(* is downstream and what arrived have to do with those two.  A flush      *)
(* passes a pin in four places: ahead of it, between the flags and the     *)
(* emptying of the queue, from there until it is open again, and until its *)
(* flags are cleared; the flags of a pin that is not late tell the place   *)
(* (FlushInv).  A segment is open from its start until the queue is        *)
(* emptied, during which time the filter reads from one position           *)
(* (OpenInv).  Packets of before the segment are in the hands of the two   *)
(* threads and at the head of the queue, nowhere else (StaleInv); those of *)
(* the segment are one run of numbers through the queue, from what arrived *)
(* to what was read, until one is lost (RunInv).                           *)
(***************************************************************************)
EXTENDS BaseSplitter, SequenceTheorems, TLAPS

(* The types of the parts of the state.                                       *)
AppState == [op : {"none", "seek", "exit"}, at : Pins, seeks : 0 .. MaxSeeks, stops : 0 .. MaxStops,
             pc : {"idle", "flags", "flush", "call", "answer", "reopen", "release", "end", "exit", "exited"}]
FltState == [pc : {"none", "init", "seek", "wait", "segment", "demux", "queue", "add", "eos", "idle"},
             send : {"none", "seek", "exit"}, done : BOOLEAN, end : BOOLEAN, flushing : BOOLEAN,
             pass : Passes, active : SUBSET Pins, todo : SUBSET Pins,
             to : Pins, item : Item, read : [Pins -> 0 .. Packets]]
PinState == [pc : {"none", "init", "restart", "loop", "pop", "got", "deliver", "wait", "judge", "report"},
             send : BOOLEAN, done : BOOLEAN, ok : BOOLEAN, flushing : BOOLEAN, flushed : BOOLEAN,
             end : BOOLEAN, queue : Seq(Item), more : BOOLEAN, item : Item, failed : {"no", "flush", "error"}]
GotState == [pass : Passes, run : Seq(Nat), stale : Nat, eos : BOOLEAN, open : BOOLEAN, late : BOOLEAN]
DownState == {"open", "flushing", "stopped"}

(* Where the application is with a pin's flush: before it, between the flags  *)
(* and the emptying of the queue, from there until the pin delivers again,    *)
(* and until its flags are cleared.                                           *)
Ahead(a, p) == a.pc \in {"flags", "flush"} /\ (a.at < p \/ (a.at = p /\ a.pc = "flags"))
Began(a, p) == a.pc = "flush" /\ a.at = p
Emptied(a, p) ==
    \/ a.pc \in {"flags", "flush"} /\ p < a.at
    \/ a.pc \in {"call", "answer"}
    \/ a.pc = "reopen" /\ a.at <= p
    \/ a.pc = "release" /\ a.at < p
Reopened(a, p) == a.pc = "release" /\ a.at = p
Flushing(a, p) == Began(a, p) \/ Emptied(a, p) \/ Reopened(a, p)
(* The emptying of the queue is over.                                         *)
Past(a, p) ==
    \/ a.pc \in {"flags", "flush"} /\ p < a.at
    \/ a.pc \in {"call", "answer", "reopen", "release", "end", "exit", "exited"}
Stopping(a) == a.pc # "idle" /\ a.op = "exit"

Working(f) == f.pc \in {"segment", "demux", "queue", "add", "eos", "idle"}
Starting(f) == f.pc \in {"none", "init", "seek"}
Asked(a, f) == a.pc \in {"flags", "flush", "call"} \/ (a.pc = "answer" /\ ~f.done)

-----------------------------------------------------------------------------
(* What holds of the application and the filter's thread.                     *)

(* A request and its answer.                                                  *)
CallInv(a, f) ==
    /\ a.pc \notin {"idle", "exit", "exited"} => a.op # "none"
    /\ a.pc \in {"exit", "exited"} => a.op = "exit"
    /\ a.pc \in {"flags", "flush", "call"} => f.pc # "none"
    /\ a.pc \in {"reopen", "release", "end", "exit", "exited"} \/ f.done =>
          IF a.op = "exit" THEN f.pc = "none" ELSE f.pc = "wait" /\ ~f.end
    /\ f.done => a.pc = "answer"
    /\ f.send # "none" => a.pc = "answer" /\ ~f.done /\ f.send = a.op
    /\ a.pc = "answer" /\ ~f.done => f.send = a.op /\ f.pc # "none"
    /\ a.pc \notin {"flags", "flush", "reopen", "release", "exit", "exited"} => a.at = 1
    /\ a.pc # "idle" /\ f.pc = "init" => f.flushing
    /\ f.end => f.pc \in {"none", "init", "seek", "wait"}

(* The file is read from a position once per start and seek.                  *)
CountInv(a, f) ==
    /\ f.pass + (IF Starting(f) THEN 1 ELSE 0) + (IF Asked(a, f) THEN 1 ELSE 0) <= a.seeks + a.stops + 1
    /\ Starting(f) \/ f.pass > 0

(* The packet in the hands of the filter's thread is the last one it read.    *)
ReadInv(f) ==
    /\ f.pc \in {"queue", "add"} => f.to \in f.active
    /\ f.pc \in {"queue", "add"} /\ f.item # Eos => f.item = [pass |-> f.pass, nr |-> f.read[f.to]]
    /\ f.item # Eos => f.pc \in {"queue", "add"}
    /\ f.pc \in {"eos", "queue", "add"} /\ f.item = Eos => f.todo \subseteq f.active
    /\ f.pc \in {"wait", "segment"} => \A p \in Pins : f.read[p] = 0

FilterInv(a, f) == CallInv(a, f) /\ CountInv(a, f) /\ ReadInv(f)

-----------------------------------------------------------------------------
(* What holds of a pin p: its thread and its queue r, what is downstream d    *)
(* and what arrived g.                                                        *)

(* Packets are of the passes there were.                                      *)
PassInv(f, r, p) ==
    /\ r.item.pass <= f.pass
    /\ \A k \in 1 .. Len(r.queue) : r.queue[k].pass <= f.pass
    /\ f.pc \in {"wait", "segment"} =>
          r.item.pass < f.pass /\ \A k \in 1 .. Len(r.queue) : r.queue[k].pass < f.pass
    /\ f.pc = "add" /\ f.to = p => Len(r.queue) <= 2 * QueueMax
    /\ Len(r.queue) <= 2 * QueueMax + 1

(* The end of the thread.                                                     *)
ExitInv(a, f, r, d, g, p) ==
    /\ a.pc = "idle" /\ f.pc = "none" => r.pc = "none"
    /\ a.pc \in {"exit", "exited"} /\ p < a.at => r.pc = "none"
    /\ r.done => r.pc = "none" /\ ~r.send /\ a.pc = "exited" /\ a.at = p
    /\ r.send => a.pc = "exited" /\ a.at = p
    /\ Stopping(a) => d = "stopped"
    /\ Stopping(a) /\ Past(a, p) => g.late \/ g.stale = 0

(* The flags of the flush and where the application is.                       *)
FlushInv(a, r, g, p) ==
    /\ r.flushing => Flushing(a, p)
    /\ Flushing(a, p) => r.flushing \/ g.late
    /\ r.pc = "deliver" /\ ~r.ok => Emptied(a, p)
    /\ Emptied(a, p) => ~r.ok \/ g.late
    /\ Began(a, p) => ~r.end \/ g.late

(* A segment is open from its start to the emptying of the queue.             *)
OpenInv(a, f, r, g, p) ==
    /\ g.open => ~Past(a, p) /\ g.pass = f.pass /\ Working(f) /\ (f.pc = "segment" => p \notin f.todo)
    /\ p \in f.active /\ Working(f) /\ (r.flushing => Began(a, p) /\ f.flushing) => g.open
    /\ f.pc = "add" /\ f.to = p /\ g.open /\ r.pc = "init" => r.ok

Hand(r) == r.pc \in {"got", "deliver"}
New(g, i) == i.pass = g.pass
Old(g, i) == ~g.open \/ (i # Eos /\ i.pass # g.pass)
HandOld(r, g) == IF Hand(r) /\ Old(g, r.item) THEN 1 ELSE 0
QueueOld(r, g) == IF r.queue # <<>> /\ Old(g, r.queue[1]) THEN 1 ELSE 0
AddOld(f, g, p) == IF f.pc = "add" /\ f.to = p /\ Old(g, f.item) THEN 1 ELSE 0
Staleness(f, r, g, p) == g.stale + HandOld(r, g) + QueueOld(r, g) + AddOld(f, g, p)

(* The filter's thread, started in the middle of a flush, has passed over the *)
(* pin, whose thread will stop at its next delivery.                          *)
Skipped(a, f, g, p) == Began(a, p) /\ ~g.open /\ ~f.flushing

(* Where the packets are that belong to no open segment.                      *)
StaleInv(a, f, r, g, p) ==
    /\ ~Skipped(a, f, g, p) =>
          /\ Staleness(f, r, g, p) <= 2 /\ QueueOld(r, g) + AddOld(f, g, p) <= 1
          /\ \A k \in 2 .. Len(r.queue) : ~Old(g, r.queue[k])
    /\ Skipped(a, f, g, p) => g.stale + (IF r.pc = "wait" THEN 0 ELSE 1) <= 2
    /\ f.pc = "init" \/ (f.pc = "none" /\ a.pc = "idle") => Staleness(f, r, g, p) <= 1
    /\ Ahead(a, p) /\ ~f.flushing /\ ~g.open => Staleness(f, r, g, p) <= 1

(* A packet of the segment was lost, which is about to be reported.           *)
Lost(r, g) == r.pc \in {"wait", "judge", "report"} /\ r.failed # "no" /\ New(g, r.item)
Base(r, g) == Len(g.run) + (IF Hand(r) /\ New(g, r.item) THEN 1 ELSE 0)
Given(f, p) == f.pc \in {"queue", "add"} /\ f.to = p /\ f.item # Eos
Last(f, p) == f.read[p] - (IF Given(f, p) THEN 1 ELSE 0)
Reading(f) == f.pc \in {"segment", "demux"} \/ (f.pc \in {"queue", "add"} /\ f.item # Eos)

(* The packets after the first i and up to the j-th of the queue continue     *)
(* what was delivered, up to what was read.                                   *)
Block(f, r, g, p, i, j) ==
    /\ i <= j
    /\ \A k \in 1 .. Len(r.queue) :
          IF i < k /\ k <= j THEN r.queue[k] = [pass |-> g.pass, nr |-> Base(r, g) + k - i]
          ELSE ~New(g, r.queue[k])
    /\ Base(r, g) + j - i = Last(f, p)
    /\ Reading(f) => j = Len(r.queue)

Continues(f, r, g, p) == \E i, j \in 0 .. Len(r.queue) : Block(f, r, g, p, i, j)
Healthy(r, g) == (r.ok \/ r.pc = "init") /\ ~Lost(r, g)

RunInv(f, r, g, p) ==
    /\ \A i \in 1 .. Len(g.run) : g.run[i] = i
    /\ g.open /\ r.pc \in {"deliver", "wait", "judge"} /\ New(g, r.item) => ~r.flushed
    /\ g.open /\ Healthy(r, g) =>
          /\ p \in f.active
          /\ Hand(r) /\ New(g, r.item) => r.item.nr = Len(g.run) + 1
          /\ Continues(f, r, g, p)

PinInv(a, f, r, d, g, p) ==
    /\ PassInv(f, r, p) /\ ExitInv(a, f, r, d, g, p) /\ FlushInv(a, r, g, p)
    /\ g.late \/ (OpenInv(a, f, r, g, p) /\ StaleInv(a, f, r, g, p) /\ RunInv(f, r, g, p))

Typed ==
    /\ app \in AppState /\ flt \in FltState /\ pin \in [Pins -> PinState]
    /\ down \in [Pins -> DownState] /\ got \in [Pins -> GotState]

IInv ==
    /\ Typed /\ FilterInv(app, flt)
    /\ \A p \in Pins : PinInv(app, flt, pin[p], down[p], got[p], p)

(* A state of the application, the filter and one pin that the invariant      *)
(* allows.                                                                    *)
Possible(a, f, r, d, g, p) ==
    /\ a \in AppState /\ f \in FltState /\ r \in PinState /\ d \in DownState /\ g \in GotState
    /\ FilterInv(a, f) /\ PinInv(a, f, r, d, g, p)

-----------------------------------------------------------------------------
(* One packet more in the queue is one more from what arrived to what was     *)
(* read.                                                                      *)
LEMMA OneMore == \A x, y, z, m \in Int : x + y - z = m - 1 => x + (y + 1) - z = m
  OBVIOUS

(* Packets, and the queue.                                                    *)
LEMMA ItemFacts ==
    ASSUME Constants
    PROVE  /\ Eos \in Item /\ Eos.pass = 0 /\ Eos.nr = 0
           /\ \A i \in Item : i.pass \in Nat /\ i.nr \in Nat /\ i.pass <= MaxSeeks + MaxStops + 1
           /\ \A n \in Passes, k \in 1 .. Packets : [pass |-> n, nr |-> k] \in Item /\ [pass |-> n, nr |-> k] # Eos
  BY DEF Constants, Item, Eos, Passes

LEMMA QueueFacts ==
    ASSUME Constants, NEW r \in PinState
    PROVE  /\ r.queue \in Seq(Item) /\ Len(r.queue) \in Nat
           /\ \A k \in 1 .. Len(r.queue) : r.queue[k] \in Item /\ r.queue[k].pass \in Nat
           /\ r.queue # <<>> <=> Len(r.queue) > 0
           /\ r.queue # <<>> =>
                /\ Head(r.queue) = r.queue[1] /\ Head(r.queue) \in Item
                /\ Tail(r.queue) \in Seq(Item) /\ Len(Tail(r.queue)) = Len(r.queue) - 1
                /\ \A k \in 1 .. Len(Tail(r.queue)) : Tail(r.queue)[k] = r.queue[k + 1]
  <1> DEFINE q == r.queue
  <1>1. q \in Seq(Item)
    BY DEF PinState
  <1>2. Len(q) \in Nat /\ (q # <<>> => Len(q) > 0) /\ (q = <<>> => Len(q) = 0)
    BY <1>1, EmptySeq, LenProperties
  <1>3. ASSUME NEW k \in 1 .. Len(q) PROVE q[k] \in Item /\ q[k].pass \in Nat
    <2>1. q[k] \in Item
      BY <1>1, ElementOfSeq
    <2> QED BY <2>1, ItemFacts
  <1>4. q # <<>> => /\ Head(q) \in Item /\ Tail(q) \in Seq(Item) /\ Len(Tail(q)) = Len(q) - 1
                    /\ \A k \in 1 .. Len(Tail(q)) : Tail(q)[k] = q[k + 1]
    BY <1>1, HeadTailProperties
  <1>5. q # <<>> => Head(q) = q[1]
    BY <1>1, <1>2
  <1> QED BY <1>1, <1>2, <1>3, <1>4, <1>5

LEMMA Counts ==
    ASSUME NEW f \in FltState, NEW r \in PinState, NEW g \in GotState, NEW p
    PROVE  /\ HandOld(r, g) \in {0, 1} /\ QueueOld(r, g) \in {0, 1} /\ AddOld(f, g, p) \in {0, 1}
           /\ g.stale \in Nat /\ Len(g.run) \in Nat /\ Base(r, g) \in Nat
  <1>1. g.stale \in Nat /\ g.run \in Seq(Nat)
    BY DEF GotState
  <1>2. Len(g.run) \in Nat
    BY <1>1, LenProperties
  <1>3. HandOld(r, g) \in {0, 1} /\ QueueOld(r, g) \in {0, 1} /\ AddOld(f, g, p) \in {0, 1}
    BY DEF HandOld, QueueOld, AddOld
  <1>4. Base(r, g) \in {Len(g.run), Len(g.run) + 1}
    <2>1. CASE Hand(r) /\ New(g, r.item)
      BY <1>2, <2>1 DEF Base
    <2>2. CASE ~(Hand(r) /\ New(g, r.item))
      <3>1. Base(r, g) = Len(g.run) + 0
        BY <2>2 DEF Base
      <3> QED BY <1>2, <3>1
    <2> QED BY <2>1, <2>2
  <1> QED BY <1>1, <1>2, <1>3, <1>4

(* A pin's thread that only gives up what it has in hand.                     *)
LEMMA StaleMoves ==
    ASSUME Constants, NEW a, NEW f \in FltState, NEW r \in PinState, NEW g \in GotState, NEW p,
           NEW s \in PinState, StaleInv(a, f, r, g, p),
           s.queue = r.queue, HandOld(s, g) <= HandOld(r, g),
           Skipped(a, f, g, p) /\ r.pc = "wait" => s.pc = "wait"
    PROVE  StaleInv(a, f, s, g, p)
  <1>1. QueueOld(s, g) = QueueOld(r, g)
    BY DEF QueueOld
  <1>2. Staleness(f, s, g, p) <= Staleness(f, r, g, p)
    BY <1>1, Counts DEF Staleness
  <1>3. Staleness(f, s, g, p) \in Int /\ Staleness(f, r, g, p) \in Int
    BY Counts DEF Staleness
  <1>4. Skipped(a, f, g, p) => g.stale + (IF s.pc = "wait" THEN 0 ELSE 1) <= 2
    <2>1. g.stale \in Nat
      BY Counts
    <2> QED BY <2>1 DEF StaleInv
  <1> QED BY <1>1, <1>2, <1>3, <1>4 DEF StaleInv

LEMMA ContinuesMoves ==
    ASSUME NEW f, NEW r, NEW g, NEW p, NEW s, NEW h, Continues(f, r, g, p),
           s.queue = r.queue, h.pass = g.pass, Base(s, h) = Base(r, g)
    PROVE  Continues(f, s, h, p)
  <1>1. PICK i \in 0 .. Len(r.queue), j \in 0 .. Len(r.queue) : Block(f, r, g, p, i, j)
    BY DEF Continues
  <1>2. Block(f, s, h, p, i, j)
    BY <1>1 DEF Block, New
  <1> QED BY <1>2 DEF Continues

-----------------------------------------------------------------------------
(* The steps of a pin's thread.                                               *)
LEMMA StartPinKeeps ==
    ASSUME Constants, NEW p \in Pins, NEW a, NEW f, NEW r, NEW d, NEW g, Possible(a, f, r, d, g, p),
           r.pc = "init", NEW s, NEW h,
           s = [r EXCEPT !.ok = TRUE, !.flushing = FALSE, !.flushed = FALSE, !.end = TRUE, !.pc = "restart"],
           h = [g EXCEPT !.late = @ \/ r.flushing]
    PROVE  PinInv(a, f, s, d, h, p) /\ s \in PinState /\ h \in GotState
  <1>1. s \in PinState /\ h \in GotState /\ r \in PinState /\ g \in GotState /\ f \in FltState
    BY DEF Possible, PinState, GotState
  <1>2. s.queue = r.queue /\ s.item = r.item /\ h.late = (g.late \/ r.flushing) /\ h.stale = g.stale
    BY <1>1 DEF PinState, GotState
  <1>3. PassInv(f, s, p)
    BY <1>2 DEF Possible, PinInv, PassInv
  <1>4. ExitInv(a, f, s, d, h, p)
    BY <1>1, <1>2 DEF Possible, PinInv, ExitInv, PinState
  <1>5. FlushInv(a, s, h, p)
    BY <1>1, <1>2 DEF Possible, PinInv, FlushInv, Flushing, PinState, GotState
  <1>6. ASSUME ~h.late PROVE OpenInv(a, f, s, h, p) /\ StaleInv(a, f, s, h, p) /\ RunInv(f, s, h, p)
    <2>1. h = g /\ ~g.late /\ ~r.flushing
      BY <1>1, <1>2, <1>6 DEF GotState
    <2>2. OpenInv(a, f, s, g, p)
      BY <1>1, <2>1 DEF Possible, PinInv, OpenInv, PinState
    <2>3. StaleInv(a, f, s, g, p)
      <3>1. HandOld(s, g) = 0 /\ s.pc = "restart"
        BY <1>1 DEF HandOld, Hand, PinState
      <3>2. StaleInv(a, f, r, g, p)
        BY <2>1 DEF Possible, PinInv
      <3>3. HandOld(s, g) <= HandOld(r, g)
        BY <1>1, <3>1, Counts
      <3> QED BY <1>1, <1>2, <3>1, <3>2, <3>3, StaleMoves
    <2>4. RunInv(f, s, g, p)
      <3>1. Base(s, g) = Base(r, g) /\ s.pc = "restart" /\ ~Hand(s) /\ Healthy(r, g)
        BY <1>1 DEF Base, Hand, Healthy, Lost, PinState
      <3>2. RunInv(f, r, g, p)
        BY <2>1 DEF Possible, PinInv
      <3> QED BY <1>2, <3>1, <3>2, ContinuesMoves DEF RunInv
    <2> QED BY <2>1, <2>2, <2>3, <2>4
  <1> QED BY <1>1, <1>3, <1>4, <1>5, <1>6 DEF PinInv

(* A step of a pin's thread that takes nothing from the queue and delivers    *)
(* nothing.                                                                   *)
LEMMA ThreadMoves ==
    ASSUME Constants, NEW p \in Pins, NEW a, NEW f, NEW r, NEW d, NEW g, Possible(a, f, r, d, g, p),
           NEW s \in PinState, NEW e,
           s.queue = r.queue, s.flushing = r.flushing, s.end = r.end, s.item \in {r.item, Eos},
           s.ok => r.ok, s.pc # "init", s.pc = "deliver" => s.ok,
           ExitInv(a, f, s, e, g, p),
           HandOld(s, g) <= HandOld(r, g), r.pc = "wait" /\ ~g.late => ~Began(a, p),
           ~g.late /\ g.open =>
               /\ s.pc \in {"deliver", "wait", "judge"} /\ New(g, s.item) => ~s.flushed
               /\ Healthy(s, g) => /\ Healthy(r, g) /\ Base(s, g) = Base(r, g)
                                   /\ Hand(s) /\ New(g, s.item) => Hand(r) /\ s.item = r.item
    PROVE  PinInv(a, f, s, e, g, p)
  <1>1. f \in FltState /\ r \in PinState /\ g \in GotState /\ f.pass \in Nat
    BY DEF Possible, FltState, Passes
  <1>2. PassInv(f, s, p)
    <2>1. Eos.pass <= f.pass /\ (f.pc \in {"wait", "segment"} => Eos.pass < f.pass)
      BY <1>1, ItemFacts DEF Possible, FilterInv, CountInv, Starting, FltState
    <2> QED BY <2>1 DEF Possible, PinInv, PassInv
  <1>3. FlushInv(a, s, g, p)
    BY DEF Possible, PinInv, FlushInv
  <1>4. ASSUME ~g.late PROVE OpenInv(a, f, s, g, p) /\ StaleInv(a, f, s, g, p) /\ RunInv(f, s, g, p)
    <2>1. OpenInv(a, f, r, g, p) /\ StaleInv(a, f, r, g, p) /\ RunInv(f, r, g, p)
      BY <1>4 DEF Possible, PinInv
    <2>2. OpenInv(a, f, s, g, p)
      BY <2>1 DEF OpenInv
    <2>3. StaleInv(a, f, s, g, p)
      BY <1>1, <1>4, <2>1, StaleMoves DEF Skipped
    <2>4. RunInv(f, s, g, p)
      BY <1>4, <2>1, ContinuesMoves DEF RunInv
    <2> QED BY <2>2, <2>3, <2>4
  <1> QED BY <1>2, <1>3, <1>4 DEF PinInv

LEMMA RestartKeeps ==
    ASSUME Constants, NEW p \in Pins, NEW a, NEW f, NEW r, NEW d, NEW g, Possible(a, f, r, d, g, p),
           r.pc = "restart", NEW s, NEW e,
           s = [r EXCEPT !.pc = "loop"], e = IF d = "flushing" THEN "open" ELSE d
    PROVE  PinInv(a, f, s, e, g, p) /\ s \in PinState /\ e \in DownState
  <1>1. s \in PinState /\ e \in DownState /\ r \in PinState
    BY DEF Possible, PinState, DownState
  <1>2. ExitInv(a, f, s, e, g, p)
    BY <1>1 DEF Possible, PinInv, ExitInv, PinState
  <1>3. HandOld(s, g) = 0 /\ HandOld(r, g) = 0 /\ Base(s, g) = Base(r, g)
        /\ (Healthy(s, g) => Healthy(r, g)) /\ ~Hand(s)
    BY <1>1 DEF HandOld, Base, Hand, Healthy, Lost, PinState
  <1> QED BY <1>1, <1>2, <1>3, ThreadMoves DEF PinState

LEMMA LeavePinKeeps ==
    ASSUME Constants, NEW p \in Pins, NEW a, NEW f, NEW r, NEW d, NEW g, Possible(a, f, r, d, g, p),
           r.pc = "loop", r.send, NEW s, s = [r EXCEPT !.pc = "none", !.send = FALSE, !.done = TRUE]
    PROVE  PinInv(a, f, s, d, g, p) /\ s \in PinState
  <1>1. s \in PinState /\ r \in PinState
    BY DEF Possible, PinState
  <1>2. ExitInv(a, f, s, d, g, p)
    BY <1>1 DEF Possible, PinInv, ExitInv, PinState
  <1>3. HandOld(s, g) = 0 /\ HandOld(r, g) = 0 /\ Base(s, g) = Base(r, g)
        /\ (Healthy(s, g) => Healthy(r, g)) /\ ~Hand(s)
    BY <1>1 DEF HandOld, Base, Hand, Healthy, Lost, PinState
  <1>4. HandOld(s, g) <= HandOld(r, g)
    BY <1>3
  <1>5. s.queue = r.queue /\ s.item = r.item /\ s.flushing = r.flushing /\ s.end = r.end /\ s.ok = r.ok
        /\ s.pc = "none"
    BY <1>1 DEF PinState
  <1> QED BY <1>1, <1>2, <1>3, <1>4, <1>5, ThreadMoves

(* Whatever a packet is, a thread that gives it up goes on.                   *)
LEMMA AfterIsTyped ==
    ASSUME Constants, NEW r \in PinState
    PROVE  /\ After(r) \in PinState
           /\ After(r).pc \in {"pop", "loop"} /\ After(r).item = Eos /\ After(r).queue = r.queue
           /\ After(r).flushing = r.flushing /\ After(r).end = r.end /\ After(r).ok = r.ok
           /\ After(r).send = r.send /\ After(r).done = r.done /\ After(r).failed = "no"
  BY ItemFacts DEF After, PinState

LEMMA CheckDeliverKeeps ==
    ASSUME Constants, NEW p \in Pins, NEW a, NEW f, NEW r, NEW d, NEW g, Possible(a, f, r, d, g, p),
           r.pc = "got", NEW s, s = IF r.ok THEN [r EXCEPT !.flushed = FALSE, !.pc = "deliver"] ELSE After(r)
    PROVE  PinInv(a, f, s, d, g, p) /\ s \in PinState
  <1>1. r \in PinState
    BY DEF Possible
  <1>2. CASE r.ok
    <2>1. s \in PinState /\ s.pc = "deliver" /\ ~s.flushed /\ s.queue = r.queue /\ s.item = r.item
          /\ s.flushing = r.flushing /\ s.end = r.end /\ s.ok = r.ok /\ s.send = r.send /\ s.done = r.done
          /\ s.failed = r.failed
      BY <1>1, <1>2 DEF PinState
    <2>2. ExitInv(a, f, s, d, g, p)
      BY <2>1 DEF Possible, PinInv, ExitInv
    <2>3. HandOld(s, g) = HandOld(r, g) /\ Base(s, g) = Base(r, g) /\ Healthy(r, g) /\ Hand(r)
      BY <1>2, <2>1 DEF HandOld, Base, Hand, Healthy, Lost
    <2>4. HandOld(s, g) <= HandOld(r, g)
      BY <1>1, <2>3, Counts DEF Possible
    <2> QED BY <1>2, <2>1, <2>2, <2>3, <2>4, ThreadMoves
  <1>3. CASE ~r.ok
    <2>1. s = After(r) /\ s \in PinState /\ s.pc \in {"pop", "loop"} /\ ~s.ok
      BY <1>1, <1>3, AfterIsTyped
    <2>2. ExitInv(a, f, s, d, g, p)
      BY <1>1, <2>1, AfterIsTyped DEF Possible, PinInv, ExitInv
    <2>3. HandOld(s, g) = 0 /\ ~Healthy(s, g)
      BY <2>1 DEF HandOld, Hand, Healthy
    <2>4. HandOld(s, g) <= HandOld(r, g)
      BY <1>1, <2>3, Counts DEF Possible
    <2> QED BY <1>1, <2>1, <2>2, <2>3, <2>4, AfterIsTyped, ThreadMoves
  <1> QED BY <1>2, <1>3

LEMMA RefuseKeeps ==
    ASSUME Constants, NEW p \in Pins, NEW a, NEW f, NEW r, NEW d, NEW g, Possible(a, f, r, d, g, p),
           r.pc = "deliver", NEW s, NEW w \in {"flush", "error"}, s = [r EXCEPT !.pc = "wait", !.failed = w]
    PROVE  PinInv(a, f, s, d, g, p) /\ s \in PinState
  <1>1. r \in PinState /\ s \in PinState /\ s.pc = "wait" /\ s.failed # "no" /\ s.queue = r.queue
        /\ s.item = r.item /\ s.flushing = r.flushing /\ s.flushed = r.flushed /\ s.end = r.end /\ s.ok = r.ok
        /\ s.send = r.send /\ s.done = r.done
    BY DEF Possible, PinState
  <1>2. ExitInv(a, f, s, d, g, p)
    BY <1>1 DEF Possible, PinInv, ExitInv
  <1>3. HandOld(s, g) = 0 /\ ~Hand(s) /\ (Healthy(s, g) => Healthy(r, g) /\ ~New(g, r.item))
    BY <1>1 DEF HandOld, Hand, Healthy, Lost
  <1>4. Healthy(s, g) => Base(s, g) = Base(r, g)
    BY <1>1, <1>3 DEF Base
  <1>5. HandOld(s, g) <= HandOld(r, g)
    BY <1>1, <1>3, Counts DEF Possible
  <1>6. ~g.late /\ g.open /\ New(g, r.item) => ~r.flushed
    BY DEF Possible, PinInv, RunInv
  <1> QED BY <1>1, <1>2, <1>3, <1>4, <1>5, <1>6, ThreadMoves

LEMMA WaitEndFlushKeeps ==
    ASSUME Constants, NEW p \in Pins, NEW a, NEW f, NEW r, NEW d, NEW g, Possible(a, f, r, d, g, p),
           r.pc = "wait", r.end, NEW s, s = [r EXCEPT !.pc = "judge"]
    PROVE  PinInv(a, f, s, d, g, p) /\ s \in PinState
  <1>1. r \in PinState /\ s \in PinState /\ s.pc = "judge" /\ s.failed = r.failed /\ s.queue = r.queue
        /\ s.item = r.item /\ s.flushing = r.flushing /\ s.flushed = r.flushed /\ s.end = r.end /\ s.ok = r.ok
        /\ s.send = r.send /\ s.done = r.done
    BY DEF Possible, PinState
  <1>2. ExitInv(a, f, s, d, g, p)
    BY <1>1 DEF Possible, PinInv, ExitInv
  <1>3. HandOld(s, g) = 0 /\ HandOld(r, g) = 0 /\ Base(s, g) = Base(r, g) /\ ~Hand(s)
        /\ (Healthy(s, g) => Healthy(r, g))
    BY <1>1 DEF HandOld, Hand, Healthy, Lost, Base
  <1>4. ~g.late => ~Began(a, p)
    BY DEF Possible, PinInv, FlushInv
  <1>5. ~g.late /\ g.open /\ New(g, r.item) => ~r.flushed
    BY DEF Possible, PinInv, RunInv
  <1>6. HandOld(s, g) <= HandOld(r, g)
    BY <1>3
  <1> QED BY <1>1, <1>2, <1>3, <1>4, <1>5, <1>6, ThreadMoves

LEMMA JudgeKeeps ==
    ASSUME Constants, NEW p \in Pins, NEW a, NEW f, NEW r, NEW d, NEW g, Possible(a, f, r, d, g, p),
           r.pc = "judge", NEW s,
           s = IF r.failed # "no" /\ ~r.flushed THEN [r EXCEPT !.pc = "report"] ELSE After(r)
    PROVE  PinInv(a, f, s, d, g, p) /\ s \in PinState
  <1>1. r \in PinState
    BY DEF Possible
  <1>2. CASE r.failed # "no" /\ ~r.flushed
    <2>1. s \in PinState /\ s.pc = "report" /\ s.failed = r.failed /\ s.queue = r.queue
          /\ s.item = r.item /\ s.flushing = r.flushing /\ s.end = r.end /\ s.ok = r.ok
          /\ s.send = r.send /\ s.done = r.done
      BY <1>1, <1>2 DEF PinState
    <2>2. ExitInv(a, f, s, d, g, p)
      BY <2>1 DEF Possible, PinInv, ExitInv
    <2>3. HandOld(s, g) = 0 /\ HandOld(r, g) = 0 /\ Base(s, g) = Base(r, g) /\ ~Hand(s)
          /\ (Healthy(s, g) => Healthy(r, g))
      BY <2>1 DEF HandOld, Hand, Healthy, Lost, Base
    <2>4. HandOld(s, g) <= HandOld(r, g)
      BY <2>3
    <2> QED BY <2>1, <2>2, <2>3, <2>4, ThreadMoves
  <1>3. CASE ~(r.failed # "no" /\ ~r.flushed)
    <2>1. s = After(r) /\ s \in PinState /\ s.pc \in {"pop", "loop"} /\ s.ok = r.ok /\ s.item = Eos
          /\ s.queue = r.queue /\ s.flushing = r.flushing /\ s.end = r.end
      BY <1>1, <1>3, AfterIsTyped
    <2>2. ExitInv(a, f, s, d, g, p)
      BY <1>1, <2>1, AfterIsTyped DEF Possible, PinInv, ExitInv
    <2>3. HandOld(s, g) = 0 /\ HandOld(r, g) = 0 /\ Base(s, g) = Base(r, g) /\ ~Hand(s)
      BY <2>1 DEF HandOld, Hand, Base
    <2>4. ~g.late /\ g.open /\ Healthy(s, g) => Healthy(r, g)
      <3>1. ~g.late /\ g.open /\ New(g, r.item) => ~r.flushed
        BY DEF Possible, PinInv, RunInv
      <3> QED BY <1>3, <2>1, <3>1 DEF Healthy, Lost
    <2>5. HandOld(s, g) <= HandOld(r, g)
      BY <2>3
    <2> QED BY <2>1, <2>2, <2>3, <2>4, <2>5, ThreadMoves
  <1> QED BY <1>2, <1>3

LEMMA ReportKeeps ==
    ASSUME Constants, NEW p \in Pins, NEW a, NEW f, NEW r, NEW d, NEW g, Possible(a, f, r, d, g, p),
           r.pc = "report", NEW s, s = [After(r) EXCEPT !.ok = FALSE, !.pc = "loop"]
    PROVE  PinInv(a, f, s, d, g, p) /\ s \in PinState
  <1>1. r \in PinState /\ s \in PinState /\ s.pc = "loop" /\ ~s.ok /\ s.item = Eos
        /\ s.queue = r.queue /\ s.flushing = r.flushing /\ s.end = r.end
        /\ s.send = r.send /\ s.done = r.done
    BY AfterIsTyped DEF Possible, PinState
  <1>2. ExitInv(a, f, s, d, g, p)
    BY <1>1 DEF Possible, PinInv, ExitInv
  <1>3. HandOld(s, g) = 0 /\ HandOld(r, g) = 0 /\ ~Healthy(s, g)
    BY <1>1 DEF HandOld, Hand, Healthy
  <1>4. HandOld(s, g) <= HandOld(r, g)
    BY <1>3
  <1> QED BY <1>1, <1>2, <1>3, <1>4, ThreadMoves

(* The queue was empty after all.                                             *)
LEMMA PopNothingKeeps ==
    ASSUME Constants, NEW p \in Pins, NEW a, NEW f, NEW r, NEW d, NEW g, Possible(a, f, r, d, g, p),
           r.pc = "pop", NEW s, s = [r EXCEPT !.pc = "loop"]
    PROVE  PinInv(a, f, s, d, g, p) /\ s \in PinState
  <1>1. r \in PinState /\ s \in PinState /\ s.pc = "loop" /\ s.ok = r.ok /\ s.item = r.item
        /\ s.queue = r.queue /\ s.flushing = r.flushing /\ s.end = r.end
        /\ s.send = r.send /\ s.done = r.done
    BY DEF Possible, PinState
  <1>2. ExitInv(a, f, s, d, g, p)
    BY <1>1 DEF Possible, PinInv, ExitInv
  <1>3. HandOld(s, g) = 0 /\ HandOld(r, g) = 0 /\ Base(s, g) = Base(r, g) /\ ~Hand(s)
        /\ (Healthy(s, g) => Healthy(r, g))
    BY <1>1 DEF HandOld, Hand, Healthy, Lost, Base
  <1>4. HandOld(s, g) <= HandOld(r, g)
    BY <1>3
  <1> QED BY <1>1, <1>2, <1>3, <1>4, ThreadMoves

(* Taking a packet from the queue moves the count of the stale ones and the   *)
(* place of the next one from the queue to the hand.                          *)
LEMMA PopContinues ==
    ASSUME Constants, NEW f, NEW p, NEW r \in PinState, NEW g \in GotState, Continues(f, r, g, p),
           ~Hand(r), r.queue # <<>>, NEW s, s.item = Head(r.queue), s.queue = Tail(r.queue), Hand(s)
    PROVE  /\ Continues(f, s, g, p)
           /\ New(g, s.item) => s.item.nr = Len(g.run) + 1
  <1> DEFINE q == r.queue
             n == Len(g.run)
  <1>1. /\ Len(q) \in Nat \ {0} /\ s.item = q[1] /\ Len(s.queue) = Len(q) - 1
        /\ \A k \in 1 .. Len(s.queue) : s.queue[k] = q[k + 1] /\ k + 1 \in 1 .. Len(q)
    BY QueueFacts
  <1>2. n \in Nat
    BY LenProperties DEF GotState
  <1>3. Base(r, g) = n
    <2>1. Base(r, g) = n + 0
      BY DEF Base
    <2> QED BY <1>2, <2>1
  <1>4. PICK i \in 0 .. Len(q), j \in 0 .. Len(q) : Block(f, r, g, p, i, j)
    BY DEF Continues
  <1>5. i \in Nat /\ j \in Nat
    BY <1>1
  <1>6. CASE i = 0 /\ j > 0
    <2>1. q[1] = [pass |-> g.pass, nr |-> n + 1]
      <3>1. 1 \in 1 .. Len(q) /\ i < 1 /\ 1 <= j /\ n + 1 - i = n + 1
        BY <1>1, <1>2, <1>6
      <3> QED BY <1>3, <1>4, <3>1 DEF Block
    <2>2. New(g, s.item) /\ s.item.nr = n + 1
      BY <1>1, <2>1 DEF New
    <2>3. Base(s, g) = n + 1
      BY <2>2 DEF Base
    <2>4. Block(f, s, g, p, 0, j - 1)
      <3>1. ASSUME NEW k \in 1 .. Len(s.queue)
            PROVE  IF 0 < k /\ k <= j - 1 THEN s.queue[k] = [pass |-> g.pass, nr |-> Base(s, g) + k - 0]
                   ELSE ~New(g, s.queue[k])
        <4>1. s.queue[k] = q[k + 1] /\ k + 1 \in 1 .. Len(q) /\ k \in Nat \ {0}
          BY <1>1
        <4>2. IF i < k + 1 /\ k + 1 <= j THEN q[k + 1] = [pass |-> g.pass, nr |-> Base(r, g) + (k + 1) - i]
              ELSE ~New(g, q[k + 1])
          BY <1>4, <4>1 DEF Block
        <4>3. i < k + 1 /\ (k + 1 <= j <=> k <= j - 1) /\ 0 < k
              /\ Base(r, g) + (k + 1) - i = Base(s, g) + k - 0
          <5>1. i < k + 1 /\ (k + 1 <= j <=> k <= j - 1) /\ 0 < k
            BY <1>5, <1>6, <4>1
          <5>2. \A m, l \in Nat : m + (l + 1) - 0 = (m + 1) + l - 0
            OBVIOUS
          <5>3. n + (k + 1) - 0 = (n + 1) + k - 0
            <6>1. k \in Nat
              BY <4>1
            <6> HIDE DEF n
            <6> QED BY <1>2, <5>2, <6>1
          <5> QED BY <1>3, <1>6, <2>3, <5>1, <5>3
        <4> QED BY <4>1, <4>2, <4>3
      <3>2. Base(s, g) + (j - 1) - 0 = Base(r, g) + j - i /\ 0 <= j - 1
        BY <1>2, <1>3, <1>6, <2>3
      <3>3. Reading(f) => j - 1 = Len(s.queue)
        BY <1>1, <1>4 DEF Block
      <3> QED BY <1>4, <3>1, <3>2, <3>3 DEF Block
    <2>5. 0 \in 0 .. Len(s.queue) /\ j - 1 \in 0 .. Len(s.queue)
      BY <1>1, <1>6
    <2> QED BY <2>2, <2>4, <2>5 DEF Continues
  <1>7. CASE i > 0 \/ j = 0
    <2>1. ~New(g, q[1])
      <3>1. 1 \in 1 .. Len(q) /\ ~(i < 1 /\ 1 <= j)
        BY <1>1, <1>7
      <3> QED BY <1>4, <3>1 DEF Block
    <2>2. Base(s, g) = n /\ ~New(g, s.item)
      <3>1. Base(s, g) = n + 0
        BY <1>1, <2>1 DEF Base
      <3> QED BY <1>1, <1>2, <2>1, <3>1
    <2> DEFINE m == IF i > 0 THEN 1 ELSE 0
    <2>3. m \in {0, 1} /\ i - m \in 0 .. Len(s.queue) /\ j - m \in 0 .. Len(s.queue) /\ i - m <= j - m
      <3>1. i <= j
        BY <1>4 DEF Block
      <3> QED BY <1>1, <1>7, <3>1
    <2>4. ASSUME NEW k \in 1 .. Len(s.queue)
          PROVE  IF i - m < k /\ k <= j - m THEN s.queue[k] = [pass |-> g.pass, nr |-> Base(s, g) + k - (i - m)]
                 ELSE ~New(g, s.queue[k])
      <3>1. s.queue[k] = q[k + 1] /\ k + 1 \in 1 .. Len(q) /\ k \in Nat \ {0}
        BY <1>1
      <3>2. IF i < k + 1 /\ k + 1 <= j THEN q[k + 1] = [pass |-> g.pass, nr |-> Base(r, g) + (k + 1) - i]
            ELSE ~New(g, q[k + 1])
        BY <1>4, <3>1 DEF Block
      <3>3. CASE i > 0
        <4>1. (i < k + 1 <=> i - m < k) /\ (k + 1 <= j <=> k <= j - m)
              /\ Base(r, g) + (k + 1) - i = Base(s, g) + k - (i - m)
          <5>1. m = 1 /\ Base(r, g) = n /\ Base(s, g) = n
            BY <1>3, <2>2, <3>3
          <5>2. \A x, y, z \in Int : x + (y + 1) - z = x + y - (z - 1)
            OBVIOUS
          <5>3. \A y, z \in Int : (z < y + 1 <=> z - 1 < y) /\ (y + 1 <= z <=> y <= z - 1)
            OBVIOUS
          <5>4. n \in Int /\ k \in Int /\ i \in Int /\ j \in Int
            BY <1>2, <1>5, <3>1
          <5> HIDE DEF n, m
          <5> QED BY ONLY <5>1, <5>2, <5>3, <5>4
        <4> QED BY <3>1, <3>2, <4>1
      <3>4. CASE i = 0
        <4>1. j = 0 /\ ~(k + 1 <= j) /\ ~(k <= j - m)
          BY <1>7, <3>1, <3>4
        <4> QED BY <3>1, <3>2, <4>1
      <3> QED BY <3>3, <3>4
    <2>5. Base(s, g) + (j - m) - (i - m) = Base(r, g) + j - i
      BY <1>2, <1>3, <2>2, <2>3
    <2>6. Reading(f) => j - m = Len(s.queue)
      <3>1. Reading(f) => j = Len(q)
        BY <1>4 DEF Block
      <3> QED BY <1>1, <1>7, <3>1
    <2>7. Block(f, s, g, p, i - m, j - m)
      <3> HIDE DEF m
      <3> QED BY <1>4, <2>3, <2>4, <2>5, <2>6 DEF Block
    <2> HIDE DEF m
    <2> QED BY <2>2, <2>3, <2>7 DEF Continues
  <1>8. (i = 0 /\ j > 0) \/ i > 0 \/ j = 0
    OBVIOUS
  <1> QED BY <1>6, <1>7, <1>8

LEMMA PopKeeps ==
    ASSUME Constants, NEW p \in Pins, NEW a, NEW f, NEW r, NEW d, NEW g, Possible(a, f, r, d, g, p),
           r.pc \in {"pop", "loop"}, r.queue # <<>>, NEW s,
           s = [r EXCEPT !.item = Head(r.queue), !.queue = Tail(@), !.more = Len(r.queue) > 1, !.pc = "got"]
    PROVE  PinInv(a, f, s, d, g, p) /\ s \in PinState
  <1> DEFINE q == r.queue
  <1>1. f \in FltState /\ r \in PinState /\ g \in GotState
    BY DEF Possible
  <1>2. /\ s.pc = "got" /\ s.item = q[1] /\ s.item = Head(q) /\ s.queue = Tail(q) /\ s.flushing = r.flushing
        /\ s.end = r.end /\ s.ok = r.ok /\ s.send = r.send /\ s.done = r.done
        /\ s \in PinState
    <2>1. q \in Seq(Item) /\ Head(q) \in Item /\ Tail(q) \in Seq(Item) /\ Head(q) = q[1]
          /\ (Len(q) > 1) \in BOOLEAN
      BY <1>1, QueueFacts
    <2> QED BY <1>1, <2>1 DEF PinState
  <1>3. /\ Len(q) \in Nat \ {0} /\ Len(s.queue) = Len(q) - 1 /\ 1 \in 1 .. Len(q)
        /\ \A k \in 1 .. Len(s.queue) : s.queue[k] = q[k + 1] /\ k + 1 \in 1 .. Len(q)
    BY <1>1, <1>2, QueueFacts
  <1>4. PassInv(f, s, p)
    <2>1. PassInv(f, r, p)
      BY DEF Possible, PinInv
    <2>2. s.item.pass <= f.pass /\ \A k \in 1 .. Len(s.queue) : s.queue[k].pass <= f.pass
      BY <1>2, <1>3, <2>1 DEF PassInv
    <2>3. f.pc \in {"wait", "segment"} =>
            s.item.pass < f.pass /\ \A k \in 1 .. Len(s.queue) : s.queue[k].pass < f.pass
      BY <1>2, <1>3, <2>1 DEF PassInv
    <2>4. /\ Len(s.queue) <= 2 * QueueMax + 1
          /\ f.pc = "add" /\ f.to = p => Len(s.queue) <= 2 * QueueMax
      <3>1. Len(q) <= 2 * QueueMax + 1 /\ (f.pc = "add" /\ f.to = p => Len(q) <= 2 * QueueMax)
        BY <2>1 DEF PassInv
      <3>2. Len(q) \in Nat /\ Len(s.queue) = Len(q) - 1 /\ 2 * QueueMax \in Nat
        BY <1>3 DEF Constants
      <3> HIDE DEF q
      <3> QED BY <3>1, <3>2
    <2> QED BY <2>2, <2>3, <2>4 DEF PassInv
  <1>5. ExitInv(a, f, s, d, g, p) /\ FlushInv(a, s, g, p)
    BY <1>2 DEF Possible, PinInv, ExitInv, FlushInv
  <1>6. ASSUME ~g.late PROVE OpenInv(a, f, s, g, p) /\ StaleInv(a, f, s, g, p) /\ RunInv(f, s, g, p)
    <2>1. OpenInv(a, f, r, g, p) /\ StaleInv(a, f, r, g, p) /\ RunInv(f, r, g, p)
      BY <1>6 DEF Possible, PinInv
    <2>2. OpenInv(a, f, s, g, p)
      BY <1>2, <2>1 DEF OpenInv
    <2>3. StaleInv(a, f, s, g, p)
      <3>1. HandOld(r, g) = 0 /\ HandOld(s, g) = QueueOld(r, g)
        BY <1>2 DEF HandOld, QueueOld, Hand
      <3>2. CASE Skipped(a, f, g, p)
        <4>1. ~Ahead(a, p) /\ a.pc = "flush"
          <5>1. p \in Nat
            BY DEF Pins, Constants
          <5> QED BY <3>2, <5>1 DEF Skipped, Began, Ahead
        <4>2. f.pc # "init" /\ ~(f.pc = "none" /\ a.pc = "idle")
          BY <3>2, <4>1 DEF Possible, FilterInv, CallInv, Skipped
        <4> QED BY <1>2, <2>1, <3>2, <4>1, <4>2 DEF StaleInv
      <3>3. CASE ~Skipped(a, f, g, p)
        <4>1. \A k \in 2 .. Len(q) : ~Old(g, q[k])
          BY <2>1, <3>3 DEF StaleInv
        <4>2. \A k \in 1 .. Len(s.queue) : ~Old(g, s.queue[k])
          BY <1>3, <4>1
        <4>3. QueueOld(s, g) = 0
          <5>1. s.queue # <<>> => 1 \in 1 .. Len(s.queue)
            BY <1>2, QueueFacts
          <5> QED BY <4>2, <5>1 DEF QueueOld
        <4>4. Staleness(f, s, g, p) = Staleness(f, r, g, p)
              /\ QueueOld(s, g) + AddOld(f, g, p) <= QueueOld(r, g) + AddOld(f, g, p)
          BY <1>1, <3>1, <4>3, Counts DEF Staleness
        <4>5. QueueOld(s, g) + AddOld(f, g, p) <= 1
          BY <1>1, <2>1, <3>3, <4>3, Counts DEF StaleInv
        <4>6. \A k \in 2 .. Len(s.queue) : ~Old(g, s.queue[k])
          BY <1>3, <4>2
        <4> QED BY <2>1, <3>3, <4>4, <4>5, <4>6 DEF StaleInv
      <3> QED BY <3>2, <3>3
    <2>4. RunInv(f, s, g, p)
      <3>1. Hand(s) /\ ~Hand(r) /\ (Healthy(s, g) => Healthy(r, g))
        BY <1>2 DEF Hand, Healthy, Lost
      <3>2. g.open /\ Healthy(s, g) => /\ p \in f.active /\ Continues(f, s, g, p)
                                       /\ New(g, s.item) => s.item.nr = Len(g.run) + 1
        <4>1. ASSUME g.open, Healthy(s, g) PROVE p \in f.active /\ Continues(f, r, g, p)
          BY <2>1, <3>1, <4>1 DEF RunInv
        <4>2. ASSUME Continues(f, r, g, p)
              PROVE  Continues(f, s, g, p) /\ (New(g, s.item) => s.item.nr = Len(g.run) + 1)
          <5>1. r \in PinState /\ g \in GotState /\ ~Hand(r) /\ Hand(s)
                /\ s.item = Head(r.queue) /\ s.queue = Tail(r.queue)
            BY <1>1, <1>2, <3>1
          <5> QED BY ONLY Constants, r.queue # <<>>, <4>2, <5>1, PopContinues
        <4> QED BY <4>1, <4>2
      <3> QED BY <1>2, <2>1, <3>2 DEF RunInv
    <2> QED BY <2>2, <2>3, <2>4
  <1> QED BY <1>2, <1>4, <1>5, <1>6 DEF PinInv

LEMMA AcceptKeeps ==
    ASSUME Constants, NEW p \in Pins, NEW a, NEW f, NEW r, NEW d, NEW g, Possible(a, f, r, d, g, p),
           r.pc = "deliver", d = "open", NEW s, s = [r EXCEPT !.pc = "wait", !.failed = "no"], NEW h,
           h = IF g.open /\ r.item = Eos THEN [g EXCEPT !.eos = TRUE]
               ELSE IF g.open /\ r.item.pass = g.pass THEN [g EXCEPT !.run = Append(@, r.item.nr)]
               ELSE [g EXCEPT !.stale = @ + 1]
    PROVE  PinInv(a, f, s, d, h, p) /\ s \in PinState /\ h \in GotState
  <1>1. f \in FltState /\ r \in PinState /\ g \in GotState /\ r.item \in Item /\ g.run \in Seq(Nat)
        /\ g.stale \in Nat /\ Len(g.run) \in Nat
    BY LenProperties DEF Possible, PinState, GotState
  <1>2. /\ s.pc = "wait" /\ s.failed = "no" /\ s.item = r.item /\ s.queue = r.queue /\ s.flushing = r.flushing
        /\ s.flushed = r.flushed /\ s.end = r.end /\ s.ok = r.ok /\ s.send = r.send /\ s.done = r.done
        /\ s \in PinState
    BY <1>1 DEF PinState
  <1>3. r.item.nr \in Nat /\ Append(g.run, r.item.nr) \in Seq(Nat)
        /\ Len(Append(g.run, r.item.nr)) = Len(g.run) + 1
        /\ \A i \in 1 .. Len(g.run) + 1 :
              Append(g.run, r.item.nr)[i] = IF i <= Len(g.run) THEN g.run[i] ELSE r.item.nr
    <2>1. r.item.nr \in Nat
      BY <1>1, ItemFacts
    <2> QED BY <1>1, <2>1, AppendProperties
  <1>4. h \in GotState /\ h.open = g.open /\ h.pass = g.pass /\ h.late = g.late
    <2>1. CASE g.open /\ r.item = Eos
      BY <1>1, <2>1 DEF GotState
    <2>2. CASE ~(g.open /\ r.item = Eos) /\ g.open /\ r.item.pass = g.pass
      <3>1. h = [g EXCEPT !.run = Append(g.run, r.item.nr)]
        BY <2>2
      <3> QED BY <1>1, <1>3, <3>1 DEF GotState
    <2>3. CASE ~(g.open /\ r.item = Eos) /\ ~(g.open /\ r.item.pass = g.pass)
      <3>1. h = [g EXCEPT !.stale = g.stale + 1] /\ g.stale + 1 \in Nat
        BY <1>1, <2>3
      <3> QED BY <1>1, <3>1 DEF GotState
    <2> QED BY <2>1, <2>2, <2>3
  <1>5. PassInv(f, s, p)
    BY <1>2 DEF Possible, PinInv, PassInv
  <1>6. ExitInv(a, f, s, d, h, p)
    BY <1>2, <1>4 DEF Possible, PinInv, ExitInv
  <1>7. FlushInv(a, s, h, p)
    BY <1>2, <1>4 DEF Possible, PinInv, FlushInv
  <1>8. ASSUME ~g.late PROVE OpenInv(a, f, s, h, p) /\ StaleInv(a, f, s, h, p) /\ RunInv(f, s, h, p)
    <2>1. OpenInv(a, f, r, g, p) /\ StaleInv(a, f, r, g, p) /\ RunInv(f, r, g, p)
      BY <1>8 DEF Possible, PinInv
    <2>2. OpenInv(a, f, s, h, p)
      BY <1>2, <1>4, <2>1 DEF OpenInv
    <2>3. \A i : (Old(h, i) <=> Old(g, i)) /\ (New(h, i) <=> New(g, i))
      BY <1>4 DEF Old, New
    <2>4. StaleInv(a, f, s, h, p)
      <3>1. QueueOld(s, h) = QueueOld(r, g) /\ AddOld(f, h, p) = AddOld(f, g, p) /\ HandOld(s, h) = 0
        BY <1>2, <2>3 DEF QueueOld, AddOld, HandOld, Hand
      <3>2. h.stale + HandOld(s, h) = g.stale + HandOld(r, g) /\ h.stale <= g.stale + 1
        <4>1. CASE Old(g, r.item)
          <5>1. h.stale = g.stale + 1
            BY <1>1, <4>1 DEF Old, GotState
          <5>2. HandOld(r, g) = 1
            BY <4>1 DEF HandOld, Hand
          <5> QED BY <1>1, <3>1, <5>1, <5>2
        <4>2. CASE ~Old(g, r.item)
          <5>1. h.stale = g.stale
            BY <1>1, <4>2 DEF Old, GotState
          <5>2. HandOld(r, g) = 0
            BY <4>2 DEF HandOld
          <5> QED BY <1>1, <3>1, <5>1, <5>2
        <4> QED BY <4>1, <4>2
      <3>3. Staleness(f, s, h, p) = Staleness(f, r, g, p)
        BY <1>1, <1>2, <1>4, <3>1, <3>2, Counts DEF Staleness
      <3>4. Skipped(a, f, h, p) <=> Skipped(a, f, g, p)
        BY <1>4 DEF Skipped
      <3>5. Skipped(a, f, g, p) => h.stale + 0 <= 2
        <4>1. h.stale \in Nat
          BY <1>4 DEF GotState
        <4> QED BY <1>1, <2>1, <3>2, <4>1 DEF StaleInv
      <3>6. \A k \in 2 .. Len(r.queue) : Old(h, r.queue[k]) <=> Old(g, r.queue[k])
        BY <2>3
      <3> QED BY <1>2, <1>4, <2>1, <3>1, <3>3, <3>4, <3>5, <3>6 DEF StaleInv
    <2>5. RunInv(f, s, h, p)
      <3>1. ~Hand(s) /\ Hand(r) /\ (New(g, r.item) => ~r.flushed \/ ~g.open) /\ Healthy(s, h) = Healthy(r, g)
        BY <1>2, <2>1 DEF Hand, RunInv, Healthy, Lost
      <3>2. g.open => g.pass > 0 /\ Healthy(r, g) /\ ~New(g, Eos)
        <4>1. g.open => ~Past(a, p) /\ g.pass = f.pass /\ Working(f)
          BY <2>1 DEF OpenInv
        <4>2. Working(f) => f.pass > 0
          BY DEF Possible, FilterInv, CountInv, Starting, Working
        <4>3. Emptied(a, p) => Past(a, p)
          BY DEF Emptied, Past
        <4>4. ~r.ok => Emptied(a, p)
          BY DEF Possible, PinInv, FlushInv
        <4> QED BY <1>1, <4>1, <4>2, <4>3, <4>4, ItemFacts DEF Healthy, Lost, New
      <3>3. CASE g.open /\ New(g, r.item)
        <4>1. r.item # Eos /\ h.run = Append(g.run, r.item.nr) /\ r.item.nr = Len(g.run) + 1
          <5>1. r.item # Eos
            BY <3>2, <3>3
          <5>2. r.item.nr = Len(g.run) + 1
            BY <2>1, <3>1, <3>2, <3>3 DEF RunInv
          <5> QED BY <1>1, <3>3, <5>1, <5>2 DEF New, GotState
        <4>2. \A i \in 1 .. Len(h.run) : h.run[i] = i
          <5>1. \A i \in 1 .. Len(g.run) : g.run[i] = i
            BY <2>1 DEF RunInv
          <5> QED BY <1>1, <1>3, <4>1, <5>1
        <4>3. Base(s, h) = Base(r, g)
          <5>1. Base(s, h) = Len(g.run) + 1 + 0
            BY <1>3, <3>1, <4>1 DEF Base
          <5>2. Base(r, g) = Len(g.run) + 1
            BY <3>1, <3>3 DEF Base
          <5> QED BY <1>1, <5>1, <5>2
        <4>4. Continues(f, s, h, p) /\ p \in f.active
          <5>1. Continues(f, r, g, p) /\ p \in f.active
            BY <2>1, <3>2, <3>3 DEF RunInv
          <5>2. s.queue = r.queue /\ h.pass = g.pass
            BY <1>2, <1>4
          <5> QED BY ONLY <4>3, <5>1, <5>2, ContinuesMoves
        <4> QED BY <1>2, <1>4, <2>3, <3>1, <3>3, <4>2, <4>4 DEF RunInv
      <3>4. CASE ~(g.open /\ New(g, r.item))
        <4>1. h.run = g.run
          BY <1>1, <3>4 DEF New, GotState
        <4>2. g.open => Base(s, h) = Base(r, g)
          BY <3>1, <3>4, <4>1 DEF Base
        <4>3. g.open => Continues(f, s, h, p) /\ p \in f.active
          <5>1. g.open => Continues(f, r, g, p) /\ p \in f.active
            BY <2>1, <3>2 DEF RunInv
          <5>2. s.queue = r.queue /\ h.pass = g.pass
            BY <1>2, <1>4
          <5> QED BY ONLY <4>2, <5>1, <5>2, ContinuesMoves
        <4> QED BY <1>2, <1>4, <2>1, <2>3, <3>1, <3>4, <4>1, <4>3 DEF RunInv
      <3> QED BY <3>3, <3>4
    <2> QED BY <2>2, <2>4, <2>5
  <1> QED BY <1>2, <1>4, <1>5, <1>6, <1>7, <1>8 DEF PinInv

-----------------------------------------------------------------------------
(* The steps of the filter's thread.                                          *)

(* A step outside a segment.                                                  *)
LEMMA ClosedMoves ==
    ASSUME Constants, NEW p \in Pins, NEW a, NEW f, NEW r, NEW d, NEW g, Possible(a, f, r, d, g, p),
           NEW h \in FltState, ~g.late => ~g.open, f.pc # "add", h.pc \notin {"add", "init"},
           h.flushing = f.flushing, h.pc = "none" => a.pc # "idle", Working(h) => p \notin h.active,
           PassInv(h, r, p)
    PROVE  PinInv(a, h, r, d, g, p)
  <1>1. ExitInv(a, h, r, d, g, p) /\ FlushInv(a, r, g, p)
    BY DEF Possible, PinInv, ExitInv
  <1>2. ASSUME ~g.late PROVE OpenInv(a, h, r, g, p) /\ StaleInv(a, h, r, g, p) /\ RunInv(h, r, g, p)
    <2>1. StaleInv(a, f, r, g, p) /\ RunInv(f, r, g, p)
      BY <1>2 DEF Possible, PinInv
    <2>2. OpenInv(a, h, r, g, p)
      BY <1>2 DEF OpenInv
    <2>3. AddOld(h, g, p) = AddOld(f, g, p) /\ (Skipped(a, h, g, p) <=> Skipped(a, f, g, p))
      BY DEF AddOld, Skipped
    <2>4. StaleInv(a, h, r, g, p)
      BY <2>1, <2>3 DEF StaleInv, Staleness
    <2>5. RunInv(h, r, g, p)
      BY <1>2, <2>1 DEF RunInv
    <2> QED BY <2>2, <2>4, <2>5
  <1> QED BY <1>1, <1>2 DEF PinInv

(* Outside the reading of a position no segment is open.                      *)
LEMMA ClosedBefore ==
    ASSUME NEW p, NEW a, NEW f, NEW r, NEW d, NEW g, Possible(a, f, r, d, g, p),
           ~Working(f) \/ Past(a, p), ~g.late
    PROVE  ~g.open
  BY DEF Possible, PinInv, OpenInv

LEMMA StartFilterKeeps ==
    ASSUME Constants, NEW p \in Pins, NEW a, NEW f, NEW r, NEW d, NEW g, Possible(a, f, r, d, g, p),
           f.pc = "init", NEW h, h = [f EXCEPT !.end = TRUE, !.flushing = FALSE, !.pc = "seek"]
    PROVE  PinInv(a, h, r, d, g, p) /\ FilterInv(a, h) /\ h \in FltState
  <1>1. f \in FltState /\ h \in FltState /\ h.end /\ ~h.flushing /\ h.pc = "seek" /\ h.pass = f.pass
        /\ h.done = f.done /\ h.send = f.send /\ h.item = f.item /\ h.read = f.read
    BY DEF Possible, FltState
  <1>2. FilterInv(a, h)
    <2>1. CallInv(a, f) /\ CountInv(a, f) /\ ReadInv(f)
      BY DEF Possible, FilterInv
    <2>2. CallInv(a, h)
      BY <1>1, <2>1 DEF CallInv
    <2>3. CountInv(a, h) /\ ReadInv(h)
      BY <1>1, <2>1 DEF CountInv, ReadInv, Starting, Asked
    <2> QED BY <2>2, <2>3 DEF FilterInv
  <1>3. PassInv(h, r, p)
    BY <1>1 DEF Possible, PinInv, PassInv
  <1>4. ExitInv(a, h, r, d, g, p) /\ FlushInv(a, r, g, p)
    BY <1>1 DEF Possible, PinInv, ExitInv
  <1>5. ASSUME ~g.late PROVE OpenInv(a, h, r, g, p) /\ StaleInv(a, h, r, g, p) /\ RunInv(h, r, g, p)
    <2>1. StaleInv(a, f, r, g, p) /\ RunInv(f, r, g, p) /\ ~g.open
      BY <1>5, ClosedBefore DEF Possible, PinInv, Working
    <2>2. OpenInv(a, h, r, g, p) /\ RunInv(h, r, g, p)
      BY <1>1, <2>1 DEF OpenInv, RunInv, Working
    <2>3. ~Skipped(a, f, g, p)
      BY DEF Skipped, Began, Possible, FilterInv, CallInv
    <2>4. Staleness(h, r, g, p) = Staleness(f, r, g, p) /\ AddOld(h, g, p) = AddOld(f, g, p)
      BY <1>1 DEF Staleness, AddOld
    <2>5. Staleness(f, r, g, p) <= 1 /\ g.stale + 1 <= 2 /\ g.stale + 0 <= 2
      <3>1. Staleness(f, r, g, p) <= 1
        BY <2>1 DEF StaleInv
      <3> QED BY <1>1, <3>1, Counts DEF Staleness, Possible
    <2>6. g.stale + (IF r.pc = "wait" THEN 0 ELSE 1) <= 2
      BY <2>5
    <2> QED BY <2>1, <2>2, <2>3, <2>4, <2>5, <2>6 DEF StaleInv
  <1> QED BY <1>1, <1>2, <1>3, <1>4, <1>5 DEF PinInv

LEMMA DemuxSeekKeeps ==
    ASSUME Constants, NEW p \in Pins, NEW a, NEW f, NEW r, NEW d, NEW g, Possible(a, f, r, d, g, p),
           a \in AppState, f.pc = "seek", NEW h,
           h = [f EXCEPT !.pass = @ + 1, !.read = [q \in Pins |-> 0], !.pc = "wait"]
    PROVE  PinInv(a, h, r, d, g, p) /\ FilterInv(a, h) /\ h \in FltState
  <1>1. f \in FltState /\ f.pass \in Nat /\ a.seeks \in 0 .. MaxSeeks /\ a.stops \in 0 .. MaxStops
    BY DEF Possible, FltState, AppState, Passes
  <1>2. f.pass + 1 + (IF Asked(a, f) THEN 1 ELSE 0) <= a.seeks + a.stops + 1
    BY DEF Possible, FilterInv, CountInv, Starting
  <1>3. f.pass + 1 \in Passes /\ [q \in Pins |-> 0] \in [Pins -> 0 .. Packets]
    BY <1>1, <1>2 DEF Passes, Constants
  <1>4. h \in FltState /\ h.pc = "wait" /\ h.pass = f.pass + 1 /\ h.read = [q \in Pins |-> 0] /\ h.end = f.end
        /\ h.flushing = f.flushing /\ h.done = f.done /\ h.send = f.send /\ h.item = f.item
    BY <1>1, <1>3 DEF FltState
  <1>5. FilterInv(a, h)
    <2>1. CallInv(a, f) /\ ReadInv(f)
      BY DEF Possible, FilterInv
    <2>2. CallInv(a, h)
      BY <1>4, <2>1 DEF CallInv
    <2>3. ReadInv(h)
      BY <1>4, <2>1 DEF ReadInv
    <2>4. CountInv(a, h)
      <3>1. (Asked(a, h) <=> Asked(a, f)) /\ ~Starting(h)
        BY <1>4 DEF Asked, Starting
      <3> QED BY <1>1, <1>2, <1>4, <3>1 DEF CountInv
    <2> QED BY <2>2, <2>3, <2>4 DEF FilterInv
  <1>6. PassInv(h, r, p)
    <2>1. \A n \in Nat : n <= f.pass => n <= h.pass /\ n < h.pass
      BY <1>1, <1>4
    <2>2. r.item.pass \in Nat /\ \A k \in 1 .. Len(r.queue) : r.queue[k].pass \in Nat
      BY QueueFacts, ItemFacts DEF Possible, PinState
    <2> QED BY <1>4, <2>1, <2>2 DEF Possible, PinInv, PassInv
  <1> QED BY <1>4, <1>5, <1>6, ClosedMoves, ClosedBefore DEF Working

LEMMA RepositionKeeps ==
    ASSUME Constants, NEW p \in Pins, NEW a, NEW f, NEW r, NEW d, NEW g, Possible(a, f, r, d, g, p),
           f.pc = "idle", f.send = "seek", NEW h,
           h = [f EXCEPT !.pass = @ + 1, !.read = [q \in Pins |-> 0], !.pc = "wait",
                         !.send = "none", !.done = TRUE]
    PROVE  PinInv(a, h, r, d, g, p) /\ FilterInv(a, h) /\ h \in FltState
  <1>1. f \in FltState /\ f.pass \in Nat /\ a.seeks \in 0 .. MaxSeeks /\ a.stops \in 0 .. MaxStops
    BY DEF Possible, FltState, AppState, Passes
  <1>2. a.pc = "answer" /\ a.op = "seek" /\ ~f.done /\ ~f.end
    BY DEF Possible, FilterInv, CallInv
  <1>3. f.pass + 1 <= a.seeks + a.stops + 1
    <2>1. Asked(a, f) /\ ~Starting(f)
      BY <1>2 DEF Asked, Starting
    <2> QED BY <1>1, <2>1 DEF Possible, FilterInv, CountInv
  <1>4. f.pass + 1 \in Passes /\ [q \in Pins |-> 0] \in [Pins -> 0 .. Packets]
    BY <1>1, <1>3 DEF Passes, Constants
  <1>5. h \in FltState /\ h.pc = "wait" /\ h.pass = f.pass + 1 /\ h.read = [q \in Pins |-> 0] /\ h.end = f.end
        /\ h.flushing = f.flushing /\ h.done /\ h.send = "none" /\ h.item = f.item
    BY <1>1, <1>4 DEF FltState
  <1>6. FilterInv(a, h)
    <2>1. CallInv(a, f) /\ ReadInv(f)
      BY DEF Possible, FilterInv
    <2>2. CallInv(a, h)
      BY <1>2, <1>5, <2>1 DEF CallInv
    <2>3. ReadInv(h)
      BY <1>5, <2>1 DEF ReadInv
    <2>4. CountInv(a, h)
      <3>1. ~Asked(a, h) /\ ~Starting(h)
        BY <1>2, <1>5 DEF Asked, Starting
      <3> QED BY <1>1, <1>3, <1>5, <3>1 DEF CountInv
    <2> QED BY <2>2, <2>3, <2>4 DEF FilterInv
  <1>7. PassInv(h, r, p)
    <2>1. \A n \in Nat : n <= f.pass => n <= h.pass /\ n < h.pass
      BY <1>1, <1>5
    <2>2. r.item.pass \in Nat /\ \A k \in 1 .. Len(r.queue) : r.queue[k].pass \in Nat
      BY QueueFacts, ItemFacts DEF Possible, PinState
    <2> QED BY <1>5, <2>1, <2>2 DEF Possible, PinInv, PassInv
  <1>8. Past(a, p) /\ ~Working(h)
    BY <1>2, <1>5 DEF Past, Working
  <1> QED BY <1>5, <1>6, <1>7, <1>8, ClosedMoves, ClosedBefore

LEMMA ExitFilterKeeps ==
    ASSUME Constants, NEW p \in Pins, NEW a, NEW f, NEW r, NEW d, NEW g, Possible(a, f, r, d, g, p),
           f.pc = "idle", f.send = "exit", NEW h,
           h = [f EXCEPT !.pc = "none", !.send = "none", !.done = TRUE]
    PROVE  PinInv(a, h, r, d, g, p) /\ FilterInv(a, h) /\ h \in FltState
  <1>1. a.pc = "answer" /\ a.op = "exit" /\ ~f.done /\ ~f.end
    BY DEF Possible, FilterInv, CallInv
  <1>2. f \in FltState /\ h \in FltState /\ h.pc = "none" /\ h.pass = f.pass /\ h.end = f.end
        /\ h.flushing = f.flushing /\ h.done /\ h.send = "none" /\ h.item = f.item /\ h.read = f.read
    BY DEF Possible, FltState
  <1>3. FilterInv(a, h)
    <2>1. CallInv(a, f) /\ ReadInv(f) /\ CountInv(a, f)
      BY DEF Possible, FilterInv
    <2>2. CallInv(a, h)
      BY <1>1, <1>2, <2>1 DEF CallInv
    <2>3. ReadInv(h)
      BY <1>2, <2>1 DEF ReadInv
    <2>4. CountInv(a, h)
      <3>1. Asked(a, f) /\ ~Starting(f) /\ ~Asked(a, h) /\ Starting(h)
        BY <1>1, <1>2 DEF Asked, Starting
      <3>2. f.pass \in Nat /\ a.seeks \in Nat /\ a.stops \in Nat
        BY DEF Possible, FltState, AppState, Passes
      <3> QED BY <1>2, <2>1, <3>1, <3>2 DEF CountInv
    <2> QED BY <2>2, <2>3, <2>4 DEF FilterInv
  <1>4. PassInv(h, r, p)
    BY <1>2 DEF Possible, PinInv, PassInv
  <1>5. Past(a, p) /\ ~Working(h)
    BY <1>1, <1>2 DEF Past, Working
  <1> QED BY <1>1, <1>2, <1>3, <1>4, <1>5, ClosedMoves, ClosedBefore

LEMMA WaitForEndKeeps ==
    ASSUME Constants, NEW p \in Pins, NEW a, NEW f, NEW r, NEW d, NEW g, Possible(a, f, r, d, g, p),
           f.pc = "wait", f.end, NEW h,
           h = [f EXCEPT !.end = FALSE, !.active = {}, !.todo = Pins, !.pc = "segment"]
    PROVE  PinInv(a, h, r, d, g, p) /\ FilterInv(a, h) /\ h \in FltState
  <1>1. f \in FltState /\ h \in FltState /\ h.pc = "segment" /\ h.pass = f.pass /\ ~h.end /\ h.active = {}
        /\ h.flushing = f.flushing /\ h.done = f.done /\ h.send = f.send /\ h.item = f.item /\ h.read = f.read
    BY DEF Possible, FltState
  <1>2. FilterInv(a, h)
    <2>1. CallInv(a, f) /\ ReadInv(f) /\ CountInv(a, f)
      BY DEF Possible, FilterInv
    <2>2. CallInv(a, h)
      BY <1>1, <2>1 DEF CallInv
    <2>3. ReadInv(h)
      BY <1>1, <2>1 DEF ReadInv
    <2>4. CountInv(a, h)
      BY <1>1, <2>1 DEF CountInv, Asked, Starting
    <2> QED BY <2>2, <2>3, <2>4 DEF FilterInv
  <1>3. PassInv(h, r, p)
    BY <1>1 DEF Possible, PinInv, PassInv
  <1> QED BY <1>1, <1>2, <1>3, ClosedMoves, ClosedBefore DEF Working

(* Within the reading of a position.                                          *)
LEMMA WorkingCalls ==
    ASSUME NEW a, NEW f, NEW h, FilterInv(a, f), Working(f), Working(h), h.pass = f.pass, h.send = f.send,
           h.done = f.done, h.end = f.end, h.flushing = f.flushing, ReadInv(h)
    PROVE  FilterInv(a, h)
  <1>1. CallInv(a, f) /\ CountInv(a, f)
    BY DEF FilterInv
  <1>2. CallInv(a, h)
    BY <1>1 DEF CallInv, Working
  <1>3. CountInv(a, h)
    <2>1. ~Starting(f) /\ ~Starting(h) /\ (Asked(a, h) <=> Asked(a, f))
      BY DEF Starting, Working, Asked
    <2> QED BY <1>1, <2>1 DEF CountInv
  <1> QED BY <1>2, <1>3 DEF FilterInv

LEMMA WorkingMoves ==
    ASSUME Constants, NEW p \in Pins, NEW a, NEW f, NEW r, NEW d, NEW g, Possible(a, f, r, d, g, p),
           NEW h \in FltState, Working(f), Working(h), f.pc = "add" => f.to # p, h.pc = "add" => h.to # p,
           h.pc = "segment" => f.pc = "segment" /\ h.todo \subseteq f.todo,
           h.pass = f.pass, h.flushing = f.flushing, p \in h.active <=> p \in f.active,
           p \in f.active => Last(h, p) = Last(f, p), Reading(h) => Reading(f)
    PROVE  PinInv(a, h, r, d, g, p)
  <1>1. PassInv(h, r, p)
    BY DEF Possible, PinInv, PassInv, Working
  <1>2. ExitInv(a, h, r, d, g, p) /\ FlushInv(a, r, g, p)
    BY DEF Possible, PinInv, ExitInv, Working
  <1>3. ASSUME ~g.late PROVE OpenInv(a, h, r, g, p) /\ StaleInv(a, h, r, g, p) /\ RunInv(h, r, g, p)
    <2>1. OpenInv(a, f, r, g, p) /\ StaleInv(a, f, r, g, p) /\ RunInv(f, r, g, p)
      BY <1>3 DEF Possible, PinInv
    <2>2. OpenInv(a, h, r, g, p)
      BY <2>1 DEF OpenInv
    <2>3. AddOld(h, g, p) = AddOld(f, g, p) /\ (Skipped(a, h, g, p) <=> Skipped(a, f, g, p))
      BY DEF AddOld, Skipped
    <2>4. StaleInv(a, h, r, g, p)
      BY <2>1, <2>3 DEF StaleInv, Staleness, Working
    <2>5. RunInv(h, r, g, p)
      <3>1. ASSUME p \in f.active, Continues(f, r, g, p) PROVE Continues(h, r, g, p)
        BY <3>1 DEF Continues, Block
      <3> QED BY <2>1, <3>1 DEF RunInv
    <2> QED BY <2>2, <2>4, <2>5
  <1> QED BY <1>1, <1>2, <1>3 DEF PinInv

LEMMA SegmentedKeeps ==
    ASSUME Constants, NEW p \in Pins, NEW a, NEW f, NEW r, NEW d, NEW g, Possible(a, f, r, d, g, p),
           f.pc = "segment", NEW h, h = [f EXCEPT !.pc = "demux"]
    PROVE  PinInv(a, h, r, d, g, p) /\ FilterInv(a, h) /\ h \in FltState
  <1>1. f \in FltState /\ h \in FltState /\ h.pc = "demux" /\ h.pass = f.pass /\ h.active = f.active
        /\ h.flushing = f.flushing /\ h.done = f.done /\ h.send = f.send /\ h.item = f.item /\ h.read = f.read
        /\ h.end = f.end
    BY DEF Possible, FltState
  <1>2. Working(f) /\ Working(h) /\ Last(h, p) = Last(f, p) /\ Reading(f)
    BY <1>1 DEF Working, Last, Given, Reading
  <1>3. ReadInv(h)
    BY <1>1 DEF Possible, FilterInv, ReadInv
  <1>4. FilterInv(a, h)
    BY <1>1, <1>2, <1>3, WorkingCalls DEF Possible
  <1> QED BY <1>1, <1>2, <1>4, WorkingMoves

(* A packet read for another pin changes nothing for this one, and one read   *)
(* for this one is in the hands of the filter's thread.                       *)
LEMMA DemuxKeeps ==
    ASSUME Constants, NEW p \in Pins, NEW a, NEW f, NEW r, NEW d, NEW g, Possible(a, f, r, d, g, p),
           NEW q \in Pins, f.pc = "demux", f.read[q] < Packets, NEW n, n = f.read[q] + 1, NEW h,
           h = IF q \in f.active
               THEN [f EXCEPT !.read[q] = n, !.to = q, !.item = [pass |-> f.pass, nr |-> n], !.pc = "queue"]
               ELSE [f EXCEPT !.read[q] = n]
    PROVE  PinInv(a, h, r, d, g, p) /\ FilterInv(a, h) /\ h \in FltState
  <1>1. f \in FltState /\ f.read \in [Pins -> 0 .. Packets] /\ f.read[q] \in Nat /\ n \in 1 .. Packets
        /\ f.pass \in Passes /\ f.read[p] \in Nat
    BY DEF Possible, FltState, Constants
  <1>2. [f.read EXCEPT ![q] = n] \in [Pins -> 0 .. Packets] /\ [f.read EXCEPT ![q] = n][q] = n
        /\ (p # q => [f.read EXCEPT ![q] = n][p] = f.read[p])
    BY <1>1
  <1>3. [pass |-> f.pass, nr |-> n] \in Item /\ [pass |-> f.pass, nr |-> n] # Eos
    BY <1>1, ItemFacts
  <1>4. f.item = Eos
    BY DEF Possible, FilterInv, ReadInv
  <1>5. CASE q \in f.active
    <2>1. h = [f EXCEPT !.read = [f.read EXCEPT ![q] = n], !.to = q, !.item = [pass |-> f.pass, nr |-> n],
                        !.pc = "queue"]
      BY <1>1, <1>5 DEF FltState
    <2>2. h \in FltState /\ h.pc = "queue" /\ h.to = q /\ h.item = [pass |-> f.pass, nr |-> n]
          /\ h.pass = f.pass /\ h.active = f.active /\ h.flushing = f.flushing /\ h.done = f.done
          /\ h.send = f.send /\ h.read = [f.read EXCEPT ![q] = n] /\ h.end = f.end
      BY <1>1, <1>2, <1>3, <2>1 DEF FltState
    <2>3. ReadInv(h)
      BY <1>2, <1>3, <1>5, <2>2 DEF ReadInv
    <2>4. Working(f) /\ Working(h) /\ Reading(f)
      BY <2>2 DEF Working, Reading
    <2>5. FilterInv(a, h)
      BY <2>2, <2>3, <2>4, WorkingCalls DEF Possible
    <2>6. Last(h, p) = Last(f, p)
      <3>1. Last(f, p) = f.read[p] - 0
        BY DEF Last, Given
      <3>2. CASE p = q
        <4>1. Last(h, p) = n - 1
          BY <1>2, <1>3, <2>2, <3>2 DEF Last, Given
        <4> QED BY <1>1, <3>1, <3>2, <4>1
      <3>3. CASE p # q
        <4>1. Last(h, p) = f.read[p] - 0
          BY <1>2, <2>2, <3>3 DEF Last, Given
        <4> QED BY <3>1, <4>1
      <3> QED BY <3>2, <3>3
    <2> QED BY <2>2, <2>4, <2>5, <2>6, WorkingMoves
  <1>6. CASE q \notin f.active
    <2>1. h = [f EXCEPT !.read = [f.read EXCEPT ![q] = n]]
      BY <1>1, <1>6 DEF FltState
    <2>2. h \in FltState /\ h.pc = "demux" /\ h.item = Eos
          /\ h.pass = f.pass /\ h.active = f.active /\ h.flushing = f.flushing /\ h.done = f.done
          /\ h.send = f.send /\ h.read = [f.read EXCEPT ![q] = n] /\ h.end = f.end
      BY <1>1, <1>2, <1>4, <2>1 DEF FltState
    <2>3. ReadInv(h)
      BY <2>2 DEF ReadInv
    <2>4. Working(f) /\ Working(h) /\ Reading(f)
      BY <2>2 DEF Working, Reading
    <2>5. FilterInv(a, h)
      BY <2>2, <2>3, <2>4, WorkingCalls DEF Possible
    <2>6. p \in f.active => Last(h, p) = Last(f, p)
      BY <1>2, <1>6, <2>2 DEF Last, Given
    <2> QED BY <2>2, <2>4, <2>5, <2>6, WorkingMoves
  <1> QED BY <1>5, <1>6

LEMMA DemuxEndsKeeps ==
    ASSUME Constants, NEW p \in Pins, NEW a, NEW f, NEW r, NEW d, NEW g, Possible(a, f, r, d, g, p),
           f.pc = "demux", NEW h, h = [f EXCEPT !.pc = "eos", !.todo = f.active]
    PROVE  PinInv(a, h, r, d, g, p) /\ FilterInv(a, h) /\ h \in FltState
  <1>1. f \in FltState /\ h \in FltState /\ h.pc = "eos" /\ h.pass = f.pass /\ h.active = f.active
        /\ h.flushing = f.flushing /\ h.done = f.done /\ h.send = f.send /\ h.item = f.item /\ h.read = f.read
        /\ h.end = f.end /\ h.todo = f.active
    BY DEF Possible, FltState
  <1>2. Working(f) /\ Working(h) /\ Last(h, p) = Last(f, p) /\ Reading(f)
    BY <1>1 DEF Working, Last, Given, Reading
  <1>3. ReadInv(h)
    BY <1>1 DEF Possible, FilterInv, ReadInv
  <1>4. FilterInv(a, h)
    BY <1>1, <1>2, <1>3, WorkingCalls DEF Possible
  <1> QED BY <1>1, <1>2, <1>4, WorkingMoves

LEMMA QueueEndOfStreamKeeps ==
    ASSUME Constants, NEW p \in Pins, NEW a, NEW f, NEW r, NEW d, NEW g, Possible(a, f, r, d, g, p),
           NEW q \in Pins, f.pc = "eos", q \in f.todo, NEW h,
           h = [f EXCEPT !.todo = @ \ {q}, !.to = q, !.item = Eos, !.pc = "queue"]
    PROVE  PinInv(a, h, r, d, g, p) /\ FilterInv(a, h) /\ h \in FltState
  <1>1. f \in FltState /\ h \in FltState /\ h.pc = "queue" /\ h.pass = f.pass /\ h.active = f.active
        /\ h.flushing = f.flushing /\ h.done = f.done /\ h.send = f.send /\ h.item = Eos /\ h.read = f.read
        /\ h.end = f.end /\ h.todo = f.todo \ {q} /\ h.to = q
    BY ItemFacts DEF Possible, FltState
  <1>2. f.todo \subseteq f.active /\ f.item = Eos
    BY DEF Possible, FilterInv, ReadInv
  <1>3. Working(f) /\ Working(h) /\ Last(h, p) = Last(f, p) /\ ~Reading(h)
    BY <1>1, <1>2 DEF Working, Last, Given, Reading
  <1>4. ReadInv(h)
    BY <1>1, <1>2 DEF ReadInv
  <1>5. FilterInv(a, h)
    BY <1>1, <1>3, <1>4, WorkingCalls DEF Possible
  <1> QED BY <1>1, <1>3, <1>5, WorkingMoves

LEMMA GetRequestKeeps ==
    ASSUME Constants, NEW p \in Pins, NEW a, NEW f, NEW r, NEW d, NEW g, Possible(a, f, r, d, g, p),
           f.pc = "eos", NEW h, h = [f EXCEPT !.pc = "idle"]
    PROVE  PinInv(a, h, r, d, g, p) /\ FilterInv(a, h) /\ h \in FltState
  <1>1. f \in FltState /\ h \in FltState /\ h.pc = "idle" /\ h.pass = f.pass /\ h.active = f.active
        /\ h.flushing = f.flushing /\ h.done = f.done /\ h.send = f.send /\ h.item = f.item /\ h.read = f.read
        /\ h.end = f.end
    BY DEF Possible, FltState
  <1>2. Working(f) /\ Working(h) /\ Last(h, p) = Last(f, p) /\ ~Reading(h)
    BY <1>1 DEF Working, Last, Given, Reading
  <1>3. ReadInv(h)
    BY <1>1 DEF Possible, FilterInv, ReadInv
  <1>4. FilterInv(a, h)
    BY <1>1, <1>2, <1>3, WorkingCalls DEF Possible
  <1> QED BY <1>1, <1>2, <1>4, WorkingMoves

(* A new segment of another pin, or of one that is flushing.                  *)
LEMMA NewSegmentOthers ==
    ASSUME Constants, NEW p \in Pins, NEW a, NEW f, NEW r, NEW d, NEW g, Possible(a, f, r, d, g, p),
           NEW q \in Pins, f.pc = "segment", ~f.flushing, q \in f.todo, q # p \/ r.flushing, NEW h,
           h = [f EXCEPT !.active = @ \cup {q}, !.todo = @ \ {q}]
    PROVE  PinInv(a, h, r, d, g, p) /\ FilterInv(a, h) /\ h \in FltState
  <1>1. f \in FltState /\ FilterInv(a, f)
    BY DEF Possible
  <1>2. /\ h \in FltState /\ h.pc = "segment" /\ h.pass = f.pass /\ h.active = f.active \cup {q}
        /\ h.flushing = f.flushing /\ h.read = f.read /\ h.todo = f.todo \ {q}
        /\ Working(f) /\ Working(h) /\ Last(h, p) = Last(f, p) /\ Reading(f) /\ FilterInv(a, h)
    <2>1. /\ h \in FltState /\ h.pc = "segment" /\ h.pass = f.pass /\ h.active = f.active \cup {q}
          /\ h.flushing = f.flushing /\ h.done = f.done /\ h.send = f.send /\ h.item = f.item /\ h.read = f.read
          /\ h.end = f.end /\ h.todo = f.todo \ {q} /\ h.to = f.to
      BY <1>1 DEF FltState
    <2>2. Working(f) /\ Working(h) /\ Last(h, p) = Last(f, p) /\ Reading(f)
      BY <2>1 DEF Working, Last, Given, Reading
    <2>3. ReadInv(h)
      BY <1>1, <2>1 DEF FilterInv, ReadInv
    <2> QED BY <1>1, <2>1, <2>2, <2>3, WorkingCalls
  <1>3. CASE q # p
    BY <1>2, <1>3, WorkingMoves
  <1>4. PassInv(h, r, p)
    BY <1>2 DEF Possible, PinInv, PassInv
  <1>5. CASE q = p /\ r.flushing
    <2>1. ExitInv(a, h, r, d, g, p) /\ FlushInv(a, r, g, p)
      BY <1>2 DEF Possible, PinInv, ExitInv
    <2>2. ASSUME ~g.late PROVE OpenInv(a, h, r, g, p) /\ StaleInv(a, h, r, g, p) /\ RunInv(h, r, g, p)
      <3>1. OpenInv(a, f, r, g, p) /\ StaleInv(a, f, r, g, p) /\ RunInv(f, r, g, p)
        BY <2>2 DEF Possible, PinInv
      <3>2. OpenInv(a, h, r, g, p)
        BY <1>2, <1>5, <3>1 DEF OpenInv, Working
      <3>3. AddOld(h, g, p) = AddOld(f, g, p) /\ (Skipped(a, h, g, p) <=> Skipped(a, f, g, p))
        BY <1>2 DEF AddOld, Skipped
      <3>4. StaleInv(a, h, r, g, p)
        BY <1>2, <3>1, <3>3 DEF StaleInv, Staleness
      <3>5. RunInv(h, r, g, p)
        <4>1. ASSUME Continues(f, r, g, p) PROVE Continues(h, r, g, p)
          BY <1>2, <4>1 DEF Continues, Block
        <4> QED BY <1>2, <3>1, <4>1 DEF RunInv
      <3> QED BY <3>2, <3>4, <3>5
    <2> QED BY <1>2, <1>4, <2>1, <2>2 DEF PinInv
  <1> QED BY <1>3, <1>5

LEMMA NewSegmentKeeps ==
    ASSUME Constants, NEW p \in Pins, NEW a, NEW f, NEW r, NEW d, NEW g, Possible(a, f, r, d, g, p),
           f.pc = "segment", ~f.flushing, p \in f.todo, NEW h,
           h = [f EXCEPT !.active = @ \cup {p}, !.todo = @ \ {p}],
           ~r.flushing, NEW e, e = [g EXCEPT !.pass = f.pass, !.run = <<>>, !.eos = FALSE, !.open = TRUE]
    PROVE  PinInv(a, h, r, d, e, p) /\ FilterInv(a, h) /\ h \in FltState /\ e \in GotState
  <1>1. f \in FltState /\ FilterInv(a, f) /\ r \in PinState /\ g \in GotState
    BY DEF Possible
  <1>2. /\ h \in FltState /\ h.pc = "segment" /\ h.pass = f.pass /\ h.active = f.active \cup {p}
        /\ h.flushing = f.flushing /\ h.read = f.read /\ h.todo = f.todo \ {p}
        /\ Working(f) /\ Working(h) /\ Last(h, p) = Last(f, p) /\ Reading(f) /\ FilterInv(a, h)
    <2>1. /\ h \in FltState /\ h.pc = "segment" /\ h.pass = f.pass /\ h.active = f.active \cup {p}
          /\ h.flushing = f.flushing /\ h.done = f.done /\ h.send = f.send /\ h.item = f.item /\ h.read = f.read
          /\ h.end = f.end /\ h.todo = f.todo \ {p} /\ h.to = f.to
      BY <1>1 DEF FltState
    <2>2. Working(f) /\ Working(h) /\ Last(h, p) = Last(f, p) /\ Reading(f)
      BY <2>1 DEF Working, Last, Given, Reading
    <2>3. ReadInv(h)
      BY <1>1, <2>1 DEF FilterInv, ReadInv
    <2> QED BY <1>1, <2>1, <2>2, <2>3, WorkingCalls
  <1>3. PassInv(h, r, p)
    BY <1>2 DEF Possible, PinInv, PassInv
  <1>4. /\ e \in GotState /\ e.pass = f.pass /\ e.run = <<>> /\ e.open /\ e.stale = g.stale /\ e.late = g.late
    <2>1. <<>> \in Seq(Nat) /\ f.pass \in Passes
      BY <1>1 DEF FltState
    <2> QED BY <1>1, <2>1 DEF GotState
  <1>5. ExitInv(a, h, r, d, e, p) /\ FlushInv(a, r, e, p)
    BY <1>2, <1>4 DEF Possible, PinInv, ExitInv, FlushInv
  <1>6. ASSUME ~g.late PROVE OpenInv(a, h, r, e, p) /\ StaleInv(a, h, r, e, p) /\ RunInv(h, r, e, p)
    <2>1. OpenInv(a, f, r, g, p) /\ StaleInv(a, f, r, g, p)
      BY <1>6 DEF Possible, PinInv
    <2>2. ~Flushing(a, p)
      BY <1>6 DEF Possible, PinInv, FlushInv
    <2>3. ~Past(a, p)
      <3>1. a.pc \notin {"reopen", "release", "end", "exit", "exited"}
        BY DEF Possible, FilterInv, CallInv
      <3> QED BY <2>2, <3>1 DEF Past, Flushing, Emptied
    <2>4. ~g.open /\ ~Skipped(a, f, g, p)
      BY <2>1, <2>2 DEF OpenInv, Skipped, Flushing
    <2>5. OpenInv(a, h, r, e, p)
      BY <1>2, <1>4, <2>3 DEF OpenInv
    <2>6. ~New(e, r.item) /\ \A k \in 1 .. Len(r.queue) : ~New(e, r.queue[k])
      <3>1. r.item.pass < f.pass /\ \A k \in 1 .. Len(r.queue) : r.queue[k].pass < f.pass
        BY DEF Possible, PinInv, PassInv
      <3>2. \A n \in Nat : n < f.pass => n # e.pass
        BY <1>1, <1>4 DEF FltState, Passes
      <3>3. r.item.pass \in Nat /\ \A k \in 1 .. Len(r.queue) : r.queue[k].pass \in Nat
        BY <1>1, QueueFacts, ItemFacts DEF PinState
      <3> QED BY <3>1, <3>2, <3>3 DEF New
    <2>7. StaleInv(a, h, r, e, p)
      <3>1. HandOld(r, e) <= HandOld(r, g) /\ QueueOld(r, e) <= QueueOld(r, g) /\ AddOld(h, e, p) = 0
            /\ AddOld(f, g, p) = 0
        <4>1. \A i : Old(g, i)
          BY <2>4 DEF Old
        <4>2. HandOld(r, g) = 1 \/ HandOld(r, e) = 0
          BY <4>1 DEF HandOld
        <4>3. QueueOld(r, g) = 1 \/ QueueOld(r, e) = 0
          BY <4>1 DEF QueueOld
        <4>4. AddOld(h, e, p) = 0 /\ AddOld(f, g, p) = 0
          BY <1>2 DEF AddOld
        <4> QED BY <1>1, <1>2, <1>4, <4>2, <4>3, <4>4, Counts
      <3>2. Staleness(h, r, e, p) <= 2
        <4>1. Staleness(f, r, g, p) <= 2
          BY <2>1, <2>4 DEF StaleInv
        <4> QED BY <1>1, <1>2, <1>4, <3>1, <4>1, Counts DEF Staleness
      <3>3. QueueOld(r, e) + AddOld(h, e, p) <= 1
        BY <1>1, <1>2, <1>4, <3>1, Counts
      <3>4. \A k \in 2 .. Len(r.queue) : ~Old(e, r.queue[k])
        BY <2>1, <2>4 DEF StaleInv, Old
      <3>5. ~Skipped(a, h, e, p) /\ h.pc = "segment"
        BY <1>2, <1>4 DEF Skipped
      <3> QED BY <1>4, <3>2, <3>3, <3>4, <3>5 DEF StaleInv
    <2>8. RunInv(h, r, e, p)
      <3>1. Len(e.run) = 0 /\ Base(r, e) = 0
        BY <1>4, <2>6 DEF Base
      <3>2. Last(h, p) = 0
        <4>1. h.read[p] = 0
          BY <1>2 DEF Possible, FilterInv, ReadInv
        <4> QED BY <1>2, <4>1 DEF Last, Given
      <3>3. Len(r.queue) \in Nat
        BY <1>1, QueueFacts
      <3>4. Block(h, r, e, p, Len(r.queue), Len(r.queue))
        BY <2>6, <3>1, <3>2, <3>3 DEF Block
      <3>5. Continues(h, r, e, p)
        BY <3>3, <3>4 DEF Continues
      <3>6. \A i \in 1 .. Len(e.run) : e.run[i] = i
        BY <3>1
      <3> QED BY <1>2, <2>6, <3>5, <3>6 DEF RunInv
    <2> QED BY <2>5, <2>7, <2>8
  <1> QED BY <1>2, <1>3, <1>4, <1>5, <1>6 DEF PinInv

(* What Queued returns.                                                       *)
Leaves(f, refused) ==
    [f EXCEPT !.active = IF refused /\ f.item # Eos THEN @ \ {f.to} ELSE @,
              !.pc = IF f.item = Eos THEN "eos" ELSE "demux", !.to = 1, !.item = Eos]

LEMMA LeavesIsTyped ==
    ASSUME Constants, NEW a, NEW f \in FltState, FilterInv(a, f), f.pc \in {"queue", "add"},
           NEW refused \in BOOLEAN, NEW h, h = Leaves(f, refused)
    PROVE  /\ h \in FltState /\ FilterInv(a, h)
           /\ h.pc \in {"eos", "demux"} /\ h.pass = f.pass /\ h.flushing = f.flushing
           /\ h.active \subseteq f.active /\ \A q \in f.active : q \in h.active \/ (q = f.to /\ refused)
           /\ h.read = f.read /\ h.item = Eos
           /\ Working(f) /\ Working(h) /\ (Reading(h) => Reading(f))
  <1>1. Eos \in Item /\ 1 \in Pins
    BY ItemFacts DEF Constants, Pins
  <1>2. /\ h \in FltState /\ h.done = f.done /\ h.send = f.send /\ h.end = f.end /\ h.todo = f.todo
        /\ h.pc = (IF f.item = Eos THEN "eos" ELSE "demux") /\ h.pass = f.pass /\ h.flushing = f.flushing
        /\ h.active = (IF refused /\ f.item # Eos THEN f.active \ {f.to} ELSE f.active)
        /\ h.read = f.read /\ h.item = Eos
    BY <1>1 DEF FltState, Leaves
  <1>3. ReadInv(f)
    BY DEF FilterInv
  <1>4. ReadInv(h)
    BY <1>2, <1>3 DEF ReadInv
  <1>5. Working(f) /\ Working(h) /\ (Reading(h) => Reading(f))
    BY <1>2 DEF Working, Reading
  <1>6. FilterInv(a, h)
    BY <1>2, <1>4, <1>5, WorkingCalls
  <1>7. h.pc \in {"eos", "demux"}
    BY <1>2
  <1>8. h.active \subseteq f.active /\ \A q \in f.active : q \in h.active \/ (q = f.to /\ refused)
    BY <1>2
  <1> QED BY <1>2, <1>5, <1>6, <1>7, <1>8

(* A step of the filter's thread with a packet for another pin.               *)
LEMMA LeavesOthers ==
    ASSUME Constants, NEW p \in Pins, NEW a, NEW f, NEW r, NEW d, NEW g, Possible(a, f, r, d, g, p),
           f.pc \in {"queue", "add"}, p # f.to, NEW refused \in BOOLEAN, NEW h, h = Leaves(f, refused)
    PROVE  PinInv(a, h, r, d, g, p) /\ FilterInv(a, h) /\ h \in FltState
  <1>1. f \in FltState /\ FilterInv(a, f) /\ f.read \in [Pins -> 0 .. Packets]
    BY DEF Possible, FltState
  <1>2. /\ h \in FltState /\ FilterInv(a, h) /\ Working(f) /\ Working(h) /\ (Reading(h) => Reading(f))
        /\ h.pass = f.pass /\ h.flushing = f.flushing /\ h.pc \in {"eos", "demux"} /\ h.item = Eos
        /\ h.read = f.read /\ (p \in h.active <=> p \in f.active)
    <2>1. /\ h \in FltState /\ FilterInv(a, h) /\ Working(f) /\ Working(h) /\ (Reading(h) => Reading(f))
          /\ h.pass = f.pass /\ h.flushing = f.flushing /\ h.pc \in {"eos", "demux"} /\ h.item = Eos
          /\ h.read = f.read
          /\ h.active \subseteq f.active /\ \A q \in f.active : q \in h.active \/ (q = f.to /\ refused)
      BY <1>1, LeavesIsTyped
    <2> QED BY <2>1
  <1>3. Last(h, p) = Last(f, p)
    BY <1>2 DEF Last, Given
  <1> QED BY <1>2, <1>3, WorkingMoves

LEMMA QueuePacketOthers ==
    ASSUME Constants, NEW p \in Pins, NEW a, NEW f, NEW r, NEW d, NEW g, Possible(a, f, r, d, g, p),
           f.pc = "queue", p # f.to, NEW ok \in BOOLEAN, NEW h,
           h = IF ok THEN [f EXCEPT !.pc = "add"] ELSE Leaves(f, TRUE)
    PROVE  PinInv(a, h, r, d, g, p) /\ FilterInv(a, h) /\ h \in FltState
  <1>1. f \in FltState /\ FilterInv(a, f) /\ ReadInv(f)
    BY DEF Possible, FilterInv
  <1>2. CASE ok
    <2>1. h \in FltState /\ h.pc = "add" /\ h.pass = f.pass /\ h.active = f.active
          /\ h.flushing = f.flushing /\ h.done = f.done /\ h.send = f.send /\ h.item = f.item /\ h.read = f.read
          /\ h.end = f.end /\ h.todo = f.todo /\ h.to = f.to
      BY <1>1, <1>2 DEF FltState
    <2>2. Working(f) /\ Working(h) /\ Last(h, p) = Last(f, p) /\ (Reading(h) => Reading(f))
      BY <2>1 DEF Working, Last, Given, Reading
    <2>3. ReadInv(h)
      BY <1>1, <2>1 DEF ReadInv
    <2>4. FilterInv(a, h)
      BY <1>1, <2>1, <2>2, <2>3, WorkingCalls
    <2> QED BY <2>1, <2>2, <2>4, WorkingMoves
  <1>3. CASE ~ok
    BY <1>3, LeavesOthers
  <1> QED BY <1>2, <1>3

(* What QueuePacket makes of the filter and of what arrived at its pin p.     *)
OffersPacket(f, r, g, p, h, e) ==
    /\ f.pc = "queue" /\ p = f.to
    /\ ~r.ok \/ Len(r.queue) <= 2 * QueueMax
    /\ h = IF r.ok THEN [f EXCEPT !.pc = "add"] ELSE Leaves(f, TRUE)
    /\ e = [g EXCEPT !.late = @ \/ (r.pc = "init" /\ ~r.ok)]

LEMMA QueuePacketKeeps ==
    ASSUME Constants, NEW p \in Pins, NEW a, NEW f, NEW r, NEW d, NEW g, Possible(a, f, r, d, g, p),
           NEW h, NEW e, OffersPacket(f, r, g, p, h, e)
    PROVE  PinInv(a, h, r, d, e, p) /\ FilterInv(a, h) /\ h \in FltState /\ e \in GotState
  <1>0. /\ f.pc = "queue" /\ p = f.to
        /\ ~r.ok \/ Len(r.queue) <= 2 * QueueMax
        /\ h = IF r.ok THEN [f EXCEPT !.pc = "add"] ELSE Leaves(f, TRUE)
        /\ e = [g EXCEPT !.late = @ \/ (r.pc = "init" /\ ~r.ok)]
    BY DEF OffersPacket
  <1> USE <1>0
  <1>1. f \in FltState /\ r \in PinState /\ g \in GotState /\ FilterInv(a, f) /\ ReadInv(f) /\ CallInv(a, f)
    BY DEF Possible, FilterInv
  <1>2. e \in GotState /\ e.late = (g.late \/ (r.pc = "init" /\ ~r.ok)) /\ e.stale = g.stale
    BY <1>1 DEF GotState
  <1>3. CASE r.ok
    <2>1. e = g
      BY <1>1, <1>3 DEF GotState
    <2>2. h \in FltState /\ h.pc = "add" /\ h.pass = f.pass /\ h.active = f.active
          /\ h.flushing = f.flushing /\ h.done = f.done /\ h.send = f.send /\ h.item = f.item /\ h.read = f.read
          /\ h.end = f.end /\ h.todo = f.todo /\ h.to = f.to
      BY <1>1, <1>3 DEF FltState
    <2>3. Working(f) /\ Working(h) /\ Last(h, p) = Last(f, p) /\ (Reading(h) => Reading(f))
      BY <2>2 DEF Working, Last, Given, Reading
    <2>4. ReadInv(h)
      BY <1>1, <2>2 DEF ReadInv
    <2>5. FilterInv(a, h)
      BY <1>1, <2>2, <2>3, <2>4, WorkingCalls
    <2>6. PassInv(h, r, p)
      BY <1>3, <2>2 DEF Possible, PinInv, PassInv
    <2>7. ExitInv(a, h, r, d, g, p) /\ FlushInv(a, r, g, p)
      BY <2>2 DEF Possible, PinInv, ExitInv
    <2>8. ASSUME ~g.late PROVE OpenInv(a, h, r, g, p) /\ StaleInv(a, h, r, g, p) /\ RunInv(h, r, g, p)
      <3>1. OpenInv(a, f, r, g, p) /\ StaleInv(a, f, r, g, p) /\ RunInv(f, r, g, p)
        BY <2>8 DEF Possible, PinInv
      <3>2. OpenInv(a, h, r, g, p)
        BY <1>3, <2>2, <2>3, <3>1 DEF OpenInv
      <3>3. Skipped(a, h, g, p) <=> Skipped(a, f, g, p)
        BY <2>2 DEF Skipped
      <3>4. ~g.open => Skipped(a, f, g, p) /\ ~Ahead(a, p)
        <4>1. ASSUME ~g.open PROVE r.flushing /\ ~(Began(a, p) /\ f.flushing)
          BY <1>1, <2>3, <3>1, <4>1 DEF OpenInv, ReadInv
        <4>2. r.flushing => Began(a, p) \/ Emptied(a, p) \/ Reopened(a, p)
          BY DEF Possible, PinInv, FlushInv, Flushing
        <4>3. ~Emptied(a, p)
          BY <1>3, <2>8 DEF Possible, PinInv, FlushInv
        <4>4. ~Reopened(a, p)
          BY <1>1 DEF Reopened, CallInv
        <4>5. Began(a, p) => ~Ahead(a, p)
          BY DEF Began, Ahead, Pins, Constants
        <4> QED BY <4>1, <4>2, <4>3, <4>4, <4>5 DEF Skipped
      <3>5. g.open => AddOld(h, g, p) = 0
        <4>1. g.open /\ f.item # Eos => f.item.pass = g.pass
          BY <1>1, <3>1 DEF OpenInv, ReadInv
        <4> QED BY <2>2, <4>1 DEF AddOld, Old
      <3>6. AddOld(f, g, p) = 0
        BY DEF AddOld
      <3>7. StaleInv(a, h, r, g, p)
        BY <2>2, <3>1, <3>3, <3>4, <3>5, <3>6 DEF StaleInv, Staleness
      <3>8. RunInv(h, r, g, p)
        <4>1. ASSUME Continues(f, r, g, p) PROVE Continues(h, r, g, p)
          BY <2>3, <4>1 DEF Continues, Block
        <4> QED BY <2>2, <3>1, <4>1 DEF RunInv
      <3> QED BY <3>2, <3>7, <3>8
    <2> QED BY <1>2, <2>1, <2>2, <2>5, <2>6, <2>7, <2>8 DEF PinInv
  <1>4. CASE ~r.ok
    <2>1. /\ h \in FltState /\ FilterInv(a, h) /\ h.pc \in {"eos", "demux"} /\ h.pass = f.pass
          /\ h.flushing = f.flushing /\ h.active \subseteq f.active /\ Working(f) /\ Working(h)
      <3>1. ASSUME NEW b \in BOOLEAN, h = Leaves(f, b)
            PROVE  /\ h \in FltState /\ FilterInv(a, h) /\ h.pc \in {"eos", "demux"} /\ h.pass = f.pass
                   /\ h.flushing = f.flushing /\ h.active \subseteq f.active /\ Working(f) /\ Working(h)
        <4>1. f.pc \in {"queue", "add"}
          OBVIOUS
        <4> QED BY ONLY Constants, <1>1, <3>1, <4>1, LeavesIsTyped
      <3>2. h = Leaves(f, TRUE)
        BY <1>4
      <3> QED BY <3>1, <3>2, Zenon
    <2>2. PassInv(h, r, p)
      BY <2>1 DEF Possible, PinInv, PassInv
    <2>3. ExitInv(a, h, r, d, e, p) /\ FlushInv(a, r, e, p)
      BY <1>2, <2>1 DEF Possible, PinInv, ExitInv, FlushInv
    <2>4. ASSUME ~e.late PROVE OpenInv(a, h, r, e, p) /\ StaleInv(a, h, r, e, p) /\ RunInv(h, r, e, p)
      <3>1. e = g /\ ~g.late /\ r.pc # "init"
        BY <1>1, <1>2, <1>4, <2>4 DEF GotState
      <3>2. OpenInv(a, f, r, g, p) /\ StaleInv(a, f, r, g, p) /\ RunInv(f, r, g, p)
        BY <3>1 DEF Possible, PinInv
      <3>3. OpenInv(a, h, r, g, p)
        BY <2>1, <3>2 DEF OpenInv
      <3>4. AddOld(h, g, p) = AddOld(f, g, p) /\ (Skipped(a, h, g, p) <=> Skipped(a, f, g, p))
        BY <2>1 DEF AddOld, Skipped
      <3>5. StaleInv(a, h, r, g, p)
        BY <2>1, <3>2, <3>4 DEF StaleInv, Staleness
      <3>6. RunInv(h, r, g, p)
        BY <1>4, <3>1, <3>2 DEF RunInv, Healthy
      <3> QED BY <3>1, <3>3, <3>5, <3>6
    <2> QED BY <1>2, <2>1, <2>2, <2>3, <2>4 DEF PinInv
  <1> QED BY <1>3, <1>4

LEMMA AddKeeps ==
    ASSUME Constants, NEW p \in Pins, NEW a, NEW f, NEW r, NEW d, NEW g, Possible(a, f, r, d, g, p),
           f.pc = "add", p = f.to, NEW h, h = Leaves(f, ~r.ok), NEW s,
           s = [r EXCEPT !.queue = Append(@, f.item)]
    PROVE  PinInv(a, h, s, d, g, p) /\ s \in PinState /\ FilterInv(a, h) /\ h \in FltState
  <1> DEFINE q == r.queue
             n == Len(r.queue)
  <1>1. f \in FltState /\ r \in PinState /\ g \in GotState /\ FilterInv(a, f) /\ ReadInv(f) /\ f.item \in Item
        /\ (f.item # Eos => f.item = [pass |-> f.pass, nr |-> f.read[p]]) /\ f.read[p] \in Nat /\ f.pass \in Nat
    BY DEF Possible, FilterInv, ReadInv, FltState, Constants, Passes
  <1>2. /\ h \in FltState /\ FilterInv(a, h) /\ h.pc \in {"eos", "demux"} /\ h.pass = f.pass
        /\ h.flushing = f.flushing /\ h.active \subseteq f.active /\ (r.ok => h.active = f.active)
        /\ h.read = f.read /\ h.item = Eos /\ Working(f) /\ Working(h) /\ (Reading(h) => Reading(f))
        /\ (f.item = Eos => ~Reading(h))
    <2>1. ASSUME NEW b \in BOOLEAN, h = Leaves(f, b), b = ~r.ok
          PROVE  /\ h \in FltState /\ FilterInv(a, h) /\ h.pc \in {"eos", "demux"} /\ h.pass = f.pass
                 /\ h.flushing = f.flushing /\ h.active \subseteq f.active /\ (r.ok => h.active = f.active)
                 /\ h.read = f.read /\ h.item = Eos /\ Working(f) /\ Working(h) /\ (Reading(h) => Reading(f))
      <3>1. f.pc \in {"queue", "add"}
        OBVIOUS
      <3>2. /\ h \in FltState /\ FilterInv(a, h) /\ h.pc \in {"eos", "demux"} /\ h.pass = f.pass
            /\ h.flushing = f.flushing /\ h.active \subseteq f.active
            /\ \A q1 \in f.active : q1 \in h.active \/ (q1 = f.to /\ b)
            /\ h.read = f.read /\ h.item = Eos /\ Working(f) /\ Working(h) /\ (Reading(h) => Reading(f))
        <4>1. f \in FltState /\ FilterInv(a, f)
          BY <1>1
        <4>2. h = Leaves(f, b)
          BY <2>1
        <4> QED BY ONLY Constants, <3>1, <4>1, <4>2, LeavesIsTyped
      <3> QED BY <2>1, <3>2
    <2>2. f.item = Eos => ~Reading(h)
      <3>1. f.item = Eos => h.pc = "eos"
        BY <1>1 DEF Leaves, FltState
      <3> QED BY <3>1 DEF Reading
    <2> QED BY <2>1, <2>2, Zenon
  <1>3. /\ s \in PinState /\ s.queue = Append(q, f.item) /\ s.pc = r.pc /\ s.item = r.item
        /\ s.flushing = r.flushing /\ s.flushed = r.flushed /\ s.end = r.end /\ s.ok = r.ok
        /\ s.send = r.send /\ s.done = r.done /\ s.failed = r.failed
    <2>1. Append(q, f.item) \in Seq(Item)
      BY <1>1, QueueFacts, AppendProperties
    <2>2. s = [r EXCEPT !.queue = Append(q, f.item)]
      OBVIOUS
    <2> QED BY <1>1, <2>1, <2>2 DEF PinState
  <1>4. n \in Nat /\ Len(s.queue) = n + 1 /\ s.queue[n + 1] = f.item /\ \A k \in 1 .. n : s.queue[k] = q[k]
    <2>1. q \in Seq(Item)
      BY <1>1, QueueFacts
    <2> QED BY <1>1, <1>3, <2>1, AppendProperties, LenProperties
  <1>5. PassInv(h, s, p)
    <2>1. PassInv(f, r, p)
      BY DEF Possible, PinInv
    <2>2. f.item.pass <= f.pass
      BY <1>1, ItemFacts
    <2>3. ASSUME NEW k \in 1 .. n + 1 PROVE s.queue[k].pass <= f.pass
      <3>1. k \in 1 .. n \/ k = n + 1
        BY <1>4
      <3> QED BY <1>4, <2>1, <2>2, <3>1 DEF PassInv
    <2>4. Len(s.queue) <= 2 * QueueMax + 1
      BY <1>4, <2>1 DEF PassInv, Constants
    <2> QED BY <1>2, <1>3, <1>4, <2>1, <2>3, <2>4 DEF PassInv
  <1>6. ExitInv(a, h, s, d, g, p) /\ FlushInv(a, s, g, p)
    BY <1>2, <1>3 DEF Possible, PinInv, ExitInv, FlushInv
  <1>7. ASSUME ~g.late PROVE OpenInv(a, h, s, g, p) /\ StaleInv(a, h, s, g, p) /\ RunInv(h, s, g, p)
    <2>1. OpenInv(a, f, r, g, p) /\ StaleInv(a, f, r, g, p) /\ RunInv(f, r, g, p)
      BY <1>7 DEF Possible, PinInv
    <2>2. OpenInv(a, h, s, g, p)
      BY <1>2, <1>3, <2>1 DEF OpenInv
    <2>3. g.open => ~Old(g, f.item)
      BY <1>1, <2>1 DEF Old, OpenInv
    <2>4. Skipped(a, h, g, p) <=> Skipped(a, f, g, p)
      BY <1>2 DEF Skipped
    <2>5. HandOld(s, g) = HandOld(r, g) /\ AddOld(h, g, p) = 0
      BY <1>2, <1>3 DEF HandOld, Hand, AddOld
    <2>6. ASSUME Skipped(a, f, g, p) PROVE StaleInv(a, h, s, g, p)
      <3>1. ~Ahead(a, p) /\ a.pc = "flush"
        <4>1. p \in Nat
          BY DEF Pins, Constants
        <4> QED BY <2>6, <4>1 DEF Skipped, Began, Ahead
      <3> QED BY <1>2, <1>3, <2>1, <2>4, <2>6, <3>1 DEF StaleInv
    <2>7. ASSUME ~Skipped(a, f, g, p) PROVE StaleInv(a, h, s, g, p)
      <3>1. Staleness(f, r, g, p) <= 2 /\ QueueOld(r, g) + AddOld(f, g, p) <= 1
            /\ \A k \in 2 .. n : ~Old(g, q[k])
        BY <2>1, <2>7 DEF StaleInv
      <3>2. QueueOld(s, g) = QueueOld(r, g) + AddOld(f, g, p) /\ \A k \in 2 .. n + 1 : ~Old(g, s.queue[k])
        <4>1. CASE g.open
          <5>1. AddOld(f, g, p) = 0
            BY <2>3, <4>1 DEF AddOld
          <5>2. QueueOld(s, g) = QueueOld(r, g) + 0
            <6>1. CASE q = <<>>
              <7>1. s.queue[1] = f.item
                BY <1>4, <6>1
              <7> QED BY <2>3, <4>1, <6>1, <7>1 DEF QueueOld
            <6>2. CASE q # <<>>
              <7>1. 1 \in 1 .. n /\ s.queue[1] = q[1] /\ s.queue # <<>>
                <8>1. n > 0
                  BY <1>1, <6>2, QueueFacts
                <8>2. s.queue # <<>>
                  BY <1>3, <1>4, QueueFacts
                <8> QED BY <1>4, <8>1, <8>2
              <7>2. QueueOld(s, g) = QueueOld(r, g)
                BY <6>2, <7>1 DEF QueueOld
              <7>3. QueueOld(r, g) \in {0, 1}
                BY <1>1, Counts
              <7> QED BY <7>2, <7>3
            <6> QED BY <6>1, <6>2
          <5>3. ASSUME NEW k \in 2 .. n + 1 PROVE ~Old(g, s.queue[k])
            <6>1. (k \in 2 .. n /\ k \in 1 .. n) \/ k = n + 1
              BY <1>4
            <6> QED BY <1>4, <2>3, <3>1, <4>1, <6>1
          <5> QED BY <5>1, <5>2, <5>3
        <4>2. CASE ~g.open
          <5>1. AddOld(f, g, p) = 1 /\ \A i : Old(g, i)
            BY <4>2 DEF AddOld, Old
          <5>2. QueueOld(r, g) = 0
            BY <1>1, <1>2, <3>1, <5>1, Counts
          <5>3. n = 0
            <6>1. r.queue = <<>>
              BY <5>1, <5>2 DEF QueueOld
            <6> QED BY <1>1, <6>1, QueueFacts
          <5>4. QueueOld(s, g) = 1
            <6>1. s.queue # <<>>
              BY <1>3, <1>4, QueueFacts
            <6> QED BY <5>1, <6>1 DEF QueueOld
          <5> QED BY <5>1, <5>2, <5>3, <5>4
        <4> QED BY <4>1, <4>2
      <3>3. Staleness(h, s, g, p) = Staleness(f, r, g, p) /\ QueueOld(s, g) + AddOld(h, g, p) <= 1
        <4>1. HandOld(r, g) \in Nat /\ QueueOld(r, g) \in Nat /\ AddOld(f, g, p) \in Nat /\ g.stale \in Nat
          BY <1>1, <1>2, Counts
        <4> QED BY <2>5, <3>1, <3>2, <4>1 DEF Staleness
      <3> QED BY <1>2, <1>3, <1>4, <2>1, <2>4, <2>7, <3>1, <3>2, <3>3 DEF StaleInv
    <2>8. RunInv(h, s, g, p)
      <3>1. ASSUME g.open, Healthy(s, g)
            PROVE  /\ p \in h.active /\ Continues(h, s, g, p)
                   /\ Hand(s) /\ New(g, s.item) => s.item.nr = Len(g.run) + 1
        <4>1. r.ok /\ Healthy(r, g) /\ p \in f.active
          BY <1>3, <2>1, <3>1 DEF Healthy, Lost, OpenInv, RunInv
        <4>2. Hand(s) /\ New(g, s.item) => s.item.nr = Len(g.run) + 1
          BY <1>3, <2>1, <3>1, <4>1 DEF RunInv, Hand
        <4>3. PICK i \in 0 .. n, j \in 0 .. n : Block(f, r, g, p, i, j)
          BY <2>1, <3>1, <4>1 DEF RunInv, Continues
        <4>4. Base(s, g) = Base(r, g) /\ Base(r, g) \in Nat
          BY <1>1, <1>3, Counts DEF Base, Hand
        <4>5. g.pass = f.pass /\ f.pass > 0
          BY <1>2, <2>1, <3>1 DEF OpenInv, FilterInv, CountInv, Starting, Working
        <4>6. CASE f.item = Eos
          <5>1. ~New(g, f.item)
            BY <4>5, <4>6, ItemFacts DEF New
          <5>2. Last(h, p) = Last(f, p)
            BY <1>2, <4>6 DEF Last, Given
          <5>3. ASSUME NEW k \in 1 .. n + 1
                PROVE  IF i < k /\ k <= j THEN s.queue[k] = [pass |-> g.pass, nr |-> Base(r, g) + k - i]
                       ELSE ~New(g, s.queue[k])
            <6>1. CASE k \in 1 .. n
              BY <1>4, <4>3, <6>1 DEF Block
            <6>2. CASE k = n + 1
              BY <1>4, <5>1, <6>2
            <6> QED BY <1>4, <6>1, <6>2
          <5>4. Block(h, s, g, p, i, j)
            BY <1>2, <1>4, <4>3, <4>4, <4>6, <5>2, <5>3 DEF Block
          <5>5. i \in 0 .. Len(s.queue) /\ j \in 0 .. Len(s.queue)
            BY <1>4
          <5> QED BY <1>2, <4>1, <4>2, <5>4, <5>5 DEF Continues
        <4>7. CASE f.item # Eos
          <5>1. Given(f, p) /\ Reading(f)
            BY <4>7 DEF Given, Reading
          <5>2. j = n /\ Base(r, g) + n - i = f.read[p] - 1 /\ i <= n
            BY <4>3, <5>1 DEF Block, Last
          <5>3. \A x, y, z, m \in Int : x + y - z = m - 1 => x + (y + 1) - z = m
            BY ONLY OneMore
          <5>4. Base(r, g) + (n + 1) - i = f.read[p] /\ i <= n + 1
            <6>1. i \in Nat
              BY <1>4
            <6>2. n \in Nat /\ Base(r, g) \in Nat /\ f.read[p] \in Nat
              BY <1>1, <1>4, <4>4
            <6> HIDE DEF n
            <6> QED BY ONLY <5>2, <5>3, <6>1, <6>2
          <5>5. Last(h, p) = f.read[p]
            <6>1. Last(h, p) = f.read[p] - 0
              BY <1>2 DEF Last, Given
            <6> QED BY <1>1, <6>1
          <5>6. f.item = [pass |-> g.pass, nr |-> Base(r, g) + (n + 1) - i]
            BY <1>1, <4>5, <4>7, <5>4
          <5>7. ASSUME NEW k \in 1 .. n + 1
                PROVE  IF i < k /\ k <= n + 1 THEN s.queue[k] = [pass |-> g.pass, nr |-> Base(r, g) + k - i]
                       ELSE ~New(g, s.queue[k])
            <6>1. CASE k \in 1 .. n
              <7>1. k <= n /\ k <= n + 1
                BY <1>4, <6>1
              <7> QED BY <1>4, <4>3, <5>2, <6>1, <7>1 DEF Block
            <6>2. CASE k = n + 1
              <7>1. i < n + 1 /\ n + 1 <= n + 1
                BY <1>4, <5>2
              <7> QED BY <1>4, <5>6, <6>2, <7>1
            <6> QED BY <1>4, <6>1, <6>2
          <5>8. Base(r, g) + (n + 1) - i = Last(h, p) /\ i <= n + 1
            BY <5>5, <5>4
          <5>9. Block(h, s, g, p, i, n + 1)
            BY <1>4, <4>4, <5>7, <5>8 DEF Block
          <5>10. i \in 0 .. Len(s.queue) /\ n + 1 \in 0 .. Len(s.queue)
            BY <1>4
          <5> QED BY <1>2, <4>1, <4>2, <5>9, <5>10 DEF Continues
        <4> QED BY <4>6, <4>7
      <3> QED BY <1>3, <2>1, <3>1 DEF RunInv
    <2> QED BY <2>2, <2>6, <2>7, <2>8
  <1> QED BY <1>2, <1>3, <1>5, <1>6, <1>7 DEF PinInv

-----------------------------------------------------------------------------
(* The steps of the application.                                              *)

(* A step after which the queue, what is in hand and what arrived are the     *)
(* same.                                                                      *)
LEMMA AppMoves ==
    ASSUME Constants, NEW p \in Pins, NEW a, NEW f, NEW r, NEW d, NEW g, Possible(a, f, r, d, g, p),
           NEW b, NEW h, NEW s, NEW e,
           h.pc = f.pc, h.pass = f.pass, h.to = f.to, h.item = f.item, h.read = f.read, h.active = f.active,
           s.queue = r.queue, s.item = r.item, s.pc = r.pc, s.failed = r.failed,
           ~g.late /\ g.open => s.ok = r.ok /\ (s.flushed => r.flushed),
           ExitInv(b, h, s, e, g, p), FlushInv(b, s, g, p), ~g.late => OpenInv(b, h, s, g, p),
           Skipped(a, f, g, p) => Skipped(b, h, g, p),
           Skipped(b, h, g, p) => Skipped(a, f, g, p) \/ (Ahead(a, p) /\ ~f.flushing),
           Ahead(b, p) /\ ~h.flushing => Ahead(a, p) /\ ~f.flushing,
           b.pc = "idle" /\ f.pc = "none" => a.pc = "idle" \/ g.late \/ Staleness(f, r, g, p) <= 1
    PROVE  PinInv(b, h, s, e, g, p)
  <1>1. f \in FltState /\ r \in PinState /\ g \in GotState
    BY DEF Possible
  <1>2. PassInv(h, s, p)
    BY DEF Possible, PinInv, PassInv
  <1>3. ASSUME ~g.late PROVE StaleInv(b, h, s, g, p) /\ RunInv(h, s, g, p)
    <2>1. StaleInv(a, f, r, g, p) /\ RunInv(f, r, g, p)
      BY <1>3 DEF Possible, PinInv
    <2>2. HandOld(s, g) = HandOld(r, g) /\ QueueOld(s, g) = QueueOld(r, g) /\ AddOld(h, g, p) = AddOld(f, g, p)
          /\ Base(s, g) = Base(r, g)
      BY DEF HandOld, QueueOld, AddOld, Base, Hand
    <2>3. Staleness(h, s, g, p) = Staleness(f, r, g, p)
      BY <2>2 DEF Staleness
    <2>4. Skipped(b, h, g, p) => g.stale + (IF s.pc = "wait" THEN 0 ELSE 1) <= 2
      <3>1. CASE Skipped(a, f, g, p)
        BY <2>1, <3>1 DEF StaleInv
      <3>2. CASE Skipped(b, h, g, p) /\ ~Skipped(a, f, g, p)
        <4>1. ~g.open
          BY <3>2 DEF Skipped
        <4>2. Staleness(f, r, g, p) <= 1
          BY <2>1, <3>2, <4>1 DEF StaleInv
        <4>3. g.stale + 1 <= 2 /\ g.stale + 0 <= 2
          BY <1>1, <4>2, Counts DEF Staleness
        <4> QED BY <4>3
      <3> QED BY <3>1, <3>2
    <2>5. StaleInv(b, h, s, g, p)
      BY <1>3, <2>1, <2>2, <2>3, <2>4 DEF StaleInv
    <2>6. Last(h, p) = Last(f, p) /\ Reading(h) = Reading(f)
      BY DEF Last, Given, Reading
    <2>7. Continues(f, r, g, p) => Continues(h, s, g, p)
      BY <2>2, <2>6 DEF Continues, Block
    <2>8. RunInv(h, s, g, p)
      BY <1>3, <2>1, <2>7 DEF RunInv, Hand, Healthy, Lost
    <2> QED BY <2>5, <2>8
  <1> QED BY <1>2, <1>3 DEF PinInv

(* The step is about another pin: the application is where it was with this   *)
(* one.                                                                       *)
LEMMA AppMovesOn ==
    ASSUME Constants, NEW p \in Pins, NEW a, NEW f, NEW r, NEW d, NEW g, Possible(a, f, r, d, g, p),
           NEW b, NEW h,
           h.pc = f.pc, h.pass = f.pass, h.to = f.to, h.item = f.item, h.read = f.read, h.active = f.active,
           h.todo = f.todo, ExitInv(b, h, r, d, g, p),
           Began(b, p) <=> Began(a, p), Emptied(b, p) <=> Emptied(a, p), Reopened(b, p) <=> Reopened(a, p),
           Past(b, p) => Past(a, p),
           Began(b, p) => h.flushing = f.flushing,
           Ahead(b, p) /\ ~h.flushing => Ahead(a, p) /\ ~f.flushing,
           b.pc = "idle" /\ f.pc = "none" => a.pc = "idle" \/ g.late \/ Staleness(f, r, g, p) <= 1
    PROVE  PinInv(b, h, r, d, g, p)
  <1>1. FlushInv(b, r, g, p)
    BY DEF Possible, PinInv, FlushInv, Flushing
  <1>2. ~g.late => OpenInv(b, h, r, g, p)
    <2>1. ~g.late => OpenInv(a, f, r, g, p)
      BY DEF Possible, PinInv
    <2> QED BY <2>1 DEF OpenInv, Working
  <1>3. Skipped(a, f, g, p) <=> Skipped(b, h, g, p)
    BY DEF Skipped
  <1> QED BY <1>1, <1>2, <1>3, AppMoves

LEMMA PauseKeeps ==
    ASSUME Constants, NEW p \in Pins, NEW a, NEW f, NEW r, NEW d, NEW g, Possible(a, f, r, d, g, p),
           a.pc = "idle", f.pc = "none", NEW h, h = [f EXCEPT !.pc = "init"],
           NEW s, s = [r EXCEPT !.pc = "init"]
    PROVE  PinInv(a, h, s, "open", g, p) /\ s \in PinState /\ FilterInv(a, h) /\ h \in FltState
  <1>1. f \in FltState /\ r \in PinState /\ g \in GotState
    BY DEF Possible
  <1>2. h \in FltState /\ h.pc = "init" /\ h.pass = f.pass /\ h.active = f.active
        /\ h.flushing = f.flushing /\ h.done = f.done /\ h.send = f.send /\ h.item = f.item /\ h.read = f.read
        /\ h.end = f.end
    BY <1>1 DEF FltState
  <1>3. /\ s \in PinState /\ s.pc = "init" /\ s.queue = r.queue /\ s.item = r.item /\ s.flushing = r.flushing
        /\ s.end = r.end /\ s.ok = r.ok /\ s.send = r.send /\ s.done = r.done
    BY <1>1 DEF PinState
  <1>4. FilterInv(a, h)
    <2>1. CallInv(a, f) /\ CountInv(a, f) /\ ReadInv(f)
      BY DEF Possible, FilterInv
    <2>2. CallInv(a, h)
      BY <1>2, <2>1 DEF CallInv
    <2>3. CountInv(a, h) /\ ReadInv(h)
      BY <1>2, <2>1 DEF CountInv, ReadInv, Starting, Asked
    <2> QED BY <2>2, <2>3 DEF FilterInv
  <1>5. PassInv(h, s, p)
    BY <1>2, <1>3 DEF Possible, PinInv, PassInv
  <1>6. ExitInv(a, h, s, "open", g, p)
    BY <1>2, <1>3 DEF Possible, PinInv, ExitInv, Stopping
  <1>7. FlushInv(a, s, g, p)
    BY <1>3 DEF Possible, PinInv, FlushInv, Flushing, Began, Emptied, Reopened
  <1>8. ASSUME ~g.late PROVE OpenInv(a, h, s, g, p) /\ StaleInv(a, h, s, g, p) /\ RunInv(h, s, g, p)
    <2>1. StaleInv(a, f, r, g, p) /\ RunInv(f, r, g, p) /\ ~g.open
      BY <1>8, ClosedBefore DEF Possible, PinInv, Working
    <2>2. OpenInv(a, h, s, g, p) /\ RunInv(h, s, g, p)
      BY <1>2, <2>1 DEF OpenInv, RunInv, Working
    <2>3. r.pc = "none"
      BY DEF Possible, PinInv, ExitInv
    <2>4. HandOld(s, g) = HandOld(r, g) /\ QueueOld(s, g) = QueueOld(r, g) /\ AddOld(h, g, p) = AddOld(f, g, p)
      BY <1>2, <1>3, <2>3 DEF HandOld, QueueOld, AddOld, Hand
    <2>5. ~Skipped(a, f, g, p) /\ ~Skipped(a, h, g, p)
      BY DEF Skipped, Began
    <2>6. Staleness(h, s, g, p) = Staleness(f, r, g, p)
      BY <2>4 DEF Staleness
    <2>7. StaleInv(a, h, s, g, p)
      BY <1>2, <1>3, <2>1, <2>4, <2>5, <2>6 DEF StaleInv
    <2> QED BY <2>2, <2>7
  <1> QED BY <1>2, <1>3, <1>4, <1>5, <1>6, <1>7, <1>8 DEF PinInv

(* A seek or a stop begins, the filter being active.                          *)
LEMMA AskKeeps ==
    ASSUME Constants, NEW p \in Pins, NEW a, NEW f, NEW r, NEW d, NEW g, Possible(a, f, r, d, g, p),
           a.pc = "idle", f.pc # "none", NEW b \in AppState, NEW h, NEW e,
           b.pc = "flags", b.at = 1, b.op \in {"seek", "exit"}, b.seeks + b.stops = a.seeks + a.stops + 1,
           b.op = "exit" => e = "stopped", h = [f EXCEPT !.flushing = TRUE]
    PROVE  PinInv(b, h, r, e, g, p) /\ FilterInv(b, h) /\ h \in FltState
  <1>1. f \in FltState /\ r \in PinState /\ g \in GotState /\ a \in AppState /\ p >= 1
    BY DEF Possible, Pins, Constants
  <1>2. h \in FltState /\ h.pc = f.pc /\ h.pass = f.pass /\ h.active = f.active
        /\ h.flushing /\ h.done = f.done /\ h.send = f.send /\ h.item = f.item /\ h.read = f.read
        /\ h.end = f.end /\ h.todo = f.todo /\ h.to = f.to
    BY <1>1 DEF FltState
  <1>3. FilterInv(b, h)
    <2>1. CallInv(a, f) /\ CountInv(a, f) /\ ReadInv(f)
      BY DEF Possible, FilterInv
    <2>2. CallInv(b, h)
      BY <1>2, <2>1 DEF CallInv
    <2>3. ReadInv(h)
      BY <1>2, <2>1 DEF ReadInv
    <2>4. CountInv(b, h)
      <3>1. ~Asked(a, f) /\ Asked(b, h) /\ (Starting(h) <=> Starting(f))
        BY <1>2 DEF Asked, Starting
      <3>2. f.pass \in Nat /\ a.seeks \in Nat /\ a.stops \in Nat /\ b.seeks \in Nat /\ b.stops \in Nat
        BY <1>1 DEF FltState, AppState, Passes
      <3> QED BY <1>2, <2>1, <3>1, <3>2 DEF CountInv
    <2> QED BY <2>2, <2>3, <2>4 DEF FilterInv
  <1>4. /\ ~Began(a, p) /\ ~Began(b, p) /\ ~Emptied(a, p) /\ ~Emptied(b, p) /\ ~Reopened(a, p) /\ ~Reopened(b, p)
        /\ ~Past(b, p)
    BY <1>1 DEF Began, Emptied, Reopened, Past, Pins, Constants
  <1>5. ExitInv(b, h, r, e, g, p)
    BY <1>4 DEF Possible, PinInv, ExitInv, Stopping
  <1>6. FlushInv(b, r, g, p)
    BY <1>4 DEF Possible, PinInv, FlushInv, Flushing
  <1>7. ~g.late => OpenInv(b, h, r, g, p)
    <2>1. ~g.late => OpenInv(a, f, r, g, p)
      BY DEF Possible, PinInv
    <2> QED BY <1>2, <1>4, <2>1 DEF OpenInv, Working
  <1>8. ~Skipped(a, f, g, p) /\ ~Skipped(b, h, g, p)
    BY <1>4 DEF Skipped
  <1>9. PinInv(b, h, r, e, g, p)
    BY <1>2, <1>5, <1>6, <1>7, <1>8, AppMoves
  <1> QED BY <1>2, <1>3, <1>9

(* A seek of a stopped graph.                                                 *)
LEMMA SeekStoppedKeeps ==
    ASSUME Constants, NEW p \in Pins, NEW a, NEW f, NEW r, NEW d, NEW g, Possible(a, f, r, d, g, p),
           a.pc = "idle", f.pc = "none", NEW b \in AppState,
           b.pc = "idle", b.at = 1, b.seeks = a.seeks + 1, b.stops = a.stops
    PROVE  PinInv(b, f, r, d, g, p) /\ FilterInv(b, f)
  <1>1. /\ ~Began(a, p) /\ ~Began(b, p) /\ ~Emptied(a, p) /\ ~Emptied(b, p) /\ ~Reopened(a, p) /\ ~Reopened(b, p)
        /\ ~Past(b, p) /\ ~Ahead(b, p) /\ ~Stopping(b)
    BY DEF Began, Emptied, Reopened, Past, Ahead, Stopping
  <1>2. ExitInv(b, f, r, d, g, p)
    BY <1>1 DEF Possible, PinInv, ExitInv
  <1>3. PinInv(b, f, r, d, g, p)
    BY <1>1, <1>2, AppMovesOn
  <1>4. FilterInv(b, f)
    <2>1. CallInv(a, f) /\ CountInv(a, f) /\ ReadInv(f)
      BY DEF Possible, FilterInv
    <2>2. CallInv(b, f)
      BY <2>1 DEF CallInv
    <2>3. CountInv(b, f)
      <3>1. ~Asked(a, f) /\ ~Asked(b, f) /\ Starting(f)
        BY DEF Asked, Starting
      <3>2. f.pass \in Nat /\ a.seeks \in Nat /\ a.stops \in Nat
        BY DEF Possible, FltState, AppState, Passes
      <3> QED BY <2>1, <3>1, <3>2 DEF CountInv
    <2> QED BY <2>1, <2>2, <2>3 DEF FilterInv
  <1> QED BY <1>3, <1>4

(* What ForNextPin makes of the application's state.                          *)
NextOf(a, l, last) ==
    IF a.at = NPins THEN [a EXCEPT !.pc = last, !.at = 1] ELSE [a EXCEPT !.pc = l, !.at = @ + 1]

Labels == {"idle", "flags", "flush", "call", "answer", "reopen", "release", "end", "exit", "exited"}

LEMMA NextOfIsTyped ==
    ASSUME Constants, NEW a \in AppState, NEW l \in Labels, NEW last \in Labels, NEW b, b = NextOf(a, l, last)
    PROVE  /\ b \in AppState /\ b.op = a.op /\ b.seeks = a.seeks /\ b.stops = a.stops
           /\ (a.at = NPins /\ b.at = 1 /\ b.pc = last) \/ (a.at < NPins /\ b.at = a.at + 1 /\ b.pc = l)
  <1>1. a.at \in Nat /\ 1 <= a.at /\ a.at <= NPins /\ NPins \in Nat
    BY DEF AppState, Pins, Constants
  <1>2. CASE a.at = NPins
    <2>1. b = [a EXCEPT !.pc = last, !.at = 1] /\ 1 \in Pins
      BY <1>1, <1>2 DEF NextOf, Pins
    <2> QED BY <1>2, <2>1 DEF AppState, Labels
  <1>3. CASE a.at # NPins
    <2>1. b = [a EXCEPT !.pc = l, !.at = a.at + 1] /\ a.at + 1 \in Pins /\ a.at < NPins
      BY <1>1, <1>3 DEF NextOf, Pins
    <2> QED BY <2>1 DEF AppState, Labels
  <1> QED BY <1>2, <1>3

(* The application goes on; the filter's thread is not concerned.             *)
LEMMA AppGoesOn ==
    ASSUME Constants, NEW a, NEW f, NEW b, FilterInv(a, f),
           b.seeks = a.seeks, b.stops = a.stops, Asked(b, f) <=> Asked(a, f), CallInv(b, f)
    PROVE  FilterInv(b, f)
  BY DEF FilterInv, CountInv

LEMMA BeginFlushKeeps ==
    ASSUME Constants, NEW p \in Pins, NEW a, NEW f, NEW r, NEW d, NEW g, Possible(a, f, r, d, g, p),
           a.pc = "flags", NEW b, b = [a EXCEPT !.pc = "flush"], NEW s,
           s = IF p = a.at THEN [r EXCEPT !.end = FALSE, !.flushed = FALSE, !.flushing = TRUE] ELSE r
    PROVE  PinInv(b, f, s, d, g, p) /\ s \in PinState /\ FilterInv(b, f) /\ b \in AppState
  <1>1. f \in FltState /\ r \in PinState /\ g \in GotState /\ a \in AppState /\ p \in Nat /\ a.at \in Nat
    BY DEF Possible, AppState, Pins, Constants
  <1>2. b \in AppState /\ b.pc = "flush" /\ b.at = a.at /\ b.op = a.op /\ b.seeks = a.seeks /\ b.stops = a.stops
    BY <1>1 DEF AppState
  <1>3. FilterInv(b, f)
    <2>1. CallInv(b, f)
      BY <1>2 DEF Possible, FilterInv, CallInv
    <2> QED BY <1>2, <2>1, AppGoesOn DEF Asked, Possible
  <1>4. (Past(b, p) <=> Past(a, p)) /\ (Stopping(b) <=> Stopping(a))
    BY <1>2 DEF Past, Stopping
  <1>5. CASE p # a.at
    <2>1. /\ ~Began(a, p) /\ ~Began(b, p) /\ (Emptied(b, p) <=> Emptied(a, p)) /\ ~Reopened(a, p) /\ ~Reopened(b, p)
          /\ (Ahead(b, p) <=> Ahead(a, p))
      BY <1>2, <1>5 DEF Began, Emptied, Reopened, Ahead
    <2>2. ExitInv(b, f, r, d, g, p)
      BY <1>2, <1>4 DEF Possible, PinInv, ExitInv
    <2>3. PinInv(b, f, r, d, g, p)
      BY <1>2, <1>4, <2>1, <2>2, AppMovesOn
    <2> QED BY <1>1, <1>2, <1>3, <1>5, <2>3
  <1>6. CASE p = a.at
    <2>1. /\ Began(b, p) /\ ~Began(a, p) /\ ~Emptied(a, p) /\ ~Emptied(b, p) /\ ~Reopened(a, p) /\ ~Reopened(b, p)
          /\ Ahead(a, p) /\ ~Ahead(b, p)
      BY <1>1, <1>2, <1>6 DEF Began, Emptied, Reopened, Ahead
    <2>2. /\ s \in PinState /\ s.pc = r.pc /\ s.queue = r.queue /\ s.item = r.item /\ s.flushing /\ ~s.flushed
          /\ ~s.end /\ s.ok = r.ok /\ s.send = r.send /\ s.done = r.done /\ s.failed = r.failed
      BY <1>1, <1>6 DEF PinState
    <2>3. ExitInv(b, f, s, d, g, p)
      BY <1>2, <1>4, <2>2 DEF Possible, PinInv, ExitInv
    <2>4. ~r.flushing /\ FlushInv(b, s, g, p)
      BY <2>1, <2>2 DEF Possible, PinInv, FlushInv, Flushing
    <2>5. ~g.late => OpenInv(b, f, s, g, p)
      <3>1. ~g.late => OpenInv(a, f, r, g, p)
        BY DEF Possible, PinInv
      <3> QED BY <1>4, <2>2, <2>4, <3>1 DEF OpenInv
    <2>6. ~Skipped(a, f, g, p) /\ (Skipped(b, f, g, p) => Ahead(a, p) /\ ~f.flushing)
      BY <2>1 DEF Skipped
    <2>7. PinInv(b, f, s, d, g, p)
      BY <1>2, <2>1, <2>2, <2>3, <2>4, <2>5, <2>6, AppMoves
    <2> QED BY <1>2, <1>3, <2>2, <2>7
  <1> QED BY <1>5, <1>6

(* What EmptyQueue makes of the application, and of a pin p, what is          *)
(* downstream of it, whether or not that begins to flush, and what arrived.   *)
EmptiesQueue(a, r, d, g, p, b, s, e, k) ==
    /\ b = NextOf(a, "flags", "call")
    /\ IF p = a.at
       THEN /\ s \in {[r EXCEPT !.ok = FALSE, !.queue = <<>>, !.end = end] : end \in {r.end, TRUE}}
            /\ e \in {d, IF d = "open" THEN "flushing" ELSE d}
            /\ k = [g EXCEPT !.open = FALSE, !.run = <<>>, !.eos = FALSE, !.stale = 0, !.late = ~r.flushing]
       ELSE s = r /\ e = d /\ k = g

LEMMA EmptyQueueKeeps ==
    ASSUME Constants, NEW p \in Pins, NEW a, NEW f, NEW r, NEW d, NEW g, Possible(a, f, r, d, g, p),
           a.pc = "flush", NEW b, NEW s, NEW e, NEW k, EmptiesQueue(a, r, d, g, p, b, s, e, k)
    PROVE  /\ PinInv(b, f, s, e, k, p) /\ s \in PinState /\ e \in DownState /\ k \in GotState
           /\ FilterInv(b, f) /\ b \in AppState
  <1>1. f \in FltState /\ r \in PinState /\ g \in GotState /\ a \in AppState /\ d \in DownState
        /\ p \in Nat /\ p <= NPins /\ a.at \in Nat /\ NPins \in Nat
    BY DEF Possible, AppState, Pins, Constants
  <1>2. /\ b \in AppState /\ b.op = a.op /\ b.seeks = a.seeks /\ b.stops = a.stops
        /\ (a.at = NPins /\ b.at = 1 /\ b.pc = "call") \/ (a.at < NPins /\ b.at = a.at + 1 /\ b.pc = "flags")
    <2>1. b = NextOf(a, "flags", "call")
      BY DEF EmptiesQueue
    <2>2. "flags" \in Labels /\ "call" \in Labels
      BY DEF Labels
    <2> QED BY ONLY Constants, <1>1, <2>1, <2>2, NextOfIsTyped
  <1>3. FilterInv(b, f)
    <2>1. CallInv(b, f)
      BY <1>2 DEF Possible, FilterInv, CallInv
    <2>2. Asked(b, f) /\ Asked(a, f)
      BY <1>2 DEF Asked
    <2> QED BY <1>2, <2>1, <2>2, AppGoesOn DEF Possible
  <1>4. Stopping(b) <=> Stopping(a)
    BY <1>2 DEF Stopping
  <1>5. CASE p # a.at
    <2>1. /\ ~Began(a, p) /\ ~Began(b, p) /\ (Emptied(b, p) <=> Emptied(a, p)) /\ ~Reopened(a, p) /\ ~Reopened(b, p)
          /\ (Ahead(b, p) <=> Ahead(a, p)) /\ (Past(b, p) <=> Past(a, p))
      BY <1>1, <1>2, <1>5 DEF Began, Emptied, Reopened, Ahead, Past
    <2>2. ExitInv(b, f, r, d, g, p)
      BY <1>2, <1>4, <2>1 DEF Possible, PinInv, ExitInv
    <2>3. PinInv(b, f, r, d, g, p)
      BY <1>2, <2>1, <2>2, AppMovesOn
    <2>4. s = r /\ e = d /\ k = g
      BY <1>5 DEF EmptiesQueue
    <2> QED BY <1>1, <1>2, <1>3, <2>3, <2>4
  <1>6. CASE p = a.at
    <2>1. Emptied(b, p) /\ ~Began(b, p) /\ ~Ahead(b, p) /\ Past(b, p)
      BY <1>1, <1>2, <1>6 DEF Began, Emptied, Ahead, Past
    <2>2. /\ s \in PinState /\ s.pc = r.pc /\ s.queue = <<>> /\ s.item = r.item /\ s.flushing = r.flushing
          /\ ~s.ok /\ s.send = r.send /\ s.done = r.done
      <3>1. <<>> \in Seq(Item)
        OBVIOUS
      <3>2. r.end \in BOOLEAN
        BY <1>1 DEF PinState
      <3>3. PICK end \in BOOLEAN : s = [r EXCEPT !.ok = FALSE, !.queue = <<>>, !.end = end]
        BY <1>6, <3>2 DEF EmptiesQueue
      <3> QED BY <1>1, <3>1, <3>3 DEF PinState
    <2>3. k \in GotState /\ ~k.open /\ k.run = <<>> /\ k.stale = 0 /\ (k.late <=> ~r.flushing)
      <3>1. <<>> \in Seq(Nat) /\ 0 \in Nat
        OBVIOUS
      <3>2. k = [g EXCEPT !.open = FALSE, !.run = <<>>, !.eos = FALSE, !.stale = 0, !.late = ~r.flushing]
        BY <1>6 DEF EmptiesQueue
      <3>3. r.flushing \in BOOLEAN
        BY <1>1 DEF PinState
      <3> QED BY <1>1, <3>1, <3>2, <3>3 DEF GotState
    <2>4. e \in DownState /\ (d = "stopped" => e = "stopped")
      BY <1>1, <1>6 DEF EmptiesQueue, DownState
    <2>5. Len(s.queue) = 0
      BY <2>2
    <2>6. PassInv(f, s, p)
      <3>1. QueueMax \in Nat
        BY DEF Constants
      <3> QED BY <2>2, <2>5, <3>1 DEF Possible, PinInv, PassInv
    <2>7. ExitInv(b, f, s, e, k, p)
      BY <1>2, <1>4, <2>2, <2>3, <2>4 DEF Possible, PinInv, ExitInv
    <2>8. FlushInv(b, s, k, p)
      BY <2>1, <2>2, <2>3 DEF FlushInv, Flushing
    <2>9. ASSUME ~k.late PROVE OpenInv(b, f, s, k, p) /\ StaleInv(b, f, s, k, p) /\ RunInv(f, s, k, p)
      <3>1. OpenInv(b, f, s, k, p)
        BY <2>1, <2>2, <2>3, <2>9 DEF OpenInv
      <3>2. QueueOld(s, k) = 0 /\ ~Skipped(b, f, k, p)
        BY <2>1, <2>2 DEF QueueOld, Skipped
      <3>3. HandOld(s, k) \in {0, 1} /\ AddOld(f, k, p) \in {0, 1} /\ (f.pc # "add" => AddOld(f, k, p) = 0)
        BY <1>1, <2>2, <2>3, Counts DEF AddOld
      <3>4. Staleness(f, s, k, p) <= 2 /\ QueueOld(s, k) + AddOld(f, k, p) <= 1
            /\ (f.pc # "add" => Staleness(f, s, k, p) <= 1)
        BY <2>3, <3>2, <3>3 DEF Staleness
      <3>5. StaleInv(b, f, s, k, p)
        BY <2>1, <2>5, <3>2, <3>4 DEF StaleInv
      <3>6. RunInv(f, s, k, p)
        BY <2>3 DEF RunInv
      <3> QED BY <3>1, <3>5, <3>6
    <2> QED BY <1>2, <1>3, <2>2, <2>3, <2>4, <2>6, <2>7, <2>8, <2>9 DEF PinInv
  <1> QED BY <1>5, <1>6

LEMMA CallKeeps ==
    ASSUME Constants, NEW p \in Pins, NEW a, NEW f, NEW r, NEW d, NEW g, Possible(a, f, r, d, g, p),
           a.pc = "call", NEW b, b = [a EXCEPT !.pc = "answer"], NEW h, h = [f EXCEPT !.send = a.op]
    PROVE  PinInv(b, h, r, d, g, p) /\ FilterInv(b, h) /\ h \in FltState /\ b \in AppState
  <1>1. f \in FltState /\ a \in AppState
    BY DEF Possible
  <1>2. b \in AppState /\ b.pc = "answer" /\ b.at = a.at /\ b.op = a.op /\ b.seeks = a.seeks /\ b.stops = a.stops
    BY <1>1 DEF AppState
  <1>3. h \in FltState /\ h.pc = f.pc /\ h.pass = f.pass /\ h.active = f.active /\ h.flushing = f.flushing
        /\ h.done = f.done /\ h.send = a.op /\ h.item = f.item /\ h.read = f.read /\ h.end = f.end
        /\ h.todo = f.todo /\ h.to = f.to
    BY <1>1 DEF FltState, AppState
  <1>4. FilterInv(b, h)
    <2>1. CallInv(a, f) /\ CountInv(a, f) /\ ReadInv(f)
      BY DEF Possible, FilterInv
    <2>2. CallInv(b, h)
      BY <1>2, <1>3, <2>1 DEF CallInv
    <2>3. ReadInv(h)
      BY <1>3, <2>1 DEF ReadInv
    <2>4. CountInv(b, h)
      <3>1. Asked(a, f) /\ Asked(b, h) /\ (Starting(h) <=> Starting(f))
        BY <1>2, <1>3, <2>1 DEF Asked, Starting, CallInv
      <3> QED BY <1>2, <1>3, <2>1, <3>1 DEF CountInv
    <2> QED BY <2>2, <2>3, <2>4 DEF FilterInv
  <1>5. /\ ~Began(a, p) /\ ~Began(b, p) /\ Emptied(a, p) /\ Emptied(b, p) /\ ~Reopened(a, p) /\ ~Reopened(b, p)
        /\ ~Ahead(b, p) /\ Past(a, p) /\ (Stopping(b) <=> Stopping(a))
    BY <1>2 DEF Began, Emptied, Reopened, Ahead, Past, Stopping
  <1>6. ExitInv(b, h, r, d, g, p)
    BY <1>2, <1>3, <1>5 DEF Possible, PinInv, ExitInv
  <1>7. PinInv(b, h, r, d, g, p)
    BY <1>2, <1>3, <1>5, <1>6, AppMovesOn
  <1> QED BY <1>2, <1>3, <1>4, <1>7

LEMMA AnsweredKeeps ==
    ASSUME Constants, NEW p \in Pins, NEW a, NEW f, NEW r, NEW d, NEW g, Possible(a, f, r, d, g, p),
           a.pc = "answer", f.done, NEW b, b = [a EXCEPT !.pc = "reopen"], NEW h, h = [f EXCEPT !.done = FALSE]
    PROVE  PinInv(b, h, r, d, g, p) /\ FilterInv(b, h) /\ h \in FltState /\ b \in AppState
  <1>1. f \in FltState /\ a \in AppState /\ p >= 1
    BY DEF Possible, Pins, Constants
  <1>2. b \in AppState /\ b.pc = "reopen" /\ b.at = a.at /\ b.op = a.op /\ b.seeks = a.seeks /\ b.stops = a.stops
    BY <1>1 DEF AppState
  <1>3. h \in FltState /\ h.pc = f.pc /\ h.pass = f.pass /\ h.active = f.active /\ h.flushing = f.flushing
        /\ ~h.done /\ h.send = f.send /\ h.item = f.item /\ h.read = f.read /\ h.end = f.end
        /\ h.todo = f.todo /\ h.to = f.to
    BY <1>1 DEF FltState
  <1>4. FilterInv(b, h)
    <2>1. CallInv(a, f) /\ CountInv(a, f) /\ ReadInv(f)
      BY DEF Possible, FilterInv
    <2>2. CallInv(b, h)
      BY <1>2, <1>3, <2>1 DEF CallInv
    <2>3. ReadInv(h)
      BY <1>3, <2>1 DEF ReadInv
    <2>4. CountInv(b, h)
      <3>1. ~Asked(a, f) /\ ~Asked(b, h) /\ (Starting(h) <=> Starting(f))
        BY <1>2, <1>3 DEF Asked, Starting
      <3> QED BY <1>2, <1>3, <2>1, <3>1 DEF CountInv
    <2> QED BY <2>2, <2>3, <2>4 DEF FilterInv
  <1>5. a.at = 1
    BY DEF Possible, FilterInv, CallInv
  <1>6. /\ ~Began(a, p) /\ ~Began(b, p) /\ Emptied(a, p) /\ Emptied(b, p) /\ ~Reopened(a, p) /\ ~Reopened(b, p)
        /\ ~Ahead(b, p) /\ Past(a, p) /\ (Stopping(b) <=> Stopping(a))
    BY <1>1, <1>2, <1>5 DEF Began, Emptied, Reopened, Ahead, Past, Stopping
  <1>7. ExitInv(b, h, r, d, g, p)
    BY <1>2, <1>3, <1>6 DEF Possible, PinInv, ExitInv
  <1>8. PinInv(b, h, r, d, g, p)
    BY <1>2, <1>3, <1>6, <1>7, AppMovesOn
  <1> QED BY <1>2, <1>3, <1>4, <1>8

(* While the pins are opened again no segment is.                             *)
LEMMA ReopeningClosed ==
    ASSUME NEW p, NEW a, NEW f, NEW r, NEW d, NEW g, Possible(a, f, r, d, g, p),
           a.pc \in {"reopen", "release", "end", "exit", "exited"}
    PROVE  ~Working(f) /\ Past(a, p) /\ (~g.late => ~g.open)
  <1>1. ~Working(f)
    BY DEF Possible, FilterInv, CallInv, Working
  <1> QED BY <1>1, ClosedBefore DEF Past

LEMMA ReopenKeeps ==
    ASSUME Constants, NEW p \in Pins, NEW a, NEW f, NEW r, NEW d, NEW g, Possible(a, f, r, d, g, p),
           a.pc = "reopen", NEW b, b = [a EXCEPT !.pc = "release"], NEW s, NEW e,
           s = IF p = a.at THEN [r EXCEPT !.ok = TRUE] ELSE r,
           e = IF p = a.at /\ d = "flushing" THEN "open" ELSE d
    PROVE  PinInv(b, f, s, e, g, p) /\ s \in PinState /\ e \in DownState /\ FilterInv(b, f) /\ b \in AppState
  <1>1. f \in FltState /\ r \in PinState /\ g \in GotState /\ a \in AppState /\ d \in DownState
        /\ p \in Nat /\ a.at \in Nat
    BY DEF Possible, AppState, Pins, Constants
  <1>2. b \in AppState /\ b.pc = "release" /\ b.at = a.at /\ b.op = a.op /\ b.seeks = a.seeks /\ b.stops = a.stops
    BY <1>1 DEF AppState
  <1>3. FilterInv(b, f)
    <2>1. CallInv(b, f)
      BY <1>2 DEF Possible, FilterInv, CallInv
    <2> QED BY <1>2, <2>1, AppGoesOn DEF Asked, Possible
  <1>4. ~Working(f) /\ Past(a, p) /\ (~g.late => ~g.open)
    BY ReopeningClosed
  <1>5. (Stopping(b) <=> Stopping(a)) /\ e \in DownState /\ (d = "stopped" => e = "stopped")
    BY <1>1, <1>2 DEF Stopping, DownState
  <1>6. CASE p # a.at
    <2>1. /\ ~Began(a, p) /\ ~Began(b, p) /\ (Emptied(b, p) <=> Emptied(a, p)) /\ ~Reopened(a, p) /\ ~Reopened(b, p)
          /\ ~Ahead(b, p)
      BY <1>1, <1>2, <1>6 DEF Began, Emptied, Reopened, Ahead
    <2>2. ExitInv(b, f, r, d, g, p)
      BY <1>2, <1>4, <1>5 DEF Possible, PinInv, ExitInv
    <2>3. PinInv(b, f, r, d, g, p)
      BY <1>2, <1>4, <2>1, <2>2, AppMovesOn
    <2> QED BY <1>1, <1>2, <1>3, <1>6, <2>3
  <1>7. CASE p = a.at
    <2>1. /\ ~Began(b, p) /\ ~Began(a, p) /\ ~Emptied(b, p) /\ Reopened(b, p) /\ ~Ahead(b, p)
      BY <1>1, <1>2, <1>7 DEF Began, Emptied, Reopened, Ahead
    <2>2. /\ s \in PinState /\ s.pc = r.pc /\ s.queue = r.queue /\ s.item = r.item /\ s.flushing = r.flushing
          /\ s.end = r.end /\ s.ok /\ s.send = r.send /\ s.done = r.done /\ s.failed = r.failed
      BY <1>1, <1>7 DEF PinState
    <2>3. ExitInv(b, f, s, e, g, p)
      BY <1>2, <1>4, <1>5, <2>2 DEF Possible, PinInv, ExitInv
    <2>4. FlushInv(b, s, g, p)
      <3>1. Emptied(a, p)
        BY <1>1, <1>7 DEF Emptied
      <3> QED BY <2>1, <2>2, <3>1 DEF Possible, PinInv, FlushInv, Flushing
    <2>5. ~g.late => OpenInv(b, f, s, g, p)
      BY <1>4, <2>2 DEF OpenInv
    <2>6. ~Skipped(a, f, g, p) /\ ~Skipped(b, f, g, p)
      BY <2>1 DEF Skipped
    <2>7. PinInv(b, f, s, e, g, p)
      BY <1>2, <1>4, <2>1, <2>2, <2>3, <2>4, <2>5, <2>6, AppMoves
    <2> QED BY <1>2, <1>3, <1>5, <2>2, <2>7
  <1> QED BY <1>6, <1>7

LEMMA ReleaseKeeps ==
    ASSUME Constants, NEW p \in Pins, NEW a, NEW f, NEW r, NEW d, NEW g, Possible(a, f, r, d, g, p),
           a.pc = "release", NEW b, b = NextOf(a, "reopen", "end"), NEW s,
           s = IF p = a.at THEN [r EXCEPT !.flushing = FALSE, !.flushed = TRUE, !.end = TRUE] ELSE r
    PROVE  PinInv(b, f, s, d, g, p) /\ s \in PinState /\ FilterInv(b, f) /\ b \in AppState
  <1>1. f \in FltState /\ r \in PinState /\ g \in GotState /\ a \in AppState
        /\ p \in Nat /\ p <= NPins /\ a.at \in Nat /\ NPins \in Nat
    BY DEF Possible, AppState, Pins, Constants
  <1>2. /\ b \in AppState /\ b.op = a.op /\ b.seeks = a.seeks /\ b.stops = a.stops
        /\ (a.at = NPins /\ b.at = 1 /\ b.pc = "end") \/ (a.at < NPins /\ b.at = a.at + 1 /\ b.pc = "reopen")
    <2>1. "reopen" \in Labels /\ "end" \in Labels
      BY DEF Labels
    <2> QED BY ONLY Constants, <1>1, <2>1, b = NextOf(a, "reopen", "end"), NextOfIsTyped
  <1>3. FilterInv(b, f)
    <2>1. CallInv(b, f)
      BY <1>2 DEF Possible, FilterInv, CallInv
    <2>2. ~Asked(b, f) /\ ~Asked(a, f)
      BY <1>2 DEF Asked
    <2> QED BY <1>2, <2>1, <2>2, AppGoesOn DEF Possible
  <1>4. ~Working(f) /\ Past(a, p) /\ (~g.late => ~g.open)
    BY ReopeningClosed
  <1>5. Stopping(b) <=> Stopping(a)
    BY <1>2 DEF Stopping
  <1>6. CASE p # a.at
    <2>1. /\ ~Began(a, p) /\ ~Began(b, p) /\ (Emptied(b, p) <=> Emptied(a, p)) /\ ~Reopened(a, p) /\ ~Reopened(b, p)
          /\ ~Ahead(b, p)
      BY <1>1, <1>2, <1>6 DEF Began, Emptied, Reopened, Ahead
    <2>2. ExitInv(b, f, r, d, g, p)
      BY <1>2, <1>4, <1>5 DEF Possible, PinInv, ExitInv
    <2>3. PinInv(b, f, r, d, g, p)
      BY <1>2, <1>4, <2>1, <2>2, AppMovesOn
    <2> QED BY <1>1, <1>2, <1>3, <1>6, <2>3
  <1>7. CASE p = a.at
    <2>1. /\ ~Began(b, p) /\ ~Began(a, p) /\ ~Emptied(a, p) /\ ~Emptied(b, p) /\ ~Reopened(b, p) /\ ~Ahead(b, p)
      BY <1>1, <1>2, <1>7 DEF Began, Emptied, Reopened, Ahead
    <2>2. /\ s \in PinState /\ s.pc = r.pc /\ s.queue = r.queue /\ s.item = r.item /\ ~s.flushing
          /\ s.end /\ s.ok = r.ok /\ s.send = r.send /\ s.done = r.done /\ s.failed = r.failed
      BY <1>1, <1>7 DEF PinState
    <2>3. ExitInv(b, f, s, d, g, p)
      BY <1>2, <1>4, <1>5, <2>2 DEF Possible, PinInv, ExitInv
    <2>4. FlushInv(b, s, g, p)
      BY <2>1, <2>2 DEF Possible, PinInv, FlushInv, Flushing
    <2>5. ~g.late => OpenInv(b, f, s, g, p)
      BY <1>4, <2>2 DEF OpenInv
    <2>6. ~Skipped(a, f, g, p) /\ ~Skipped(b, f, g, p)
      BY <2>1 DEF Skipped
    <2>7. PinInv(b, f, s, d, g, p)
      BY <1>2, <1>4, <2>1, <2>2, <2>3, <2>4, <2>5, <2>6, AppMoves
    <2> QED BY <1>2, <1>3, <2>2, <2>7
  <1> QED BY <1>6, <1>7

(* What EndFlush makes of the application and the filter.                     *)
EndsFlush(a, f, b, h) ==
    /\ b = [a EXCEPT !.pc = IF a.op = "exit" THEN "exit" ELSE "idle"]
    /\ h = [f EXCEPT !.flushing = FALSE, !.end = TRUE]

LEMMA EndFlushKeeps ==
    ASSUME Constants, NEW p \in Pins, NEW a, NEW f, NEW r, NEW d, NEW g, Possible(a, f, r, d, g, p),
           a.pc = "end", NEW b, NEW h, EndsFlush(a, f, b, h)
    PROVE  PinInv(b, h, r, d, g, p) /\ FilterInv(b, h) /\ h \in FltState /\ b \in AppState
  <1>1. f \in FltState /\ a \in AppState /\ a.at = 1 /\ p >= 1
    BY DEF Possible, FilterInv, CallInv, Pins, Constants
  <1>2. b \in AppState /\ b.pc = (IF a.op = "exit" THEN "exit" ELSE "idle") /\ b.at = a.at /\ b.op = a.op
        /\ b.seeks = a.seeks /\ b.stops = a.stops
    BY <1>1 DEF EndsFlush, AppState
  <1>3. h \in FltState /\ h.pc = f.pc /\ h.pass = f.pass /\ h.active = f.active /\ ~h.flushing
        /\ h.done = f.done /\ h.send = f.send /\ h.item = f.item /\ h.read = f.read /\ h.end
        /\ h.todo = f.todo /\ h.to = f.to
    BY <1>1 DEF EndsFlush, FltState
  <1>4. FilterInv(b, h)
    <2>1. CallInv(a, f) /\ CountInv(a, f) /\ ReadInv(f)
      BY DEF Possible, FilterInv
    <2>2. CallInv(b, h)
      BY <1>1, <1>2, <1>3, <2>1 DEF CallInv
    <2>3. ReadInv(h)
      BY <1>3, <2>1 DEF ReadInv
    <2>4. CountInv(b, h)
      <3>1. ~Asked(a, f) /\ ~Asked(b, h) /\ (Starting(h) <=> Starting(f))
        BY <1>2, <1>3 DEF Asked, Starting
      <3> QED BY <1>2, <1>3, <2>1, <3>1 DEF CountInv
    <2> QED BY <2>2, <2>3, <2>4 DEF FilterInv
  <1>5. ~Working(f) /\ Past(a, p) /\ (~g.late => ~g.open)
    BY ReopeningClosed
  <1>6. /\ ~Began(a, p) /\ ~Began(b, p) /\ ~Emptied(a, p) /\ ~Emptied(b, p) /\ ~Reopened(a, p) /\ ~Reopened(b, p)
        /\ ~Ahead(b, p) /\ (Stopping(b) => Stopping(a))
    BY <1>2 DEF Began, Emptied, Reopened, Ahead, Stopping
  <1>7. b.pc \in {"exit", "idle"} /\ ~(b.pc = "idle" /\ f.pc = "none")
    BY <1>2 DEF Possible, FilterInv, CallInv
  <1>8. ExitInv(b, h, r, d, g, p)
    <2>1. ExitInv(a, f, r, d, g, p)
      BY DEF Possible, PinInv
    <2>2. ~(p < b.at)
      BY <1>1, <1>2 DEF Pins, Constants
    <2> QED BY <1>3, <1>5, <1>6, <1>7, <2>1, <2>2 DEF ExitInv
  <1>9. PinInv(b, h, r, d, g, p)
    BY ONLY Constants, p \in Pins, Possible(a, f, r, d, g, p), <1>3, <1>5, <1>6, <1>7, <1>8, AppMovesOn
  <1> QED BY <1>2, <1>3, <1>4, <1>9

LEMMA ExitPinKeeps ==
    ASSUME Constants, NEW p \in Pins, NEW a, NEW f, NEW r, NEW d, NEW g, Possible(a, f, r, d, g, p),
           a.pc = "exit", NEW b, b = [a EXCEPT !.pc = "exited"], NEW s,
           s = IF p = a.at THEN [r EXCEPT !.send = TRUE] ELSE r
    PROVE  PinInv(b, f, s, d, g, p) /\ s \in PinState /\ FilterInv(b, f) /\ b \in AppState
  <1>1. f \in FltState /\ r \in PinState /\ g \in GotState /\ a \in AppState
    BY DEF Possible
  <1>2. b \in AppState /\ b.pc = "exited" /\ b.at = a.at /\ b.op = a.op /\ b.seeks = a.seeks /\ b.stops = a.stops
    BY <1>1 DEF AppState
  <1>3. FilterInv(b, f)
    <2>1. CallInv(b, f)
      BY <1>2 DEF Possible, FilterInv, CallInv
    <2> QED BY <1>2, <2>1, AppGoesOn DEF Asked, Possible
  <1>4. ~Working(f) /\ Past(a, p) /\ (~g.late => ~g.open)
    BY ReopeningClosed
  <1>5. /\ ~Began(a, p) /\ ~Began(b, p) /\ ~Emptied(a, p) /\ ~Emptied(b, p) /\ ~Reopened(a, p) /\ ~Reopened(b, p)
        /\ ~Ahead(b, p) /\ (Stopping(b) <=> Stopping(a))
    BY <1>2 DEF Began, Emptied, Reopened, Ahead, Stopping
  <1>6. /\ s \in PinState /\ s.pc = r.pc /\ s.queue = r.queue /\ s.item = r.item /\ s.flushing = r.flushing
        /\ s.end = r.end /\ s.ok = r.ok /\ s.flushed = r.flushed /\ s.failed = r.failed /\ s.done = r.done
        /\ s.send = (r.send \/ p = a.at)
    BY <1>1 DEF PinState
  <1>7. ExitInv(b, f, s, d, g, p)
    BY <1>2, <1>4, <1>5, <1>6 DEF Possible, PinInv, ExitInv
  <1>8. FlushInv(b, s, g, p)
    BY <1>5, <1>6 DEF Possible, PinInv, FlushInv, Flushing
  <1>9. ~g.late => OpenInv(b, f, s, g, p)
    BY <1>4, <1>6 DEF OpenInv
  <1>10. ~Skipped(a, f, g, p) /\ ~Skipped(b, f, g, p)
    BY <1>5 DEF Skipped
  <1>11. PinInv(b, f, s, d, g, p)
    BY <1>2, <1>4, <1>5, <1>6, <1>7, <1>8, <1>9, <1>10, AppMoves
  <1> QED BY <1>2, <1>3, <1>6, <1>11

LEMMA PinExitedKeeps ==
    ASSUME Constants, NEW p \in Pins, NEW a, NEW f, NEW r, NEW d, NEW g, Possible(a, f, r, d, g, p),
           a.pc = "exited", p = a.at => r.done, NEW b, b = NextOf(a, "exit", "idle"), NEW s,
           s = IF p = a.at THEN [r EXCEPT !.done = FALSE] ELSE r
    PROVE  PinInv(b, f, s, d, g, p) /\ s \in PinState /\ FilterInv(b, f) /\ b \in AppState
  <1>1. f \in FltState /\ r \in PinState /\ g \in GotState /\ a \in AppState
        /\ p \in Nat /\ p <= NPins /\ a.at \in Nat /\ NPins \in Nat
    BY DEF Possible, AppState, Pins, Constants
  <1>2. /\ b \in AppState /\ b.op = a.op /\ b.seeks = a.seeks /\ b.stops = a.stops
        /\ (a.at = NPins /\ b.at = 1 /\ b.pc = "idle") \/ (a.at < NPins /\ b.at = a.at + 1 /\ b.pc = "exit")
    <2>1. "exit" \in Labels /\ "idle" \in Labels
      BY DEF Labels
    <2> QED BY ONLY Constants, <1>1, <2>1, b = NextOf(a, "exit", "idle"), NextOfIsTyped
  <1>3. a.op = "exit" /\ f.pc = "none" /\ CallInv(a, f)
    BY DEF Possible, FilterInv, CallInv
  <1>4. FilterInv(b, f)
    <2>1. CallInv(b, f)
      BY <1>2, <1>3 DEF CallInv
    <2>2. ~Asked(b, f) /\ ~Asked(a, f)
      BY <1>2 DEF Asked
    <2> QED BY <1>2, <2>1, <2>2, AppGoesOn DEF Possible
  <1>5. ~Working(f) /\ Past(a, p) /\ (~g.late => ~g.open)
    BY ReopeningClosed
  <1>6. /\ ~Began(a, p) /\ ~Began(b, p) /\ ~Emptied(a, p) /\ ~Emptied(b, p) /\ ~Reopened(a, p) /\ ~Reopened(b, p)
        /\ ~Ahead(b, p) /\ (Stopping(b) => Stopping(a))
    BY <1>2 DEF Began, Emptied, Reopened, Ahead, Stopping
  <1>7. /\ s \in PinState /\ s.pc = r.pc /\ s.queue = r.queue /\ s.item = r.item /\ s.flushing = r.flushing
        /\ s.end = r.end /\ s.ok = r.ok /\ s.flushed = r.flushed /\ s.failed = r.failed /\ s.send = r.send
        /\ (p = a.at => ~s.done) /\ (p # a.at => s = r)
    BY <1>1 DEF PinState
  <1>8. ~s.done /\ ~s.send /\ (p <= a.at => r.pc = "none")
        /\ (Stopping(a) => d = "stopped" /\ (g.late \/ g.stale = 0))
    BY <1>1, <1>5, <1>7 DEF Possible, PinInv, ExitInv
  <1>9. ExitInv(b, f, s, d, g, p)
    BY <1>1, <1>2, <1>6, <1>7, <1>8 DEF ExitInv
  <1>10. FlushInv(b, s, g, p)
    BY <1>6, <1>7 DEF Possible, PinInv, FlushInv, Flushing
  <1>11. ~g.late => OpenInv(b, f, s, g, p)
    BY <1>5, <1>7 DEF OpenInv
  <1>12. ~Skipped(a, f, g, p) /\ ~Skipped(b, f, g, p)
    BY <1>6 DEF Skipped
  (* When the last pin's thread is gone, only the queue may hold something old. *)
  <1>13. b.pc = "idle" => g.late \/ Staleness(f, r, g, p) <= 1
    <2>1. ASSUME b.pc = "idle", ~g.late PROVE Staleness(f, r, g, p) <= 1
      <3>1. r.pc = "none" /\ g.stale = 0
        BY <1>1, <1>2, <1>3, <1>8, <2>1 DEF Stopping
      <3>2. HandOld(r, g) = 0
        BY <3>1 DEF HandOld, Hand
      <3>3. QueueOld(r, g) + AddOld(f, g, p) <= 1
        BY <1>12, <2>1 DEF Possible, PinInv, StaleInv
      <3> QED BY <1>1, <3>1, <3>2, <3>3, Counts DEF Staleness
    <2> QED BY <2>1
  <1>14. PinInv(b, f, s, d, g, p)
    BY <1>2, <1>5, <1>6, <1>7, <1>9, <1>10, <1>11, <1>12, <1>13, AppMoves
  <1> QED BY <1>2, <1>4, <1>7, <1>14

-----------------------------------------------------------------------------
(* The steps of the system.                                                   *)
LEMMA Parts ==
    ASSUME IInv
    PROVE  \A p \in Pins : Possible(app, flt, pin[p], down[p], got[p], p)
  BY DEF IInv, Typed, Possible

LEMMA Together ==
    ASSUME Constants, pin' = [p \in Pins |-> pin'[p]], down' = [p \in Pins |-> down'[p]],
           got' = [p \in Pins |-> got'[p]],
           \A p \in Pins : /\ app' \in AppState /\ flt' \in FltState /\ FilterInv(app', flt')
                           /\ pin'[p] \in PinState /\ down'[p] \in DownState /\ got'[p] \in GotState
                           /\ PinInv(app', flt', pin'[p], down'[p], got'[p], p)
    PROVE  IInv'
  <1>1. 1 \in Pins
    BY DEF Constants, Pins
  <1>2. app' \in AppState /\ flt' \in FltState /\ FilterInv(app', flt')
    BY <1>1
  <1>3. pin' \in [Pins -> PinState] /\ down' \in [Pins -> DownState] /\ got' \in [Pins -> GotState]
    BY Zenon
  <1> QED BY <1>2, <1>3 DEF IInv, Typed

LEMMA Functions ==
    ASSUME IInv
    PROVE  /\ app \in AppState /\ flt \in FltState
           /\ pin = [p \in Pins |-> pin[p]] /\ down = [p \in Pins |-> down[p]] /\ got = [p \in Pins |-> got[p]]
           /\ \A p \in Pins : pin[p] \in PinState /\ down[p] \in DownState /\ got[p] \in GotState
  BY DEF IInv, Typed

(* A step of a pin's thread.                                                  *)
LEMMA PinStep ==
    ASSUME Constants, IInv, NEW q \in Pins, UNCHANGED <<app, flt>>,
           NEW s \in PinState, NEW e \in DownState, NEW k \in GotState,
           pin' = [pin EXCEPT ![q] = s], down' = [down EXCEPT ![q] = e], got' = [got EXCEPT ![q] = k],
           PinInv(app, flt, s, e, k, q)
    PROVE  IInv'
  <1>1. /\ app' \in AppState /\ flt' \in FltState /\ FilterInv(app', flt')
        /\ pin' \in [Pins -> PinState] /\ down' \in [Pins -> DownState] /\ got' \in [Pins -> GotState]
    BY DEF IInv, Typed
  <1>2. ASSUME NEW p \in Pins PROVE PinInv(app', flt', pin'[p], down'[p], got'[p], p)
    <2>1. CASE p = q
      BY <2>1 DEF IInv, Typed
    <2>2. CASE p # q
      <3>1. pin'[p] = pin[p] /\ down'[p] = down[p] /\ got'[p] = got[p]
        BY <2>2 DEF IInv, Typed
      <3> QED BY <3>1 DEF IInv
    <2> QED BY <2>1, <2>2
  <1> QED BY <1>1, <1>2 DEF IInv, Typed

LEMMA PinThreadKeeps ==
    ASSUME Constants, IInv, NEW q \in Pins, PinThread(q) \/ Accept(q) \/ Refuse(q)
    PROVE  IInv'
  <1> DEFINE r == pin[q]
             d == down[q]
             g == got[q]
  <1>1. Possible(app, flt, r, d, g, q)
    BY Parts
  <1>2. r \in PinState /\ d \in DownState /\ g \in GotState
    BY Functions
  <1>3. down = [down EXCEPT ![q] = d] /\ got = [got EXCEPT ![q] = g] /\ pin = [pin EXCEPT ![q] = r]
    BY Functions
  <1> HIDE DEF r, d, g
  <1>4. CASE StartPin(q)
    <2> DEFINE s == [r EXCEPT !.ok = TRUE, !.flushing = FALSE, !.flushed = FALSE, !.end = TRUE, !.pc = "restart"]
               k == [g EXCEPT !.late = @ \/ r.flushing]
    <2>1. r.pc = "init" /\ pin' = [pin EXCEPT ![q] = s] /\ down' = down /\ UNCHANGED <<app, flt>>
      BY <1>4 DEF StartPin, SetPin, r
    <2>2. got' = [got EXCEPT ![q] = k]
      BY <1>4 DEF StartPin, r, g
    <2> HIDE DEF s, k
    <2>3. PinInv(app, flt, s, d, k, q) /\ s \in PinState /\ k \in GotState
      <3>1. s = [r EXCEPT !.ok = TRUE, !.flushing = FALSE, !.flushed = FALSE, !.end = TRUE, !.pc = "restart"]
            /\ k = [g EXCEPT !.late = @ \/ r.flushing]
        BY DEF s, k
      <3> QED BY ONLY Constants, q \in Pins, <1>1, <2>1, <3>1, StartPinKeeps
    <2> QED BY <1>2, <1>3, <2>1, <2>2, <2>3, PinStep
  <1>5. CASE Restart(q)
    <2> DEFINE s == [r EXCEPT !.pc = "loop"]
               e == IF d = "flushing" THEN "open" ELSE d
    <2>1. r.pc = "restart" /\ pin' = [pin EXCEPT ![q] = s] /\ got' = got /\ UNCHANGED <<app, flt>>
      BY <1>5 DEF Restart, SetPin, r
    <2>2. down' = [down EXCEPT ![q] = e]
      BY <1>5 DEF Restart, d
    <2> HIDE DEF s, e
    <2>3. PinInv(app, flt, s, e, g, q) /\ s \in PinState /\ e \in DownState
      <3>1. s = [r EXCEPT !.pc = "loop"] /\ e = IF d = "flushing" THEN "open" ELSE d
        BY DEF s, e
      <3> QED BY ONLY Constants, q \in Pins, <1>1, <2>1, <3>1, RestartKeeps
    <2> QED BY <1>2, <1>3, <2>1, <2>2, <2>3, PinStep
  <1>6. CASE LeavePin(q)
    <2> DEFINE s == [r EXCEPT !.pc = "none", !.send = FALSE, !.done = TRUE]
    <2>1. r.pc = "loop" /\ r.send /\ pin' = [pin EXCEPT ![q] = s] /\ UNCHANGED <<app, flt, down, got>>
      BY <1>6 DEF LeavePin, SetPin, r
    <2> HIDE DEF s
    <2>2. PinInv(app, flt, s, d, g, q) /\ s \in PinState
      BY <1>1, <2>1, LeavePinKeeps DEF s
    <2> QED BY <1>2, <1>3, <2>1, <2>2, PinStep
  <1>7. CASE Pop(q)
    <2> DEFINE s == IF r.queue = <<>> THEN [r EXCEPT !.pc = "loop"]
                    ELSE [r EXCEPT !.item = Head(r.queue), !.queue = Tail(@), !.more = Len(r.queue) > 1, !.pc = "got"]
    <2>1. r.pc \in {"pop", "loop"} /\ pin' = [pin EXCEPT ![q] = s] /\ UNCHANGED <<app, flt, down, got>>
      BY <1>7 DEF Pop, SetPin, r
    <2>2. r.queue = <<>> => r.pc = "pop"
      BY <1>7 DEF Pop, r
    <2>3. PinInv(app, flt, s, d, g, q) /\ s \in PinState
      <3>1. CASE r.queue = <<>>
        <4>1. s = [r EXCEPT !.pc = "loop"]
          BY <3>1
        <4> HIDE DEF s
        <4> QED BY <1>1, <2>2, <3>1, <4>1, PopNothingKeeps
      <3>2. CASE r.queue # <<>>
        <4>1. s = [r EXCEPT !.item = Head(r.queue), !.queue = Tail(@), !.more = Len(r.queue) > 1, !.pc = "got"]
          BY <3>2
        <4> HIDE DEF s
        <4> QED BY ONLY Constants, q \in Pins, <1>1, <2>1, <3>2, <4>1, PopKeeps
      <3> QED BY <3>1, <3>2
    <2> HIDE DEF s
    <2> QED BY <1>2, <1>3, <2>1, <2>3, PinStep
  <1>8. CASE CheckDeliver(q)
    <2> DEFINE s == IF r.ok THEN [r EXCEPT !.flushed = FALSE, !.pc = "deliver"] ELSE After(r)
    <2>1. r.pc = "got" /\ pin' = [pin EXCEPT ![q] = s] /\ UNCHANGED <<app, flt, down, got>>
      BY <1>8 DEF CheckDeliver, SetPin, r
    <2> HIDE DEF s
    <2>2. PinInv(app, flt, s, d, g, q) /\ s \in PinState
      BY <1>1, <2>1, CheckDeliverKeeps DEF s
    <2> QED BY <1>2, <1>3, <2>1, <2>2, PinStep
  <1>9. CASE Accept(q)
    <2> DEFINE s == [r EXCEPT !.pc = "wait", !.failed = "no"]
               k == IF g.open /\ r.item = Eos THEN [g EXCEPT !.eos = TRUE]
                    ELSE IF g.open /\ r.item.pass = g.pass THEN [g EXCEPT !.run = Append(@, r.item.nr)]
                    ELSE [g EXCEPT !.stale = @ + 1]
    <2>1. r.pc = "deliver" /\ d = "open" /\ pin' = [pin EXCEPT ![q] = s] /\ down' = down /\ UNCHANGED <<app, flt>>
      BY <1>9 DEF Accept, SetPin, r, d
    <2>2. got' = [got EXCEPT ![q] = k]
      BY <1>9 DEF Accept, r, g
    <2> HIDE DEF s, k
    <2>3. PinInv(app, flt, s, d, k, q) /\ s \in PinState /\ k \in GotState
      <3>1. s = [r EXCEPT !.pc = "wait", !.failed = "no"]
            /\ k = IF g.open /\ r.item = Eos THEN [g EXCEPT !.eos = TRUE]
                   ELSE IF g.open /\ r.item.pass = g.pass THEN [g EXCEPT !.run = Append(@, r.item.nr)]
                   ELSE [g EXCEPT !.stale = @ + 1]
        BY DEF s, k
      <3> QED BY ONLY Constants, q \in Pins, <1>1, <2>1, <3>1, AcceptKeeps
    <2> QED BY <1>2, <1>3, <2>1, <2>2, <2>3, PinStep
  <1>10. CASE Refuse(q)
    <2> DEFINE w == IF d = "flushing" THEN "flush" ELSE "error"
               s == [r EXCEPT !.pc = "wait", !.failed = w]
    <2>1. r.pc = "deliver" /\ pin' = [pin EXCEPT ![q] = s] /\ UNCHANGED <<app, flt, down, got>>
      BY <1>10 DEF Refuse, SetPin, r, d
    <2>2. w \in {"flush", "error"}
      OBVIOUS
    <2> HIDE DEF w, s
    <2>3. PinInv(app, flt, s, d, g, q) /\ s \in PinState
      BY <1>1, <2>1, <2>2, RefuseKeeps DEF s
    <2> QED BY <1>2, <1>3, <2>1, <2>3, PinStep
  <1>11. CASE WaitEndFlush(q)
    <2> DEFINE s == [r EXCEPT !.pc = "judge"]
    <2>1. r.pc = "wait" /\ r.end /\ pin' = [pin EXCEPT ![q] = s] /\ UNCHANGED <<app, flt, down, got>>
      BY <1>11 DEF WaitEndFlush, SetPin, r
    <2> HIDE DEF s
    <2>2. PinInv(app, flt, s, d, g, q) /\ s \in PinState
      BY <1>1, <2>1, WaitEndFlushKeeps DEF s
    <2> QED BY <1>2, <1>3, <2>1, <2>2, PinStep
  <1>12. CASE Judge(q)
    <2> DEFINE s == IF r.failed # "no" /\ ~r.flushed THEN [r EXCEPT !.pc = "report"] ELSE After(r)
    <2>1. r.pc = "judge" /\ pin' = [pin EXCEPT ![q] = s] /\ UNCHANGED <<app, flt, down, got>>
      BY <1>12 DEF Judge, SetPin, r
    <2> HIDE DEF s
    <2>2. PinInv(app, flt, s, d, g, q) /\ s \in PinState
      BY <1>1, <2>1, JudgeKeeps DEF s
    <2> QED BY <1>2, <1>3, <2>1, <2>2, PinStep
  <1>13. CASE Report(q)
    <2> DEFINE s == [After(r) EXCEPT !.ok = FALSE, !.pc = "loop"]
    <2>1. r.pc = "report" /\ pin' = [pin EXCEPT ![q] = s] /\ UNCHANGED <<app, flt, down, got>>
      BY <1>13 DEF Report, SetPin, r
    <2> HIDE DEF s
    <2>2. PinInv(app, flt, s, d, g, q) /\ s \in PinState
      BY <1>1, <2>1, ReportKeeps DEF s
    <2> QED BY <1>2, <1>3, <2>1, <2>2, PinStep
  <1>14. StartPin(q) \/ Restart(q) \/ LeavePin(q) \/ Pop(q) \/ CheckDeliver(q) \/ Refuse(q)
         \/ WaitEndFlush(q) \/ Judge(q) \/ Report(q) \/ Accept(q)
    BY DEF PinThread
  <1> QED BY <1>4, <1>5, <1>6, <1>7, <1>8, <1>9, <1>10, <1>11, <1>12, <1>13, <1>14

(* A step of the filter's thread that moves nothing else.                     *)
LEMMA FilterStep ==
    ASSUME Constants, IInv, UNCHANGED <<app, pin, down, got>>,
           \A p \in Pins : /\ PinInv(app, flt', pin[p], down[p], got[p], p)
                           /\ FilterInv(app, flt') /\ flt' \in FltState
    PROVE  IInv'
  <1>1. ASSUME NEW p \in Pins
        PROVE  /\ app' \in AppState /\ flt' \in FltState /\ FilterInv(app', flt')
               /\ pin'[p] \in PinState /\ down'[p] \in DownState /\ got'[p] \in GotState
               /\ PinInv(app', flt', pin'[p], down'[p], got'[p], p)
    BY Functions
  <1>2. pin' = [p \in Pins |-> pin'[p]] /\ down' = [p \in Pins |-> down'[p]] /\ got' = [p \in Pins |-> got'[p]]
    BY Functions
  <1> QED BY <1>1, <1>2, Together

LEMMA FilterThreadKeeps ==
    ASSUME Constants, IInv, FilterThread
    PROVE  IInv'
  <1>1. CASE StartFilter
    <2>1. /\ flt.pc = "init" /\ UNCHANGED <<app, pin, down, got>>
          /\ flt' = [flt EXCEPT !.end = TRUE, !.flushing = FALSE, !.pc = "seek"]
      BY <1>1 DEF StartFilter
    <2>2. ASSUME NEW p \in Pins
          PROVE  PinInv(app, flt', pin[p], down[p], got[p], p) /\ FilterInv(app, flt') /\ flt' \in FltState
      <3>1. Possible(app, flt, pin[p], down[p], got[p], p)
        BY Parts
      <3> QED BY ONLY Constants, p \in Pins, <2>1, <3>1, StartFilterKeeps
    <2> QED BY <2>1, <2>2, FilterStep
  <1>2. CASE DemuxSeek
    <2>1. /\ flt.pc = "seek" /\ UNCHANGED <<app, pin, down, got>>
          /\ flt' = [flt EXCEPT !.pass = @ + 1, !.read = [q \in Pins |-> 0], !.pc = "wait"]
      BY <1>2 DEF DemuxSeek
    <2>2. ASSUME NEW p \in Pins
          PROVE  PinInv(app, flt', pin[p], down[p], got[p], p) /\ FilterInv(app, flt') /\ flt' \in FltState
      <3>1. Possible(app, flt, pin[p], down[p], got[p], p)
        BY Parts
      <3>2. app \in AppState
        BY Functions
      <3> QED BY ONLY Constants, p \in Pins, <2>1, <3>1, <3>2, DemuxSeekKeeps
    <2> QED BY <2>1, <2>2, FilterStep
  <1>3. CASE Reposition
    <2>1. /\ flt.pc = "idle" /\ flt.send = "seek" /\ UNCHANGED <<app, pin, down, got>>
          /\ flt' = [flt EXCEPT !.pass = @ + 1, !.read = [q \in Pins |-> 0], !.pc = "wait", !.send = "none",
                             !.done = TRUE]
      BY <1>3 DEF Reposition
    <2>2. ASSUME NEW p \in Pins
          PROVE  PinInv(app, flt', pin[p], down[p], got[p], p) /\ FilterInv(app, flt') /\ flt' \in FltState
      <3>1. Possible(app, flt, pin[p], down[p], got[p], p)
        BY Parts
      <3> QED BY ONLY Constants, p \in Pins, <2>1, <3>1, RepositionKeeps
    <2> QED BY <2>1, <2>2, FilterStep
  <1>4. CASE ExitFilter
    <2>1. /\ flt.pc = "idle" /\ flt.send = "exit" /\ UNCHANGED <<app, pin, down, got>>
          /\ flt' = [flt EXCEPT !.pc = "none", !.send = "none", !.done = TRUE]
      BY <1>4 DEF ExitFilter
    <2>2. ASSUME NEW p \in Pins
          PROVE  PinInv(app, flt', pin[p], down[p], got[p], p) /\ FilterInv(app, flt') /\ flt' \in FltState
      <3>1. Possible(app, flt, pin[p], down[p], got[p], p)
        BY Parts
      <3> QED BY ONLY Constants, p \in Pins, <2>1, <3>1, ExitFilterKeeps
    <2> QED BY <2>1, <2>2, FilterStep
  <1>5. CASE WaitForEnd
    <2>1. /\ flt.pc = "wait" /\ flt.end /\ UNCHANGED <<app, pin, down, got>>
          /\ flt' = [flt EXCEPT !.end = FALSE, !.active = {}, !.todo = Pins, !.pc = "segment"]
      BY <1>5 DEF WaitForEnd
    <2>2. ASSUME NEW p \in Pins
          PROVE  PinInv(app, flt', pin[p], down[p], got[p], p) /\ FilterInv(app, flt') /\ flt' \in FltState
      <3>1. Possible(app, flt, pin[p], down[p], got[p], p)
        BY Parts
      <3> QED BY ONLY Constants, p \in Pins, <2>1, <3>1, WaitForEndKeeps
    <2> QED BY <2>1, <2>2, FilterStep
  <1>6. CASE Segmented
    <2>1. /\ flt.pc = "segment" /\ UNCHANGED <<app, pin, down, got>>
          /\ flt' = [flt EXCEPT !.pc = "demux"]
      BY <1>6 DEF Segmented
    <2>2. ASSUME NEW p \in Pins
          PROVE  PinInv(app, flt', pin[p], down[p], got[p], p) /\ FilterInv(app, flt') /\ flt' \in FltState
      <3>1. Possible(app, flt, pin[p], down[p], got[p], p)
        BY Parts
      <3> QED BY ONLY Constants, p \in Pins, <2>1, <3>1, SegmentedKeeps
    <2> QED BY <2>1, <2>2, FilterStep
  <1>7. CASE DemuxEnds
    <2>1. /\ flt.pc = "demux" /\ UNCHANGED <<app, pin, down, got>>
          /\ flt' = [flt EXCEPT !.pc = "eos", !.todo = flt.active]
      BY <1>7 DEF DemuxEnds
    <2>2. ASSUME NEW p \in Pins
          PROVE  PinInv(app, flt', pin[p], down[p], got[p], p) /\ FilterInv(app, flt') /\ flt' \in FltState
      <3>1. Possible(app, flt, pin[p], down[p], got[p], p)
        BY Parts
      <3> QED BY ONLY Constants, p \in Pins, <2>1, <3>1, DemuxEndsKeeps
    <2> QED BY <2>1, <2>2, FilterStep
  <1>8. CASE GetRequest
    <2>1. /\ flt.pc = "eos" /\ UNCHANGED <<app, pin, down, got>>
          /\ flt' = [flt EXCEPT !.pc = "idle"]
      BY <1>8 DEF GetRequest
    <2>2. ASSUME NEW p \in Pins
          PROVE  PinInv(app, flt', pin[p], down[p], got[p], p) /\ FilterInv(app, flt') /\ flt' \in FltState
      <3>1. Possible(app, flt, pin[p], down[p], got[p], p)
        BY Parts
      <3> QED BY ONLY Constants, p \in Pins, <2>1, <3>1, GetRequestKeeps
    <2> QED BY <2>1, <2>2, FilterStep
  <1>9. ASSUME NEW q \in Pins, Demux(q) PROVE IInv'
    <2> DEFINE n == flt.read[q] + 1
    <2>1. /\ flt.pc = "demux" /\ flt.read[q] < Packets /\ UNCHANGED <<app, pin, down, got>>
          /\ flt' = IF q \in flt.active
                    THEN [flt EXCEPT !.read[q] = n, !.to = q, !.item = [pass |-> flt.pass, nr |-> n], !.pc = "queue"]
                    ELSE [flt EXCEPT !.read[q] = n]
      BY <1>9 DEF Demux
    <2>2. n = flt.read[q] + 1
      OBVIOUS
    <2> HIDE DEF n
    <2>3. ASSUME NEW p \in Pins
          PROVE  PinInv(app, flt', pin[p], down[p], got[p], p) /\ FilterInv(app, flt') /\ flt' \in FltState
      <3>1. Possible(app, flt, pin[p], down[p], got[p], p)
        BY Parts
      <3> QED BY ONLY Constants, p \in Pins, q \in Pins, <2>1, <2>2, <3>1, DemuxKeeps
    <2> QED BY <2>1, <2>3, FilterStep
  <1>10. ASSUME NEW q \in Pins, QueueEndOfStream(q) PROVE IInv'
    <2>1. /\ flt.pc = "eos" /\ q \in flt.todo /\ UNCHANGED <<app, pin, down, got>>
          /\ flt' = [flt EXCEPT !.todo = @ \ {q}, !.to = q, !.item = Eos, !.pc = "queue"]
      BY <1>10 DEF QueueEndOfStream
    <2>2. ASSUME NEW p \in Pins
          PROVE  PinInv(app, flt', pin[p], down[p], got[p], p) /\ FilterInv(app, flt') /\ flt' \in FltState
      <3>1. Possible(app, flt, pin[p], down[p], got[p], p)
        BY Parts
      <3> QED BY ONLY Constants, p \in Pins, q \in Pins, <2>1, <3>1, QueueEndOfStreamKeeps
    <2> QED BY <2>1, <2>2, FilterStep
  <1>11. ASSUME NEW q \in Pins, NewSegment(q) PROVE IInv'
    <2>1. /\ flt.pc = "segment" /\ ~flt.flushing /\ q \in flt.todo /\ UNCHANGED <<app, pin, down>>
          /\ flt' = [flt EXCEPT !.active = @ \cup {q}, !.todo = @ \ {q}]
      BY <1>11 DEF NewSegment
    <2>2. got' = [p \in Pins |-> got'[p]]
          /\ \A p \in Pins : got'[p] = IF q # p \/ pin[p].flushing THEN got[p]
                                       ELSE [got[p] EXCEPT !.pass = flt.pass, !.run = <<>>, !.eos = FALSE, !.open = TRUE]
      <3>1. CASE pin[q].flushing
        <4>1. got' = got
          BY <1>11, <3>1 DEF NewSegment
        <4> QED BY <3>1, <4>1, Functions
      <3>2. CASE ~pin[q].flushing
        <4>1. got' = [got EXCEPT ![q] = [got[q] EXCEPT !.pass = flt.pass, !.run = <<>>, !.eos = FALSE, !.open = TRUE]]
          BY <1>11, <3>2, Functions DEF NewSegment
        <4> QED BY <3>2, <4>1, Functions
      <3> QED BY <3>1, <3>2
    <2>3. ASSUME NEW p \in Pins
          PROVE  /\ PinInv(app, flt', pin[p], down[p], got'[p], p) /\ FilterInv(app, flt') /\ flt' \in FltState
                 /\ got'[p] \in GotState
      <3>1. Possible(app, flt, pin[p], down[p], got[p], p)
        BY Parts
      <3>2. got'[p] = IF q # p \/ pin[p].flushing THEN got[p]
                      ELSE [got[p] EXCEPT !.pass = flt.pass, !.run = <<>>, !.eos = FALSE, !.open = TRUE]
        BY <2>2
      <3>3. CASE q # p \/ pin[p].flushing
        <4>1. got'[p] = got[p] /\ got[p] \in GotState
          BY <3>2, <3>3, Functions
        <4>2. PinInv(app, flt', pin[p], down[p], got[p], p) /\ FilterInv(app, flt') /\ flt' \in FltState
          BY ONLY Constants, p \in Pins, q \in Pins, <2>1, <3>1, <3>3, NewSegmentOthers
        <4> QED BY <4>1, <4>2
      <3>4. CASE q = p /\ ~pin[p].flushing
        <4> DEFINE r == pin[p]
                   d == down[p]
                   g == got[p]
                   e == got'[p]
                   h == flt'
        <4>1. /\ Possible(app, flt, r, d, g, p) /\ flt.pc = "segment" /\ ~flt.flushing /\ p \in flt.todo
              /\ h = [flt EXCEPT !.active = @ \cup {p}, !.todo = @ \ {p}] /\ ~r.flushing
              /\ e = [g EXCEPT !.pass = flt.pass, !.run = <<>>, !.eos = FALSE, !.open = TRUE]
          BY <2>1, <3>1, <3>2, <3>4
        <4> HIDE DEF r, d, g, e, h
        <4>2. PinInv(app, h, r, d, e, p) /\ FilterInv(app, h) /\ h \in FltState /\ e \in GotState
          BY ONLY Constants, p \in Pins, <4>1, NewSegmentKeeps
        <4> QED BY <4>2 DEF r, d, g, e, h
      <3> QED BY <3>3, <3>4
    <2>4. ASSUME NEW p \in Pins
          PROVE  /\ app' \in AppState /\ flt' \in FltState /\ FilterInv(app', flt')
                 /\ pin'[p] \in PinState /\ down'[p] \in DownState /\ got'[p] \in GotState
                 /\ PinInv(app', flt', pin'[p], down'[p], got'[p], p)
      BY <2>1, <2>3, Functions
    <2>5. pin' = [p \in Pins |-> pin'[p]] /\ down' = [p \in Pins |-> down'[p]]
      BY <2>1, Functions
    <2> QED BY <2>2, <2>4, <2>5, Together
  <1>12. CASE QueuePacket
    <2> DEFINE to == flt.to
    <2>1. to \in Pins /\ pin[to].ok \in BOOLEAN
      BY Functions DEF FltState, PinState
    <2>2. /\ flt.pc = "queue" /\ UNCHANGED <<app, pin, down>>
          /\ flt' = IF pin[to].ok THEN [flt EXCEPT !.pc = "add"] ELSE Leaves(flt, TRUE)
          /\ got' = [got EXCEPT ![to].late = @ \/ (pin[to].pc = "init" /\ ~pin[to].ok)]
      BY <1>12 DEF QueuePacket, Queued, Leaves
    <2>3. ~pin[to].ok \/ Len(pin[to].queue) <= 2 * QueueMax
      <3>1. ~pin[to].ok \/ ~Full(to)
        BY <1>12 DEF QueuePacket
      <3>2. Len(pin[to].queue) \in Nat /\ QueueMax \in Nat
        BY <2>1, Functions, QueueFacts DEF Constants
      <3>3. ~Full(to) => Len(pin[to].queue) <= 2 * QueueMax
        BY <3>2 DEF Full
      <3> QED BY <3>1, <3>3
    <2>4. got' = [p \in Pins |-> got'[p]]
          /\ \A p \in Pins : got'[p] = IF p = to THEN [got[p] EXCEPT !.late = @ \/ (pin[p].pc = "init" /\ ~pin[p].ok)]
                                       ELSE got[p]
      BY <2>1, <2>2, Functions
    <2> HIDE DEF to
    <2>5. ASSUME NEW p \in Pins
          PROVE  /\ PinInv(app, flt', pin[p], down[p], got'[p], p) /\ FilterInv(app, flt') /\ flt' \in FltState
                 /\ got'[p] \in GotState
      <3>1. Possible(app, flt, pin[p], down[p], got[p], p)
        BY Parts
      <3>2. CASE p = to
        <4>1. /\ flt' = IF pin[p].ok THEN [flt EXCEPT !.pc = "add"] ELSE Leaves(flt, TRUE)
              /\ got'[p] = [got[p] EXCEPT !.late = @ \/ (pin[p].pc = "init" /\ ~pin[p].ok)]
              /\ ~pin[p].ok \/ Len(pin[p].queue) <= 2 * QueueMax
              /\ flt.pc = "queue" /\ p = flt.to
          BY <2>2, <2>3, <2>4, <3>2 DEF to
        <4> DEFINE r == pin[p]
                   d == down[p]
                   g == got[p]
                   e == got'[p]
                   h == flt'
        <4>2. Possible(app, flt, r, d, g, p) /\ OffersPacket(flt, r, g, p, h, e)
          BY <3>1, <4>1 DEF OffersPacket
        <4> HIDE DEF r, d, g, e, h
        <4>3. PinInv(app, h, r, d, e, p) /\ FilterInv(app, h) /\ h \in FltState /\ e \in GotState
          BY ONLY Constants, p \in Pins, <4>2, QueuePacketKeeps
        <4> QED BY <4>3 DEF r, d, g, e, h
      <3>3. CASE p # to
        <4>1. got'[p] = got[p] /\ got[p] \in GotState
          BY <2>4, <3>3, Functions
        <4>2. PinInv(app, flt', pin[p], down[p], got[p], p) /\ FilterInv(app, flt') /\ flt' \in FltState
          <5>1. flt.pc = "queue" /\ p # flt.to /\ pin[to].ok \in BOOLEAN
                /\ flt' = IF pin[to].ok THEN [flt EXCEPT !.pc = "add"] ELSE Leaves(flt, TRUE)
            BY <2>1, <2>2, <3>3 DEF to
          <5> QED BY ONLY Constants, p \in Pins, <3>1, <5>1, QueuePacketOthers
        <4> QED BY <4>1, <4>2
      <3> QED BY <3>2, <3>3
    <2>6. ASSUME NEW p \in Pins
          PROVE  /\ app' \in AppState /\ flt' \in FltState /\ FilterInv(app', flt')
                 /\ pin'[p] \in PinState /\ down'[p] \in DownState /\ got'[p] \in GotState
                 /\ PinInv(app', flt', pin'[p], down'[p], got'[p], p)
      BY <2>2, <2>5, Functions
    <2>7. pin' = [p \in Pins |-> pin'[p]] /\ down' = [p \in Pins |-> down'[p]]
      BY <2>2, Functions
    <2> QED BY <2>4, <2>6, <2>7, Together
  <1>13. CASE Add
    <2> DEFINE to == flt.to
    <2>1. to \in Pins /\ (~pin[to].ok) \in BOOLEAN
      BY Functions DEF FltState
    <2>2. /\ flt.pc = "add" /\ UNCHANGED <<app, down, got>> /\ flt' = Leaves(flt, ~pin[to].ok)
          /\ pin' = [pin EXCEPT ![to] = [pin[to] EXCEPT !.queue = Append(@, flt.item)]]
      BY <1>13 DEF Add, Queued, Leaves, SetPin
    <2>3. pin' = [p \in Pins |-> pin'[p]]
          /\ \A p \in Pins : pin'[p] = IF p = to THEN [pin[p] EXCEPT !.queue = Append(@, flt.item)] ELSE pin[p]
      BY <2>1, <2>2, Functions
    <2> HIDE DEF to
    <2>4. ASSUME NEW p \in Pins
          PROVE  /\ PinInv(app, flt', pin'[p], down[p], got[p], p) /\ FilterInv(app, flt') /\ flt' \in FltState
                 /\ pin'[p] \in PinState
      <3>1. Possible(app, flt, pin[p], down[p], got[p], p)
        BY Parts
      <3>2. CASE p = to
        <4>1. /\ flt.pc = "add" /\ p = flt.to /\ flt' = Leaves(flt, ~pin[p].ok)
              /\ pin'[p] = [pin[p] EXCEPT !.queue = Append(@, flt.item)]
          BY <2>2, <2>3, <3>2 DEF to
        <4> DEFINE r == pin[p]
                   d == down[p]
                   g == got[p]
                   s == pin'[p]
                   h == flt'
        <4>2. Possible(app, flt, r, d, g, p) /\ flt.pc = "add" /\ p = flt.to /\ h = Leaves(flt, ~r.ok)
              /\ s = [r EXCEPT !.queue = Append(@, flt.item)]
          BY <3>1, <4>1
        <4> HIDE DEF r, d, g, s, h
        <4>3. PinInv(app, h, s, d, g, p) /\ s \in PinState /\ FilterInv(app, h) /\ h \in FltState
          BY ONLY Constants, p \in Pins, <4>2, AddKeeps
        <4> QED BY <4>3 DEF r, d, g, s, h
      <3>3. CASE p # to
        <4>1. pin'[p] = pin[p] /\ pin[p] \in PinState
          BY <2>3, <3>3, Functions
        <4>2. PinInv(app, flt', pin[p], down[p], got[p], p) /\ FilterInv(app, flt') /\ flt' \in FltState
          <5>1. flt.pc \in {"queue", "add"} /\ p # flt.to /\ (~pin[to].ok) \in BOOLEAN
                /\ flt' = Leaves(flt, ~pin[to].ok)
            BY <2>1, <2>2, <3>3 DEF to
          <5> QED BY ONLY Constants, p \in Pins, <3>1, <5>1, LeavesOthers
        <4> QED BY <4>1, <4>2
      <3> QED BY <3>2, <3>3
    <2>5. ASSUME NEW p \in Pins
          PROVE  /\ app' \in AppState /\ flt' \in FltState /\ FilterInv(app', flt')
                 /\ pin'[p] \in PinState /\ down'[p] \in DownState /\ got'[p] \in GotState
                 /\ PinInv(app', flt', pin'[p], down'[p], got'[p], p)
      BY <2>2, <2>4, Functions
    <2>6. down' = [p \in Pins |-> down'[p]] /\ got' = [p \in Pins |-> got'[p]]
      BY <2>2, Functions
    <2> QED BY <2>3, <2>5, <2>6, Together
  <1> QED BY <1>1, <1>2, <1>3, <1>4, <1>5, <1>6, <1>7, <1>8, <1>9, <1>10, <1>11, <1>12, <1>13 DEF FilterThread

LEMMA AppKeeps ==
    ASSUME Constants, IInv, Pause \/ Seek \/ Stop \/ AppStep
    PROVE  IInv'
  <1> DEFINE Good(p) == /\ app' \in AppState /\ flt' \in FltState /\ FilterInv(app', flt')
                        /\ pin'[p] \in PinState /\ down'[p] \in DownState /\ got'[p] \in GotState
                        /\ PinInv(app', flt', pin'[p], down'[p], got'[p], p)
  <1>1. CASE Pause
    <2>1. /\ app.pc = "idle" /\ flt.pc = "none" /\ flt' = [flt EXCEPT !.pc = "init"] /\ UNCHANGED <<app, got>>
          /\ pin' = [p \in Pins |-> [pin[p] EXCEPT !.pc = "init"]] /\ down' = [p \in Pins |-> "open"]
      BY <1>1 DEF Pause
    <2>2. ASSUME NEW p \in Pins PROVE Good(p)
      <3> DEFINE r == pin[p]
                 d == down[p]
                 g == got[p]
                 s == pin'[p]
                 h == flt'
      <3>1. Possible(app, flt, r, d, g, p) /\ h = [flt EXCEPT !.pc = "init"] /\ s = [r EXCEPT !.pc = "init"]
        BY <2>1, Parts
      <3> HIDE DEF r, d, g, s, h
      <3>2. PinInv(app, h, s, "open", g, p) /\ s \in PinState /\ FilterInv(app, h) /\ h \in FltState
        BY ONLY Constants, p \in Pins, <2>1, <3>1, PauseKeeps
      <3>3. "open" \in DownState
        BY DEF DownState
      <3> QED BY <2>1, <3>2, <3>3, Functions DEF r, d, g, s, h
    <2>3. pin' = [p \in Pins |-> pin'[p]] /\ down' = [p \in Pins |-> down'[p]] /\ got' = [p \in Pins |-> got'[p]]
      BY <2>1, Functions
    <2> QED BY <2>2, <2>3, Together
  <1>2. CASE Seek
    <2>1. /\ app.pc = "idle" /\ app.seeks < MaxSeeks /\ UNCHANGED <<pin, down, got>>
          /\ app' = [app EXCEPT !.seeks = @ + 1, !.op = "seek", !.at = 1,
                                !.pc = IF flt.pc = "none" THEN "idle" ELSE "flags"]
          /\ flt' = [flt EXCEPT !.flushing = @ \/ flt.pc # "none"]
      BY <1>2 DEF Seek
    <2>2. app' \in AppState /\ app'.pc = (IF flt.pc = "none" THEN "idle" ELSE "flags") /\ app'.op = "seek"
          /\ app'.at = 1 /\ app'.seeks = app.seeks + 1 /\ app'.stops = app.stops
      <3>1. app \in AppState /\ 1 \in Pins /\ MaxSeeks \in Nat
        BY Functions DEF Pins, Constants
      <3>2. app.seeks + 1 \in 0 .. MaxSeeks
        BY <2>1, <3>1 DEF AppState
      <3> QED BY <2>1, <3>1, <3>2 DEF AppState
    <2>3. ASSUME NEW p \in Pins PROVE Good(p)
      <3>1. Possible(app, flt, pin[p], down[p], got[p], p)
        BY Parts
      <3>2. CASE flt.pc = "none"
        <4>1. flt' = flt
          BY <2>1, <3>2, Functions DEF FltState
        <4>2. app'.pc = "idle"
          BY <2>2, <3>2
        <4>3. PinInv(app', flt, pin[p], down[p], got[p], p) /\ FilterInv(app', flt)
          BY ONLY Constants, p \in Pins, <2>1, <2>2, <3>1, <3>2, <4>2, SeekStoppedKeeps
        <4> QED BY <2>1, <2>2, <4>1, <4>3, Functions
      <3>3. CASE flt.pc # "none"
        <4>1. flt' = [flt EXCEPT !.flushing = TRUE]
          BY <2>1, <3>3, Functions DEF FltState
        <4>2. app'.pc = "flags" /\ app'.at = 1 /\ app'.op \in {"seek", "exit"} /\ app'.op # "exit"
              /\ app'.seeks + app'.stops = app.seeks + app.stops + 1
          <5>1. app.seeks \in Nat /\ app.stops \in Nat
            BY Functions DEF AppState
          <5> QED BY <2>2, <3>3, <5>1
        <4> DEFINE d == down[p]
                   b == app'
                   h == flt'
        <4>3. /\ Possible(app, flt, pin[p], d, got[p], p) /\ app.pc = "idle" /\ flt.pc # "none"
              /\ b \in AppState /\ b.pc = "flags" /\ b.at = 1 /\ b.op \in {"seek", "exit"}
              /\ b.seeks + b.stops = app.seeks + app.stops + 1 /\ (b.op = "exit" => d = "stopped")
              /\ h = [flt EXCEPT !.flushing = TRUE]
          BY <2>1, <2>2, <3>1, <3>3, <4>1, <4>2
        <4> HIDE DEF d, b, h
        <4>4. PinInv(b, h, pin[p], d, got[p], p) /\ FilterInv(b, h) /\ h \in FltState
          BY ONLY Constants, p \in Pins, <4>3, AskKeeps
        <4> QED BY <2>1, <2>2, <4>4, Functions DEF d, b, h
      <3> QED BY <3>2, <3>3
    <2>4. pin' = [p \in Pins |-> pin'[p]] /\ down' = [p \in Pins |-> down'[p]] /\ got' = [p \in Pins |-> got'[p]]
      BY <2>1, Functions
    <2> QED BY <2>3, <2>4, Together
  <1>3. CASE Stop
    <2>1. /\ app.pc = "idle" /\ app.stops < MaxStops /\ flt.pc # "none" /\ UNCHANGED <<pin, got>>
          /\ app' = [app EXCEPT !.stops = @ + 1, !.op = "exit", !.at = 1, !.pc = "flags"]
          /\ flt' = [flt EXCEPT !.flushing = TRUE] /\ down' = [p \in Pins |-> "stopped"]
      BY <1>3 DEF Stop
    <2>2. app' \in AppState /\ app'.pc = "flags" /\ app'.op = "exit" /\ app'.at = 1
          /\ app'.seeks + app'.stops = app.seeks + app.stops + 1
      <3>1. app \in AppState /\ 1 \in Pins /\ MaxStops \in Nat /\ app.seeks \in Nat /\ app.stops \in Nat
        BY Functions DEF Pins, Constants, AppState
      <3>2. app.stops + 1 \in 0 .. MaxStops
        BY <2>1, <3>1 DEF AppState
      <3>3. app' \in AppState /\ app'.stops = app.stops + 1 /\ app'.seeks = app.seeks
            /\ app'.pc = "flags" /\ app'.op = "exit" /\ app'.at = 1
        BY <2>1, <3>1, <3>2 DEF AppState
      <3>4. \A m, n \in Nat : m + (n + 1) = m + n + 1
        OBVIOUS
      <3> QED BY <3>1, <3>3, <3>4
    <2>3. ASSUME NEW p \in Pins PROVE Good(p)
      <3>1. Possible(app, flt, pin[p], down[p], got[p], p) /\ "stopped" \in DownState
        BY Parts DEF DownState
      <3>2. app'.op \in {"seek", "exit"}
        BY <2>2
      <3> DEFINE e == down'[p]
      <3>3. e = "stopped"
        BY <2>1
      <3> HIDE DEF e
      <3>4. PinInv(app', flt', pin[p], e, got[p], p) /\ FilterInv(app', flt') /\ flt' \in FltState
        BY ONLY Constants, p \in Pins, <2>1, <2>2, <3>1, <3>2, <3>3, AskKeeps
      <3> QED BY <2>1, <2>2, <3>1, <3>3, <3>4, Functions DEF e
    <2>4. pin' = [p \in Pins |-> pin'[p]] /\ down' = [p \in Pins |-> down'[p]] /\ got' = [p \in Pins |-> got'[p]]
      BY <2>1, Functions
    <2> QED BY <2>3, <2>4, Together
  <1>4. CASE Call
    <2>1. /\ app.pc = "call" /\ UNCHANGED <<pin, down, got>>
          /\ app' = [app EXCEPT !.pc = "answer"] /\ flt' = [flt EXCEPT !.send = app.op]
      BY <1>4 DEF Call, AppGoes
    <2>2. ASSUME NEW p \in Pins PROVE Good(p)
      <3>1. Possible(app, flt, pin[p], down[p], got[p], p)
        BY Parts
      <3>2. PinInv(app', flt', pin[p], down[p], got[p], p) /\ FilterInv(app', flt')
            /\ flt' \in FltState /\ app' \in AppState
        BY ONLY Constants, p \in Pins, <2>1, <3>1, CallKeeps
      <3> QED BY <2>1, <3>2, Functions
    <2>3. pin' = [p \in Pins |-> pin'[p]] /\ down' = [p \in Pins |-> down'[p]] /\ got' = [p \in Pins |-> got'[p]]
      BY <2>1, Functions
    <2> QED BY <2>2, <2>3, Together
  <1>5. CASE Answered
    <2>1. /\ app.pc = "answer" /\ flt.done /\ UNCHANGED <<pin, down, got>>
          /\ app' = [app EXCEPT !.pc = "reopen"] /\ flt' = [flt EXCEPT !.done = FALSE]
      BY <1>5 DEF Answered, AppGoes
    <2>2. ASSUME NEW p \in Pins PROVE Good(p)
      <3>1. Possible(app, flt, pin[p], down[p], got[p], p)
        BY Parts
      <3>2. PinInv(app', flt', pin[p], down[p], got[p], p) /\ FilterInv(app', flt')
            /\ flt' \in FltState /\ app' \in AppState
        BY ONLY Constants, p \in Pins, <2>1, <3>1, AnsweredKeeps
      <3> QED BY <2>1, <3>2, Functions
    <2>3. pin' = [p \in Pins |-> pin'[p]] /\ down' = [p \in Pins |-> down'[p]] /\ got' = [p \in Pins |-> got'[p]]
      BY <2>1, Functions
    <2> QED BY <2>2, <2>3, Together
  <1>6. CASE EndFlush
    <2>1. /\ app.pc = "end" /\ UNCHANGED <<pin, down, got>>
          /\ app' = [app EXCEPT !.pc = IF app.op = "exit" THEN "exit" ELSE "idle"]
          /\ flt' = [flt EXCEPT !.flushing = FALSE, !.end = TRUE]
      BY <1>6 DEF EndFlush, AppGoes
    <2>2. ASSUME NEW p \in Pins PROVE Good(p)
      <3>1. Possible(app, flt, pin[p], down[p], got[p], p)
        BY Parts
      <3>2. EndsFlush(app, flt, app', flt') /\ app.pc = "end"
        BY <2>1 DEF EndsFlush
      <3>3. PinInv(app', flt', pin[p], down[p], got[p], p) /\ FilterInv(app', flt')
            /\ flt' \in FltState /\ app' \in AppState
        BY ONLY Constants, p \in Pins, <3>2, <3>1, EndFlushKeeps
      <3> QED BY <2>1, <3>3, Functions
    <2>3. pin' = [p \in Pins |-> pin'[p]] /\ down' = [p \in Pins |-> down'[p]] /\ got' = [p \in Pins |-> got'[p]]
      BY <2>1, Functions
    <2> QED BY <2>2, <2>3, Together
  <1>7. ASSUME NEW q \in Pins, BeginFlush(q) PROVE IInv'
    <2>1. /\ app.pc = "flags" /\ app.at = q /\ UNCHANGED <<flt, down, got>> /\ app' = [app EXCEPT !.pc = "flush"]
          /\ pin' = [pin EXCEPT ![q] = [pin[q] EXCEPT !.end = FALSE, !.flushed = FALSE, !.flushing = TRUE]]
      BY <1>7 DEF BeginFlush, SetPin, AppGoes
    <2>2. ASSUME NEW p \in Pins PROVE Good(p)
      <3> DEFINE r == pin[p]
                 d == down[p]
                 g == got[p]
                 b == app'
                 s == pin'[p]
      <3>1. Possible(app, flt, r, d, g, p) /\ b = [app EXCEPT !.pc = "flush"]
        BY <2>1, Parts
      <3>2. s = IF p = app.at THEN [r EXCEPT !.end = FALSE, !.flushed = FALSE, !.flushing = TRUE] ELSE r
        BY <2>1, Functions
      <3>3. app.pc = "flags"
        BY <2>1
      <3> HIDE DEF r, d, g, b, s
      <3>4. /\ PinInv(b, flt, s, d, g, p) /\ s \in PinState
            /\ FilterInv(b, flt) /\ b \in AppState
        BY ONLY Constants, p \in Pins, <3>1, <3>2, <3>3, BeginFlushKeeps
      <3> QED BY <2>1, <3>4, Functions DEF r, d, g, b, s
    <2>3. pin' = [p \in Pins |-> pin'[p]] /\ down' = [p \in Pins |-> down'[p]] /\ got' = [p \in Pins |-> got'[p]]
      BY <2>1, Functions
    <2> QED BY <2>2, <2>3, Together
  <1>8. ASSUME NEW q \in Pins, EmptyQueue(q) PROVE IInv'
    <2>0. PICK begun \in {TRUE, ~Errors}, flushes \in {TRUE, FALSE, ~Errors} :
            /\ pin' = [pin EXCEPT ![q] = [pin[q] EXCEPT !.ok = FALSE, !.queue = <<>>,
                                                       !.end = IF begun THEN pin[q].end ELSE TRUE]]
            /\ down' = [down EXCEPT ![q] = IF flushes /\ down[q] = "open" THEN "flushing" ELSE down[q]]
      BY <1>8 DEF EmptyQueue, SetPin
    <2>1. /\ app.pc = "flush" /\ app.at = q /\ UNCHANGED flt /\ app' = NextOf(app, "flags", "call")
          /\ got' = [got EXCEPT ![q].open = FALSE, ![q].run = <<>>, ![q].eos = FALSE, ![q].stale = 0,
                                ![q].late = ~pin[q].flushing]
      BY <1>8 DEF EmptyQueue, ForNextPin, NextOf
    <2>2. ASSUME NEW p \in Pins PROVE Good(p)
      <3> DEFINE r == pin[p]
                 d == down[p]
                 g == got[p]
                 b == app'
                 s == pin'[p]
                 e == down'[p]
                 k == got'[p]
      <3>1. Possible(app, flt, r, d, g, p) /\ b = NextOf(app, "flags", "call")
        BY <2>1, Parts
      <3>2. IF p = app.at
            THEN s \in {[r EXCEPT !.ok = FALSE, !.queue = <<>>, !.end = end] : end \in {r.end, TRUE}}
            ELSE s = r
        BY <2>0, <2>1, Functions
      <3>3. IF p = app.at THEN e \in {d, IF d = "open" THEN "flushing" ELSE d} ELSE e = d
        BY <2>0, <2>1, Functions
      <3>4. k = IF p = app.at
                THEN [g EXCEPT !.open = FALSE, !.run = <<>>, !.eos = FALSE, !.stale = 0, !.late = ~r.flushing]
                ELSE g
        BY <2>1, Functions
      <3>5. EmptiesQueue(app, r, d, g, p, b, s, e, k) /\ Possible(app, flt, r, d, g, p)
        BY <3>1, <3>2, <3>3, <3>4 DEF EmptiesQueue
      <3>6. app.pc = "flush"
        BY <2>1
      <3> HIDE DEF r, d, g, b, s, e, k
      <3>7. /\ PinInv(b, flt, s, e, k, p) /\ s \in PinState /\ e \in DownState /\ k \in GotState
            /\ FilterInv(b, flt) /\ b \in AppState
        BY ONLY Constants, p \in Pins, <3>5, <3>6, EmptyQueueKeeps
      <3> QED BY <2>1, <3>7, Functions DEF r, d, g, b, s, e, k
    <2>3. pin' = [p \in Pins |-> pin'[p]] /\ down' = [p \in Pins |-> down'[p]] /\ got' = [p \in Pins |-> got'[p]]
      BY <2>0, <2>1, Functions
    <2> QED BY <2>2, <2>3, Together
  <1>9. ASSUME NEW q \in Pins, Reopen(q) PROVE IInv'
    <2>1. /\ app.pc = "reopen" /\ app.at = q /\ UNCHANGED <<flt, got>> /\ app' = [app EXCEPT !.pc = "release"]
          /\ pin' = [pin EXCEPT ![q] = [pin[q] EXCEPT !.ok = TRUE]]
          /\ down' = [down EXCEPT ![q] = IF @ = "flushing" THEN "open" ELSE @]
      BY <1>9 DEF Reopen, SetPin, AppGoes
    <2>2. ASSUME NEW p \in Pins PROVE Good(p)
      <3> DEFINE r == pin[p]
                 d == down[p]
                 g == got[p]
                 b == app'
                 s == pin'[p]
                 e == down'[p]
      <3>1. Possible(app, flt, r, d, g, p) /\ b = [app EXCEPT !.pc = "release"]
        BY <2>1, Parts
      <3>2. s = IF p = app.at THEN [r EXCEPT !.ok = TRUE] ELSE r
        BY <2>1, Functions
      <3>3. e = IF p = app.at /\ d = "flushing" THEN "open" ELSE d
        BY <2>1, Functions
      <3>4. app.pc = "reopen"
        BY <2>1
      <3> HIDE DEF r, d, g, b, s, e
      <3>5. /\ PinInv(b, flt, s, e, g, p) /\ s \in PinState /\ e \in DownState
            /\ FilterInv(b, flt) /\ b \in AppState
        BY ONLY Constants, p \in Pins, <3>1, <3>2, <3>3, <3>4, ReopenKeeps
      <3> QED BY <2>1, <3>5, Functions DEF r, d, g, b, s, e
    <2>3. pin' = [p \in Pins |-> pin'[p]] /\ down' = [p \in Pins |-> down'[p]] /\ got' = [p \in Pins |-> got'[p]]
      BY <2>1, Functions
    <2> QED BY <2>2, <2>3, Together
  <1>10. ASSUME NEW q \in Pins, Release(q) PROVE IInv'
    <2>1. /\ app.pc = "release" /\ app.at = q /\ UNCHANGED <<flt, down, got>> /\ app' = NextOf(app, "reopen", "end")
          /\ pin' = [pin EXCEPT ![q] = [pin[q] EXCEPT !.flushing = FALSE, !.flushed = TRUE, !.end = TRUE]]
      BY <1>10 DEF Release, SetPin, ForNextPin, NextOf
    <2>2. ASSUME NEW p \in Pins PROVE Good(p)
      <3> DEFINE r == pin[p]
                 d == down[p]
                 g == got[p]
                 b == app'
                 s == pin'[p]
      <3>1. Possible(app, flt, r, d, g, p) /\ b = NextOf(app, "reopen", "end")
        BY <2>1, Parts
      <3>2. s = IF p = app.at THEN [r EXCEPT !.flushing = FALSE, !.flushed = TRUE, !.end = TRUE] ELSE r
        BY <2>1, Functions
      <3>3. app.pc = "release"
        BY <2>1
      <3> HIDE DEF r, d, g, b, s
      <3>4. /\ PinInv(b, flt, s, d, g, p) /\ s \in PinState
            /\ FilterInv(b, flt) /\ b \in AppState
        BY ONLY Constants, p \in Pins, <3>1, <3>2, <3>3, ReleaseKeeps
      <3> QED BY <2>1, <3>4, Functions DEF r, d, g, b, s
    <2>3. pin' = [p \in Pins |-> pin'[p]] /\ down' = [p \in Pins |-> down'[p]] /\ got' = [p \in Pins |-> got'[p]]
      BY <2>1, Functions
    <2> QED BY <2>2, <2>3, Together
  <1>11. ASSUME NEW q \in Pins, ExitPin(q) PROVE IInv'
    <2>1. /\ app.pc = "exit" /\ app.at = q /\ UNCHANGED <<flt, down, got>> /\ app' = [app EXCEPT !.pc = "exited"]
          /\ pin' = [pin EXCEPT ![q] = [pin[q] EXCEPT !.send = TRUE]]
      BY <1>11 DEF ExitPin, SetPin, AppGoes
    <2>2. ASSUME NEW p \in Pins PROVE Good(p)
      <3> DEFINE r == pin[p]
                 d == down[p]
                 g == got[p]
                 b == app'
                 s == pin'[p]
      <3>1. Possible(app, flt, r, d, g, p) /\ b = [app EXCEPT !.pc = "exited"]
        BY <2>1, Parts
      <3>2. s = IF p = app.at THEN [r EXCEPT !.send = TRUE] ELSE r
        BY <2>1, Functions
      <3>3. app.pc = "exit"
        BY <2>1
      <3> HIDE DEF r, d, g, b, s
      <3>4. /\ PinInv(b, flt, s, d, g, p) /\ s \in PinState
            /\ FilterInv(b, flt) /\ b \in AppState
        BY ONLY Constants, p \in Pins, <3>1, <3>2, <3>3, ExitPinKeeps
      <3> QED BY <2>1, <3>4, Functions DEF r, d, g, b, s
    <2>3. pin' = [p \in Pins |-> pin'[p]] /\ down' = [p \in Pins |-> down'[p]] /\ got' = [p \in Pins |-> got'[p]]
      BY <2>1, Functions
    <2> QED BY <2>2, <2>3, Together
  <1>12. ASSUME NEW q \in Pins, PinExited(q) PROVE IInv'
    <2>1. /\ app.pc = "exited" /\ app.at = q /\ pin[q].done /\ UNCHANGED <<flt, down, got>>
          /\ app' = NextOf(app, "exit", "idle")
          /\ pin' = [pin EXCEPT ![q] = [pin[q] EXCEPT !.done = FALSE]]
      BY <1>12 DEF PinExited, SetPin, ForNextPin, NextOf
    <2>2. ASSUME NEW p \in Pins PROVE Good(p)
      <3> DEFINE r == pin[p]
                 d == down[p]
                 g == got[p]
                 b == app'
                 s == pin'[p]
      <3>1. Possible(app, flt, r, d, g, p) /\ b = NextOf(app, "exit", "idle")
        BY <2>1, Parts
      <3>2. s = IF p = app.at THEN [r EXCEPT !.done = FALSE] ELSE r
        BY <2>1, Functions
      <3>3. p = app.at => r.done
        BY <2>1
      <3>4. app.pc = "exited"
        BY <2>1
      <3> HIDE DEF r, d, g, b, s
      <3>5. /\ PinInv(b, flt, s, d, g, p) /\ s \in PinState
            /\ FilterInv(b, flt) /\ b \in AppState
        BY ONLY Constants, p \in Pins, <3>1, <3>2, <3>3, <3>4, PinExitedKeeps
      <3> QED BY <2>1, <3>5, Functions DEF r, d, g, b, s
    <2>3. pin' = [p \in Pins |-> pin'[p]] /\ down' = [p \in Pins |-> down'[p]] /\ got' = [p \in Pins |-> got'[p]]
      BY <2>1, Functions
    <2> QED BY <2>2, <2>3, Together
  <1> QED BY <1>1, <1>2, <1>3, <1>4, <1>5, <1>6, <1>7, <1>8, <1>9, <1>10, <1>11, <1>12 DEF AppStep

-----------------------------------------------------------------------------
LEMMA InitHolds ==
    ASSUME Constants, Init
    PROVE  IInv
  <1>1. Eos \in Item /\ Eos.pass = 0 /\ 1 \in Pins /\ {MaxSeeks, MaxStops, Packets, QueueMax} \subseteq Nat
    BY ItemFacts DEF Constants, Pins
  <1>2. app \in AppState
    BY <1>1 DEF Init, AppState
  <1>3. flt \in FltState
    BY <1>1 DEF Init, FltState, Passes
  <1>4. pin \in [Pins -> PinState]
    BY <1>1 DEF Init, PinState
  <1>5. down \in [Pins -> DownState]
    BY DEF Init, DownState
  <1>6. got \in [Pins -> GotState]
    BY <1>1 DEF Init, GotState, Passes
  <1>7. FilterInv(app, flt)
    <2>1. CallInv(app, flt)
      BY DEF Init, CallInv
    <2>2. CountInv(app, flt)
      BY DEF Init, CountInv, Starting, Asked
    <2>3. ReadInv(flt)
      BY DEF Init, ReadInv
    <2> QED BY <2>1, <2>2, <2>3 DEF FilterInv
  <1>8. ASSUME NEW p \in Pins PROVE PinInv(app, flt, pin[p], down[p], got[p], p)
    <2>1. /\ pin[p].queue = <<>> /\ pin[p].item = Eos /\ pin[p].pc = "none" /\ ~pin[p].send /\ ~pin[p].done
          /\ ~pin[p].flushing /\ ~got[p].open /\ got[p].run = <<>> /\ got[p].stale = 0
          /\ app.pc = "idle" /\ flt.pc = "none" /\ flt.pass = 0
      BY DEF Init
    <2>2. PassInv(flt, pin[p], p)
      BY <1>1, <2>1 DEF PassInv
    <2>3. ExitInv(app, flt, pin[p], down[p], got[p], p)
      BY <2>1 DEF ExitInv, Stopping
    <2>4. FlushInv(app, pin[p], got[p], p) /\ ~Began(app, p) /\ ~Ahead(app, p)
      BY <2>1 DEF FlushInv, Flushing, Began, Emptied, Reopened, Ahead
    <2>5. OpenInv(app, flt, pin[p], got[p], p)
      BY <2>1 DEF OpenInv, Working
    <2>6. StaleInv(app, flt, pin[p], got[p], p)
      <3>1. HandOld(pin[p], got[p]) = 0 /\ QueueOld(pin[p], got[p]) = 0 /\ AddOld(flt, got[p], p) = 0
        BY <2>1 DEF HandOld, Hand, QueueOld, AddOld
      <3>2. Staleness(flt, pin[p], got[p], p) = 0
        BY <2>1, <3>1 DEF Staleness
      <3> QED BY <2>1, <2>4, <3>1, <3>2 DEF StaleInv, Skipped
    <2>7. RunInv(flt, pin[p], got[p], p)
      BY <2>1 DEF RunInv
    <2> QED BY <2>2, <2>3, <2>4, <2>5, <2>6, <2>7 DEF PinInv
  <1> QED BY <1>2, <1>3, <1>4, <1>5, <1>6, <1>7, <1>8 DEF IInv, Typed

LEMMA NextKeeps ==
    ASSUME Constants, IInv, [Next]_vars
    PROVE  IInv'
  <1>1. CASE Pause \/ Seek \/ Stop \/ AppStep
    BY <1>1, AppKeeps
  <1>2. CASE FilterThread
    BY <1>2, FilterThreadKeeps
  <1>3. ASSUME NEW p \in Pins, PinThread(p) \/ Accept(p) \/ Refuse(p) PROVE IInv'
    BY <1>3, PinThreadKeeps
  <1>4. CASE UNCHANGED vars
    BY <1>4 DEF vars, IInv, Typed
  <1> QED BY <1>1, <1>2, <1>3, <1>4 DEF Next

(* The invariant holds in every state (CBaseSplitterFilter::ThreadProc,       *)
(* CBaseSplitterOutputPin::ThreadProc, DeliverBeginFlush, DeliverEndFlush).   *)
THEOREM Inductive ==
    ASSUME Constants
    PROVE  Spec => []IInv
  <1>1. Init => IInv
    BY InitHolds
  <1>2. IInv /\ [Next]_vars => IInv'
    BY NextKeeps
  <1> QED BY <1>1, <1>2, PTL DEF Spec

LEMMA TypesHold == ASSUME IInv PROVE TypeOK
  <1>1. ASSUME NEW p \in Pins PROVE Len(pin[p].queue) <= 2 * QueueMax + 1
    BY DEF IInv, PinInv, PassInv
  <1> QED BY <1>1 DEF IInv, Typed, TypeOK, AppState, FltState, PinState, DownState, GotState

(* No queue grows beyond twice m_QueueMaxPackets and one packet, whatever the *)
(* other queues ask for, and everything else has its type (QueuePacket).      *)
THEOREM QueuesAreBounded ==
    ASSUME Constants
    PROVE  Spec => []TypeOK
  <1>1. IInv => TypeOK
    BY TypesHold
  <1> QED BY <1>1, Inductive, PTL

(* What is delivered of a segment is the packets read of it, from the first   *)
(* on, none left out and none twice (CBaseSplitterOutputPin::ThreadProc).     *)
THEOREM PacketsComeInOrder ==
    ASSUME Constants
    PROVE  Spec => []InOrder
  <1>1. IInv => InOrder
    BY DEF IInv, PinInv, RunInv, InOrder
  <1> QED BY <1>1, Inductive, PTL

LEMMA FewPackets == ASSUME Constants, IInv PROVE FewStale
  <1>1. ASSUME NEW p \in Pins, ~got[p].late PROVE got[p].stale <= 2
    <2>1. StaleInv(app, flt, pin[p], got[p], p)
      BY <1>1 DEF IInv, PinInv
    <2>2. flt \in FltState /\ pin[p] \in PinState /\ got[p] \in GotState /\ got[p].stale \in Nat
      BY <1>1, Functions DEF GotState
    <2>3. CASE Skipped(app, flt, got[p], p)
      BY <2>1, <2>2, <2>3 DEF StaleInv
    <2>4. CASE ~Skipped(app, flt, got[p], p)
      <3>1. Staleness(flt, pin[p], got[p], p) <= 2
        BY <2>1, <2>4 DEF StaleInv
      <3> QED BY <2>2, <3>1, Counts DEF Staleness
    <2> QED BY <2>3, <2>4
  <1> QED BY <1>1 DEF FewStale

(* A flush lets at most two packets of before it through (DeliverBeginFlush,  *)
(* QueuePacket).                                                              *)
THEOREM FewPacketsAreStale ==
    ASSUME Constants
    PROVE  Spec => []FewStale
  <1>1. IInv => FewStale
    BY FewPackets
  <1> QED BY <1>1, Inductive, PTL
================================================================================
