# TLA+ models of MPC-HC (Blu-ray fork)

This directory holds TLA+ specifications of parts of the player, the TLC
configurations that check them and TLAPS proofs about them. They cover the
places where threads, processes or files meet:

* the subtitle pipeline: a decoding thread per embedded track, a thread that renders
  subpictures ahead of the playback, the renderer that looks one up for every
  frame, and the user interface that edits subtitles under all of them;
* the splitter, whose thread feeds a queue and a thread per output pin;
* opening and closing media, between the window and the graph thread;
* Blu-ray discs: graphics drawn by a Java program, the navigator that must keep
  in step with the picture, the monitor of the drive;
* what several players keep in common files: the storage of Blu-ray discs, their
  catalogue, and the settings.

Paths below are relative to the repository; `Foo.cpp:12` is line 12 of the file.

## 1. The system

### 1.1 Components

| Component | State | Operations | Speaks to |
|---|---|---|---|
| Shared lock of the subtitle provider (`SubPic/SubPicQueueImpl.h`, `SubPicProviderImpl.cpp`) | count and mutex of each wrapper; the recursive `CMainFrame::m_csSubLock` | `Lock`, `Unlock`, replacement of the wrapper | queue thread, renderer, UI, decoder |
| Subpicture queue with a thread (`SubPicQueueImpl.cpp`, `CSubPicQueue`) | queue of subpictures, last one shown, playback time, time invalidated from, wake-up event | `SetTime`, `LookupSubPic`, `Invalidate`, `SetSubPicProvider`, the thread's passes, the destructor | presenter (calls it per frame), provider (segments and images), UI and decoder (invalidate) |
| Subpicture queue without a thread (`CSubPicQueueNoThread`) | one subpicture | the same interface, rendered at look-up | presenter |
| Presenter side (`SubPicAllocatorPresenterImpl.cpp`, allocators, `DualSubPicProvider.cpp`, Xy) | allocator, provider, queue, playback time | blending, creation and replacement of the queue | video renderers |
| Subtitle input pin (`Subtitles/SubtitleInputPin.cpp`) | queue of samples, last header, two stop flags, subtitle stream | `Receive`, `EndOfStream`, `NewSegment`, connection, the decoding thread | splitter (delivers), `TextPassThruFilter` and main frame (add, remove, invalidate a stream) |
| Blu-ray navigation (`mpc-hc/BlurayMenu.cpp`, `MainFrmBluray.cpp`, `BlurayPlaybackClock.h`) | playlist and seek asked for by the disc, seek of the user not yet passed on, completion, still; clock of the picture; planes to show | `Tick` and `TickBlurayMenu` (a timer), keys and mouse, `PlayerSeek`, `GraphComplete`, `AttachRenderer`, presentation (may re-enter) | libbluray, ARGB buffer, main frame, video renderer |
| Blu-ray ARGB buffer (`BlurayArgbBuffer.h`) | per plane: the image being drawn, the published image, ready flag; failure flag | `Apply` of init, draw, flush, close (Java thread), `Take`, `Failed` (UI) | navigation |
| Blu-ray media monitor (`BlurayMediaMonitor.h`) | the `Data` of the current disc, shared with its worker: first identity, stopped flag, wake event, first loss | `Start`, `Stop`, device change, `LossReason`; the worker's probes | main frame |
| Blu-ray disc storage (`BlurayDiscStorage.h`) and catalogue (`BlurayCatalog.h`) | per disc: generation directories and the marker that names the active one; name and alias | `Resolve`, `Reset`; `Remember`, `List`, rename | navigation, dialog of discs, other players |
| Blu-ray audio, helpers | sound player; paths and feeds | play | navigation |
| Settings (`Profile.cpp`, `mplayerc.cpp`, `AppSettings.cpp`, `PortableProfileImport.h`) | two cached INI files, each with a map, a change flag, the failure of the first read | read, write, flush, clear, the split of the history, import, `/reset` | everything, other players |
| Main frame and graph thread (`MainFrm.cpp`, `GraphThread.cpp`) | load state, "opening active", abort flag, two events, the graph | open, abort, close, posted results | everything |
| Base splitter (`BaseSplitter.cpp`) | per pin: queue, result of the last delivery, flush flags and event; of the filter: active pins, position, current pin | pause, seek, stop; the filter's thread, a thread per pin | reader (DSM), filters downstream |
| Playlist, filter graph manager, muxer, transform and switcher filters, video renderers | position and shuffle; chains of filters; interleaving; sample scheduling | | main frame, DirectShow |
| Subtitle formats and rendering, UI and themes, web server, update checker, subtitle downloads | | | |
| Vendored code (`src/src/thirdparty`) | | | |

### 1.2 What is hard, and what makes each part correct

* **Shared lock.** The first reader enters `m_csSubLock` on behalf of all, a
  later reader may be the one that leaves it, and replacing the provider creates
  a second count over the same critical section. Correct: the counts equal the
  readers, the section is held exactly as often as it should be, the decoder
  never edits what somebody reads, no two threads wait for each other.
* **Subpicture queue.** `m_rtNow`, `m_rtNowLast` and `m_bInvalidate` are read and
  written outside the mutexes; the queue is popped at the head, cut at the tail
  and appended to by three threads; a pass of the queue thread computes with what
  it read before. Correct: bounded, sorted, nothing invalidated left, the right
  subpicture looked up, no wake-up lost, the destructor returns.
* **Subtitle input pin.** The thread gives one lock back before taking the next;
  a new segment stops it in the middle of a batch. Correct: nothing of an old
  segment survives, every batch is announced to the subpicture queue, headers
  come before their samples, nothing stays undecoded.
* **Base splitter.** A seek flushes the pins while the filter's thread reads on and
  their threads deliver; "flushing", "flushed", the end-of-flush event and the
  result of the last delivery are separate variables. Correct: what a pin delivers of
  a segment has no gap, hardly anything of the old position follows a flush, a
  full queue never starves another pin, seeks and stops return.
* **Main frame and graph thread.** An opening can be aborted at any step of the graph
  thread, whose result may already be posted, and other media may be opened at once.
  Correct: one thread at a time works on the graph, no result is taken for that of
  another opening, every opening and every close ends.
* **Blu-ray graphics.** The Java program draws while its last picture is taken,
  presented, uploaded and redrawn by three others, and the renderer changes with
  the playlist. Correct: no half of a picture is shown, the last one is.
* **Blu-ray navigation.** The navigator reads ahead; the user seeks, the disc jumps,
  graphs report their ends early, late or never. Correct: a playlist is left at its
  end and only there, and the navigator follows the picture.
* **Blu-ray monitor.** A slow drive keeps a worker busy long after its disc was closed.
  Correct: only the disc that plays can be lost, and is when it is gone.
* **Files.** A crash, a loss of power or another player may come between any two
  calls. Correct: a disc always opens, a reset is atomic, entries stay listed,
  settings that could not be read are not overwritten, and a change that waits for its flush
  is not lost by a file that is read again.

`PROJECT.json` lists each hazard at its line, with the properties that cover it.

## 2. Modules

| Module | Models | Checked by |
|---|---|---|
| `SubPicLocks` | the locks around the provider | `MCSubPic.cfg`, `MCSubPicLocks*.cfg` |
| `SubPicQueue` | `CSubPicQueue`, its thread and its callers | `MCSubPic.cfg`, `MCSubPicQueue*.cfg` |
| `SubPicQueue_proofs` | theorems about it | TLAPS |
| `SubPic` | the locks, a queue over seeks and a queue that is closed, side by side | `MCSubPic.cfg` |
| `SubPic_proofs` | theorems about the locks, which `SubPic` extends, and about the queue over seeks | TLAPS |
| `SubtitleInputPin` | `CSubtitleInputPin`, its thread and the graph's calls | `MCSubtitleInputPin*.cfg` |
| `SubtitleInputPin_proofs` | theorems about it | TLAPS |
| `DiscStore` | abstract: what the storage of discs promises | refined by `DiscStorage` |
| `DiscStorage` | `BlurayDiscStorage`, with failures, kills, power losses | `MCPersistence.cfg` |
| `BlurayCatalog` | an entry of the catalogue | `MCPersistence.cfg` |
| `ProfileStore` | `CProfile`, the split of the history, `/reset` | `MCPersistence.cfg`, `MCPlayback.cfg` |
| `Persistence` | the storage, the catalogue and the settings side by side | `MCPersistence.cfg` |
| `ProfileStore_proofs` | theorems about a player's stores | TLAPS |
| `Persistence_proofs` | theorems about the storage (the refinement too), the catalogue and the settings | TLAPS |
| `BaseSplitter` | the splitter, its pins and their threads | `MCPlayback.cfg` |
| `BaseSplitter_proofs` | theorems about it | TLAPS |
| `GraphLoad` | opening and closing media | `MCPlayback.cfg`, `MCGraphLoad.cfg` |
| `BlurayGraphics` | buffer, presentation, renderer | `MCPlayback.cfg` |
| `BlurayMediaMonitor` | the monitor and its workers | `MCPlayback.cfg` |
| `BlurayNavigation` | navigator, timer, clock, graph | `MCPlayback.cfg`, `MCBlurayNavigation.cfg` |
| `Playback` | splitter, graph, graphics, monitor, navigation, settings side by side | `MCPlayback.cfg` |
| `BlurayNavigation_proofs` | theorems about the navigation | TLAPS |
| `Playback_proofs` | theorems about the graph, which `Playback` extends, and about all the other parts in it | TLAPS |

`SubPic`, `Persistence` and `Playback` put several components side by side: a variable
(`part`, `focus`), chosen at the start, says which one a behaviour is about, and the others
do nothing. They share no state, so that this loses no behaviour of any of them. Each
extends one component (the locks, the storage, the graph) and instantiates the others, with
constants it declares where a proof is about every value of them. `MCPersistence` adds the
symmetry, `MCPlayback` the fairness and the liveness properties; the other `MC` modules only
give values to the constants. Operators whose name ends in
`_Something` and whose comment begins with "Mutant" are wrong versions of the
definition that follows them; each property is known to fail when its mutant
takes the definition's place (`PROJECT.json`, "mutants").

### SubPicLocks

One program counter per thread; `wrap[t]` is the wrapper a thread works with.
`LockMutex` and `LockShared` are the two blocking points of
`SubPicProviderWithSharedLock::Lock` (the mutex, then, with the mutex held, the
critical section); `Unlock` blocks on the mutex only and is one action. The
critical section is Windows': recursive for its owner, and counted down by
whichever thread leaves. Readers are the queue thread, which asks for the
current provider in the middle of a pass (`BeginRender`, `Render`: `RenderTo`
takes `m_csSubPicProvider`), and renderers in `LookupSubPic`. The UI thread edits
under `m_csSubLock` and replaces the provider, inside that lock only with a null
provider, which is what `SetSubtitle` does. The decoder edits under the lock.

### SubPicQueue

One action per critical section of the code, or per access to `m_rtNow`,
`m_rtNowLast`, `m_bInvalidate` outside them. The queue thread (`Top` ...
`EnqueueBlocking`) follows `ThreadProc`; the renderer calls `SetTime` and then
`LookupSubPic` for the same time, as `AlphaBltSubPic` and the presenters do; the
UI replaces the provider and destroys the queue; an editor changes the subtitles
of the current provider under its lock and invalidates after releasing it. The
locks of `SubPicLocks` appear here as enabling conditions: an edit excludes a
pass, and replacing a provider waits for a pass over an older wrapper only.

A *script* is what a provider has to say: the non-empty segments in order of
time. A subpicture carries its times and `src`, the texts that the provider
that was locked and the provider that rendered have for its time; they differ
when a provider is replaced in the middle of a pass. Scripts are changed by
edits from a given set, together with the time the caller invalidates from.

The 250 ms wait of `LookupSubPic` is a second search at any later moment. The
wait for room (`m_condQueueFull`) is enabled when there is room: each step that
makes room notifies the condition, and the predicate is evaluated under the
mutex.

### SubtitleInputPin

The decoding thread is split at each lock operation, at the test of the
condition and the wait that follows it (between which the mutex is held, but the
stop flags may change), at each sample of a batch, and at the invalidation,
during which `m_mutexQueue` is still held. The graph's calls come one at a time
(`m_csReceive`, the filter's lock) and are split where they take a lock. A
sample has a start time, the header its text refers to, and the start times of what
it adds: nothing (blank), one subtitle at the sample's time, or, for `MEDIATYPE_Text`, the
entries of a GAB1 table or of a GAB2 file, which have times of their own; a file replaces
what the stream had and decides whether it is WebVTT (`vtt`). SRT and WebVTT may
arrive as a blob with the connection. `Connected` chooses whether libass takes the stream over
(`libass`), which needs a header and is never so for WebVTT: that is the user's setting. What
`DecodeSample` tells the subpicture queue depends on all of these: only the own
parser asks for an invalidation, and always from the sample's time. `unannounced` is a
ghost of what was added, by whomever, and not invalidated for.

Three things follow, and the properties say so rather than leave them out:

* What libass draws is never announced (`SubtitleInputPin.cpp:508`, `:529`). It need not be: with
  libass on, for either format, `GetRenderersSettings` makes the queue's size 0
  (`AppSettings.cpp:4131`), and `CSubPicQueueNoThread` renders a libass subpicture, whose
  stop is its start and one (`RTS.cpp:3411`), for each frame.
* An entry of a GAB table or file before its own sample's time (`e.start < e.at`) is not
  covered by the announcement.
* `NewSegment` does not clear a WebVTT stream unless WebVTT samples came, and a GAB2 file does not count as one;
  `SegmentClean` leaves the entries of such a stream out.

### DiscStore and DiscStorage

`DiscStore` is the promise: every disc has a current store, a reset replaces it in one
step by a store in which nothing was ever saved, sessions keep the store they were
opened with. `DiscStorage` has one action per call that changes the disk in `Reset`
(`BeginReset` draws the GUID; `MakeDirectory` thrice, `CreateTemporary`,
`WriteTemporary`, `FlushTemporary`, `Publish`; any may fail, `GiveUp`) and the two steps of
`Resolve` (`ReadMarker`, `CheckDirectories`); a root of the player's own has the same
layout. `Kill` ends a player, `PowerLoss` all of them, and empties any file
that was not flushed. Two assumptions about the file system: a rename is atomic, and
ordered with the creation of directories (the journal of NTFS); the contents of a file
are safe only once flushed. The refinement maps `current` to the marker, and lets a session begin
when the marker was read, because what `Resolve` does then cannot fail
(`AlwaysOpens`).

### BlurayCatalog

One entry: its fields are read by calls that each open the file (`ReadName`, `ReadAlias`),
edited (`Edited`: `Remember` sets the name, the dialog the alias) and written to a
temporary file of the writer's own, flushed and renamed.

### ProfileStore

`InitIni`, `Written`, `Flush` and `Clear` are `CProfile`'s methods over one store; what a
store may be after `InitIni` is a set, because the 100 ms rule and a file that
is locked for a moment make it a choice. `Torn` is what a write in place leaves
when it stops halfway. The player's steps follow `InitInstance`: the language is read
(`Launch`), the first run imports (`FirstRun`), the split moves the history
(`SetupHistoryStore`, `FlushSplit`), then values are read and written, and `OnIdle` flushes both
stores; `/reset` (`BeginReset` ... `EndReset`). Three keys stand for the map: an option, the
marker of the split and the history. `MoveIsKept`: a player that has moved the history knows so for the rest of its
session, although it could not write the file and reads it again. It is stated of one player; another one that
has read the main file before writes it back as it was (see 6).

### BaseSplitter

`app` is the thread that pauses, seeks (`SetPositionsInternal` by way of
`DeliverBeginFlush`, `CallWorker`, `DeliverEndFlush`) and stops; `flt` is the filter's thread
(`ThreadProc`, the DSM reader's `DemuxLoop`, `QueuePacket`); `pin[p]` a pin with its thread; `down[p]`
what is downstream. Packets carry the pass they were read in and their number; `got[p]`
records what arrived. `QueuePacket` is two steps, since it tests and adds under
different locks. A flush whose beginning the filter downstream refuses (`flushes`, `begun`) sets `m_eEndFlush` in
`EmptyQueue` already. The limits in packets (`QueueMax`) stand for those in packets and bytes of `QueuePacket`
and `IsAnyPinDrying`; `Discontinuous` are the pins, such as subtitles, that `IsAnyPinDrying` passes over. What
is downstream is a renderer that prerolls: it accepts a first packet at once and the next ones when
each pin that is alive has had a first (`Prerolled`, external).

### GraphLoad

`ui` is the window's thread, `gt` the graph thread, `uq` and `gq` the messages posted to each.
`CloseMedia` is split where it waits (`abort`, `wait`), as the window then dispatches
messages. What the graph thread builds is one step between its two looks at
`m_fOpeningAborted`. `Load` posts the request (`MainFrm.cpp:20856`) and `OpenedThroughThread` sets
`m_bOpenedThroughThread` (`:20857`), so that the graph thread may take the request in between. It is assumed not to
end it there, unless aborted: then it would call `OnFilePostOpenmedia` itself (`:17174`), which asserts that it
is the window's thread. Building a graph takes longer than the window's next statement; nothing in the code makes it so. A wait that times out terminates the process (`Kill`), as the code does.

### BlurayGraphics

`Java` are the commands of `BlurayArgbBuffer::Apply`, each under its mutex; a picture is drawn
in two parts. The timer takes each plane (`Take`), pumps the navigator (`Pump`, which may start
another playlist and so detach the renderer), presents (`PresentPlane`, `BitmapSet`) and
redraws (`Redraw`, three times, since the renderer uploads on its own, `Upload`). `CloseMedia` may come
inside `OsdSetBitmap`; then `State` is destroyed under its `Present`, and the model stops
("gone").

### BlurayMediaMonitor

Each `Start` that succeeds makes a `Data` with a worker of its own. `Change` is what happens in
the drive, `DeviceRemoved` what Windows says. `seen` records whether the disc that
plays was ever away; it is there for the property only.

### BlurayNavigation

`nav` is libbluray (external), `menu` the fields of `State`, `clock` the
`BlurayPlaybackClock`, `graph` the player's graph. `Tick` is the timer up to the presentation, `TickEnds` the rest of
`TickBlurayMenu`; between them messages may be dispatched: a seek, a key, an end. One call of
`bd_read_ext` is made per tick, which is one of the places where its loop ends.
`early` and `ended` are the ends a graph may report too early, late or never.

## 3. Runs

| Run | Instance | Shows |
|---|---|---|
| `subpic` | locks: 2 readers, UI, decoder, 2 providers, 3 replacements; seeking: a plain, an animated and a distant segment, 3 seeks; closing: queue of 1, a segment without end, failures, a replacement, an edit | `CountIsHolders`, `SectionBalanced`, `DecoderExcludesReaders`; `RenderedAhead`, `EventuallyUpToDate`; `DestroyReturns` |
| `locks_cycle` | the locks | finding 1 |
| `locks_handshake` | same | finding 2 |
| `queue` | queue of 2, 2 providers, one replacement, 2 seeks, one edit; the animated segment may fail to render | `QueueSorted`, `InvalidatedIsGone`, `LookupIsCurrent` |
| `queue_seek`, `queue_style` | one provider, one edit | findings 3 and 4 |
| `pin` | 2 start times, a header, one table, 3 samples, a connection and a segment (or two connections), all kinds of subtitles, libass on and off | `SegmentClean`, `BatchAnnounced`, `StreamInUse`, `QueueDrains` |
| `pin_styles` | SSA and ASS only, 2 headers, 3 segments | finding 5 |
| `persistence` | 2 players, one disc and one without identity, 2 roots, 2 generations, failures, kills and power losses | `AlwaysOpens`, `ImplementsStore`; `StaysListed`; `TornIsRetried`, `UnreadKept` |
| `playback` | eight parts, in the module's header | splitter: `InOrder`, `FewStale`, `Returns`, `StreamEnds`; graph: `OneAtTheGraph`, `GraphIsCurrent`, `PostIsCurrent`, `OpeningsEnd`; graphics: `WholePictures`, `LastPictureShown`; monitor: `OnlyOwnLoss`, `LossNoticed`; navigation: `SameList`, `LeftOnlyAtEnd`, `GoesOn`, `NavigatorFollows`; settings: `MoveIsKept` |
| `load_active` | 2 openings | finding 6 |
| `navigation_keys` | 2 playlists, a seek and a key | finding 7 |

`persistence` is reduced by the symmetry of players and of generations; it checks safety and
action properties only, so that this is sound. In `playback` the fairness of the parts is
merged: a part never changes, so that weak fairness of "the action of whichever part this is" is
that of each. A property `P ~> ~P` of a component is stated there as `[]<>~P`, which is the same.

Why the bounds are enough to be interesting:

* Three wrappers let a pass over the first outlive two replacements, so that two
  counts share the critical section while a third is made. Two readers are needed
  for one to leave what the other entered.
* Times are a few frames; the minute rendered ahead is four frames, less than a
  script, so that the thread stops in the middle of one and goes on later. A sub-frame
  of two frames makes an animated segment several subpictures with a gap of its
  last quarter. A queue of two fills while a third subpicture is in hand; a queue
  of one is the boundary. `MaxSeeks`, `MaxSwaps` and `MaxEdits` bound the calls
  that change something; calling `SetTime` again with the same time is not bounded.
* Pin: three samples make a batch with an order, an interrupted batch, and one that follows it;
  two segments make a connection and a new segment in it, or a reconnection. The table has an
  entry at time 0, which is the time of its sample or before it. A header that repeats
  needs two of them and a third segment (`pin_styles`).

* `persistence`: two players let one open, reset or rename what the other is in
  the middle of; two generations let a disc be reset twice; a reset needs
  one that is fresh, so that the third fails to begin.
* Splitter: with `QueueMax` 0 a queue is full with one packet, and with two pins and
  `QueueMax` 1 up to three, so that both branches of the limit are met (`2 *
  QueueMax`, and a pin that dries). For the one pin, two packets and the end are a segment with an
  order. The two pins have four packets in turn: while one preroll lasts, the pin that has its first waits with a
  queue that fills up, and the filter goes on reading for the other only because `IsAnyPinDrying` finds it dry; with
  fewer packets the queue never fills, and `StreamEnds` would not depend on it. One seek and one stop come at any moment of the others' steps.
* Graph: three openings let one be aborted, one fail and one follow.
* Graphics: two planes, two pictures each in two parts, a picture that is for later, and one
  change of the renderer.
* Monitor: two openings, so that a worker outlives its disc, and two changes of the medium.
* Navigation: a playlist has a start, a middle without sound and an end; the second one
  ends in a still. With a key, an endless still would make `GoesOn` a question
  of what the user does, so that the part `keys`, whose
  playlists have no middle, checks `SameList` and the types only;
  `navigation_keys` has the middle, and `LeftOnlyAtEnd` fails there (finding 7).

In `subpic`, `seeking` has no provider replacement: after one, the pass that was under way
may leave subpictures of the old provider behind (see 6). Its `RenderedAhead`
asks that the queue's time be the renderer's, because `Invalidate` sets
`m_rtNow` back until the next `SetTime`.

Deadlock is checked in `queue`. It is not in `subpic` (after the
destructor nothing is left to do, and the deadlock of finding 1 is real; a queue that is
stuck earlier violates `DestroyReturns`), in the pin's runs (the pin is gone at the end, and
its destructor may hang, see 6), nor in `persistence`, `playback` and the two runs of their parts, where a
bound on what users do, or a player that has ended, is the end of a behaviour; the
liveness properties of `playback` say that nothing stops earlier.

## 4. Fairness

* `SubPicQueue!FairSpec`: weak fairness of the queue thread and of the renderer,
  which calls for each frame as long as the queue exists; what the UI or an
  editor has begun it finishes. Nothing makes anybody seek, edit, or destroy.
* `SubtitleInputPin!FairSpec`: weak fairness of the decoding thread. The graph's
  call under way has strong fairness: while `InvalidateSamples` waits for
  `m_mutexQueue` the decoding thread takes and releases it in a loop (the stop flag
  makes its predicate true), so the mutex is free again and again but not for
  ever. The scheduler of Windows lets a waiting thread have such a lock at some
  time. Nothing makes the graph deliver.
* `BaseSplitter!FairSpec`: each thread runs, and what is downstream takes or refuses what
  it is given, a first packet as soon as the other pins have theirs. Nothing makes the application seek or stop.
* `GraphLoad!FairSpec`: both threads run; the two posted messages have strong fairness,
  for the window takes its messages in turn, though it may always be busy with
  something else when one is looked at. A graph that is never built is a wait that
  times out (`Kill`).
* `BlurayGraphics!FairSpec`, `BlurayNavigation!FairSpec`: the timer ticks again and again, though it
  is skipped while a picture is being presented or a graph is built (strong fairness of `Tick`); calls return, graphs
  are built or fail, the renderer uploads, time passes, a picture that runs goes on.
  Nothing makes the program draw, the user act, or a graph report its end.
* `BlurayMediaMonitor!FairSpec`: a probe ends, however slow.

## 5. Proofs

All theorems hold for every value of the constants that satisfies the named
assumption of the module; where that assumption is the definition `Constants` of a
component (catalogue, settings, splitter, graph, graphics, monitor, navigation), TLC evaluates it for the instances
in `Persistence` (`FilesAssumption`) and `Playback` (`PlaybackAssumption`). Each proof is of
the same form: `Init => IInv`, `IInv /\ [Next]_vars => IInv'`, `IInv => P`, and a temporal
step. For a component that is an instance of a composition, the theorem is about the
composition's specification: a step of another part leaves the component's variables alone.

* `SubPic_proofs`, locks (any finite set of readers, any number of replacements,
  `LocksAssumption`): `TypeOK`, `CountIsHolders`, `SectionBalanced`,
  `DecoderExcludesReaders`. The counts are cardinalities, so the two sets they
  count, the holders of a wrapper and the wrappers with holders, are followed
  through `Lock` and `Unlock` by lemmas. `CountIsHolders` alone is inductive only
  with the knowledge of which program counters go with a wrapper, which is in
  `TypeOK`. `DecoderExcludesReaders` needs `OwnerInv`: the decoder owns the section
  exactly while it edits, and then no wrapper has a reader and the UI is outside
  its block. Who owns the section while readers share it is not needed.
* `SubtitleInputPin_proofs` (any start times, headers, samples and segments,
  `PinAssumption`): `TypeOK`, which says who holds which lock at each step,
  `SegmentClean`, `BatchAnnounced`, `StreamInUse`. The properties speak of the end
  of a call or of a batch; the invariant adds what holds on the way. `ClearedInv`:
  the queue stays empty from `InvalidateSamples` to the end of the call.
  `BatchInv`: a time to invalidate from is remembered only inside a batch, of a pin
  that has a stream, and with the own parser is no later than any entry not yet announced whose time is
  not before its sample's. `KindInv`: only `MEDIATYPE_Text` has files, what is blank brings nothing, and
  libass has SRT, SSA and ASS only. `SegmentInv`: from the emptying of the stream on, entries and samples
  belong to the new segment; a WebVTT stream that has not been told to clear has its blob only.
  The key step is that `InvalidateSamples` can clear the queue only with
  `m_mutexQueue` free, which it is not from the reacquisition in a batch until
  after `InvalidateSubtitle`.

* `Persistence_proofs`, storage (any discs, generations, players and roots, `StorageAssumption`):
  `TypeOK`, `AlwaysOpens`, and the refinement `ImplementsStore`. The invariant follows a reset:
  `ProgressInv` says which directories exist and what the temporary file holds at each step,
  `AloneInv` that no two resets draw the same generation, `HiddenInv` that nobody has a
  session in a generation, or has saved in it, before its marker is published, and
  `MarkerInv` that a published generation has its directories and a flushed marker, which is
  `AlwaysOpens` and survives a power loss. The refinement maps `Publish` to the abstract reset
  (`HiddenInv` shows that nothing was saved there), `ReadMarker` to the opening, a power loss or a
  kill to the closing, and every other step to a stutter; `CheckDirectories` cannot fail because of `MarkerInv`.
* `SubPicQueue_proofs` (any size of the queue, any subtitles, seeks, replacements and edits,
  `QueueAssumption`): `TypeOK`, which bounds the queue, `QueueSorted`, `InvalidatedIsGone`,
  `LookupIsCurrent`. `QueueSorted` is not inductive: the thread reads the tail of the queue
  (`rtStart`), lets go of the mutex, and appends several steps later. `FrontInv` says, for each
  position of the thread in its pass, how far the queue may reach: up to the time it read, then
  up to the time it is about to render, then up to the end of the segment it leaves. It is an upper
  bound, so that what the renderer pops and an `Invalidate` cuts meanwhile keeps it. `PicInv` says that the
  subpicture in hand ends after everything in the queue, `PassInv` that a pass has a segment of
  its provider. Only the last segment of a script can be one without known end, which is
  why `IsScript` says so of every edit (`SubPicProvider` implementations sort their segments).
  `InvalidatedIsGone` needs of every step that adds a subpicture that it looks at `m_bInvalidate`
  and the time invalidated from under the mutex that guards the append. `LookupIsCurrent` needs the
  search of `LookupSubPic` for queues of any length: that the recursive function `Best` is defined for all of them,
  and returns a subpicture of the time looked up. Induction over numbers is out of the
  prover's reach; the proofs take the least number for which the claim fails instead, and that a set of
  numbers has a least one follows from the well-foundedness of finite sets (`Least`). `FoundInv` carries what a
  look-up found first to its second search.
* `SubPicQueue_proofs`, a calm queue: `RenderedAhead`. `Calm` says what it takes besides
  `QueueAssumption`: one script that nobody edits or replaces, nothing that fails to render, and
  playback times at least a frame apart. The last is needed: `SetTime` takes a step back of less than
  `m_rtTimePerFrame` for no seek, and with such times TLC finds a segment left out. The script is any
  (animated segments, one without known end), as are the size of the queue, the minute, and the number of seeks.
  What the thread has done is spread over the queue, the subpicture in its hand, what the renderer
  shows and what it has found on the way. `ReadyAt` says that a segment is in the queue to its end, or is what the renderer has
  while the queue has nothing of it. `ReadyInv`: unless an invalidation is on its way, every segment that is not over
  and lies behind the thread is ready; "behind" differs with each step of the pass. `DoneInv`: before the thread sleeps
  everything of the minute is ready, unless the event is set. Four parts make these inductive: `TimeInv`
  (the three times, and `Deferred`: the time was set back and `CheckSeek` has not invalidated yet), `BelongInv` (each
  subpicture is one of a segment, within its times), `OrderInv` (what the renderer has is of no later segment
  than anything in the queue or to be rendered) and `StaysInv` (once a subpicture
  shows an animated segment to its end, so do those after it). The hardest step is the search of `LookupSubPic`,
  which drops subpictures: `SearchReady` shows that what it drops is over, or is shown to its end by what it keeps or finds.
* `SubPic_proofs`, seeking: `RenderedAhead` of `SubPic`, any script and queue (`SeekingAssumption`). Its queue is calm
  (`QueueIsCalm`) and its steps are those of the queue that was proved about (`SeekingSteps`).
* `Persistence_proofs`, catalogue (any writers, names and aliases): `StaysListed`. `EditingInv` says that a
  writer past its edit has a name for the disc, and `ListingIsSafe` that the file that is there was
  flushed, so that a loss of power leaves it.
* `ProfileStore_proofs` (any players and values, with resets and without): `TypeOK`, `TornIsRetried`, `UnreadKept`;
  `Persistence_proofs` and `Playback_proofs` carry them over to the two instances.
  A flush that must happen has a change to write, and a step of one player leaves the others'
  caches alone; a write that fails halfway therefore leaves its writer with the change.
  `UnreadKept` is a property of steps: while no other player runs, no step writes a file whose first
  read failed, because every write goes through `Flush`, which looks at the failure. The first run,
  which replaces a file that is missing or empty, and the one reset that is meant to write are excluded
  in the property. `MoveIsKept`, for a player that is alone: `Keeps` says for each place of the player that its main store was
  read or gave up, and that a store that knows of the split has a file that says so, has a change to flush,
  or is not read again. `InitIni` reads a file again only when there is no change.
* `Playback_proofs`, graph (any number of openings): `TypeOK`, `OneAtTheGraph`, `GraphIsCurrent`,
  `PostIsCurrent`. The two threads exchange at most one message each way (`MsgInv`); the load state
  says where the one request is, queued, being built or answered (`LoadInv`); `FlagInv` and
  `UiInv` say what the abort flag and the window's position in `CloseMedia` mean for it.
* `Playback_proofs`, graphics (any planes, any number of pictures): `WholePictures`. What was
  published, taken, presented or uploaded is whole (`PublishedInv`), because the only memory that is
  ever incomplete is the one drawn into, and only between the two halves (`DrawingInv`).
* `Playback_proofs`, monitor (any discs, any number of openings): `OnlyOwnLoss`. Every `Data` but the
  current one was told to stop (`StoppedInv`), one not yet made is blank (`UnusedInv`),
  and a loss of the current disc was reported only if that disc was away (`SeenInv`).

* `BaseSplitter_proofs` (any number of pins and packets, any size of the queues, any number of seeks and
  stops, failures downstream or none): the types with the bound of the queues, `InOrder`, `FewStale`.
  The invariant is about one pin at a time, the application and the filter's thread, since pins meet
  only in those. A flush goes through a pin in four places: it is still ahead (`Ahead`); its flags are set
  and its queue is not yet emptied (`Began`); it is emptied and takes nothing (`Emptied`); it takes packets
  again and its flags are still to be cleared (`Reopened`).
  `FlushInv` says that the flags of the pin tell the place, but for a pin whose thread cleared them
  on its start, which is what `late` records. `OpenInv`: a segment is open from its start to the
  emptying of the queue, and all of that time the filter reads from one position. `StaleInv` counts what
  is left of before the segment: it is in the hands of the pin's thread, at the head of the queue or in
  the hands of the filter's thread, never further back in the queue, and the last two are not both there. The case
  that needs a part of its own is `Skipped`: a filter's thread that starts in the middle of a flush clears
  the filter's flag and passes over a pin that still flushes. `RunInv`: of an open segment,
  what arrived, what the pin's thread holds, a contiguous block of the queue (`Block`) and
  what the filter's thread holds are one run of numbers from 1 to the last one read; once a packet is
  lost (`Lost`), or refused, nothing more of the segment is delivered. `PacketsInOrder` and
  `StalePacketsAreFew` of `Playback_proofs` carry this over to the two parts of `Playback`, whose instances
  of `BaseSplitter` are the proofs' own under other names (`SplitterSteps`, `TwoPinsSteps`).
* What the proofs of the splitter do not use: which pins `IsAnyPinDrying` finds. The bound and the order
  hold however it answers. That no queue stays full for ever (`StreamEnds`) is checked by TLC, and depends on it: were a
  full queue not to grow for a pin that dries, the two pins would wait for each other's first packet.
* `BlurayNavigation_proofs` (any playlists of any length, with or without stills and sound, any number of
  seeks): `TypeOK` and `SameList` with any number of keys, `LeftOnlyAtEnd` without keys. `SameList` is inductive
  with `ListInv`: the menu is told of a playlist in the step in which the navigator opens it, and says that it
  waits until a graph of that playlist is there. `LeftOnlyAtEnd` is a property of steps: the navigator
  opens another playlist only in `Read` or at the end of a still, when `completed`,
  `readEnd` or the clock say that the picture is at its end, and `EndInv` is that they are right.
  That needs two facts about when a graph is replaced (`PhaseInv`): without keys the timer alone makes the
  navigator go on, so that it waits for a graph only inside one call of the timer; and
  what the menu remembered of the last playlist was reset when the new one was announced.
  A clock that fell back to the graph's own time is right because it was set by a seek (`afterSeek`). With keys
  `EndInv` is not an invariant: that is finding 7. `Playback_proofs` carries the results over to the
  two parts with and without keys (`NavigationSteps`, `KeysSteps`).
* `Playback_proofs`, `AllPartsTyped`: `PartsTyped`, from the types of all parts.

Model-checked only: the liveness properties (`...FairSpec`), which are outside the prover's reach, as
`ENABLED` is. Every invariant and every action property of a passing run is stated by a theorem.

## 6. Where the code and its comments disagree

1. `MainFrm.cpp:19389`: "m_csSubLock shouldn't be locked when using
   IAMStreamSelect::Enable or SetSubtitle". `SetSubtitle` itself calls
   `SetSubPicProvider(nullptr)` under that lock (`:19498`). A queue thread that has
   the wrapper's mutex and waits for `m_csSubLock`, and the UI thread that has
   `m_csSubLock` and waits for the wrapper's mutex, wait for each other
   (`NoLockCycle`).
2. `SubPicQueueImpl.cpp:80`: "queue is now not processing anything". The lock is shared,
   so the handshake passes a queue thread in the middle of a pass
   (`QueueIdleAfterHandshake`).
3. `SubPicQueueImpl.cpp:217`: "We want the queue to stay sorted so if we seek in the
   past, we invalidate". An `Invalidate` from a later time clears `m_rtNowLast`;
   the seek in the past that follows is not seen, and the current subtitle is
   not rendered (`SeekBackIsRendered`).
4. `SubPicQueueImpl.cpp:262`: "always give the queue a chance to re-render the modified
   subtitles". A subpicture that `LookupSubPic` has taken off the queue and not yet
   saved escapes `Invalidate` (`RestyledIsShown`).
5. `SubtitleInputPin.cpp:281`: "Queue it so it is applied in decode order, ahead of the
   samples that reference the new styles." A header dropped by a new segment stays
   in `m_lastHeader` and is not queued again (`StylesFirst`).

6. `MainFrm.cpp:1350`: "ASSERT(!m_bOpenMediaActive)". When the abort of an opening comes before
   the graph thread takes the request, or after its last look at the flag, the messages that
   would clear `m_bOpenMediaActive` are never sent or are purged; every later `OpenMedia` is
   then skipped (`NoneActive`).
7. `BlurayPlaybackClock.h:7`: "Continue the presentation clock instead of advancing disc navigation to
   the playlist's end" while there is video to present. An end of the streams accepted
   between a key with which the navigator seeks and the timer that follows it stays in
   `completed`, and the navigator reads on to the end of the playlist from a picture in its
   middle (`LeftOnlyAtEnd` with keys).

Seen while modelling, and contradicted by no text of the repository:

* The destructor of the pin sets its flags and notifies without the mutex
  (`SubtitleInputPin.cpp:72`); a thread between its test and its wait sleeps on, and
  the join does not return. In the model: `gpc = "join"`, `dpc = "sleeping"`.
* A pass that took its wrapper before a replacement and locks it after the
  `Invalidate` of the replacement adds subpictures with the times of the old provider.
* A second `Invalidate` with a later time forgets the first for a pass under way.
* After a failed `CopyTo` a subpicture without image may be enqueued.
* A sample with a negative start is never invalidated for; nor is an entry of a GAB table or file whose
  own time is before its sample's (`SubtitleInputPin.cpp:581`).
* A WebVTT file in a GAB2 sample sets the stream's type, and not `m_webvtt_allow_clear`: a new segment leaves
  what it brought (`SubtitleInputPin.cpp:244`) until the next file replaces it.
* Two players: one that remembers a disc writes back an alias that the other has
  changed meanwhile. "remembering disc preserves user alias" (`bluray-disc-storage-test.cpp:54`)
  is about one. The settings of the player that flushes first are overwritten by the other.
* A crash after the split has flushed the main file, and before the history's file is
  written, loses the history (`mplayerc.cpp:834`; `docs/settings-history-store.md:111` says that a crash
  loses what was not flushed).
* `Clear` empties the map even when the file could not be opened; and a crash in a reset can
  leave a main file that neither `NeedsSetup` nor `ReadIni` takes.
* `BaseSplitter.cpp:488` asserts `!m_fFlushing`, which a flush that begins after the packet was taken
  violates; the comment at `:500` about waiting is not always true either.
* The thread of a pin clears the flush flags when it starts (`BaseSplitter.cpp:335`), which may be in the
  middle of a flush; and an error of the last run, left in `m_hrDeliver` by `Stop`, makes
  the filter's thread give the pin up when it is faster than the pin's. The model calls such a pin `late`;
  `InOrder` and `FewStale` are stated without it.
* HDMV overlays are drawn straight into the planes (`OnOverlay`), so that a change that comes while a
  picture for later waits alters that picture. `BlurayGraphics` is about the Java program's.
* Media that are closed by a message dispatched in `OsdSetBitmap` destroy the menu's
  state under its own `Present`.
* A disc exchanged between `bd_open_disc` and the start of the monitor is taken for the one
  that was opened (`BlurayMenu.cpp:547`).

## 7. Not modelled

* `CSubPicQueueNoThread`, `SetFPS` and the statistics of the queue; the size, position and pixels of
  subpictures; the wording of samples. A UTF-8 stream whose header is WebVTT, a header that has events of its
  own, an SSA stream re-read when its styles change under libass, a stream named like a file on disk.
* Blu-ray: navigation by Java programs (which act on their own), several clips with stills
  in one playlist, the detection of jumps of more than two seconds, menu sounds, streams; the keys of
  discs and the listing of old directories, which only read.
* Settings: deleting (which works as writing does), the registry mode, the settings
  themselves.
* Main frame: what the messages do that are dispatched while `CloseMedia` waits (the model says only that the window takes
  the graph thread's own); an `OpenMedia` that is skipped leaves the navigation waiting for a graph; the
  two modules are not composed. DVD, capture and the playlist are its environment.
* Splitter: the readers' own formats; the sizes of packets in bytes and the priority of the filter's thread; the muxer.
* The components with status `not_modelled` in `PROJECT.json` give their reason there: the UI,
  vendored code, network and pure I/O stay out. Most of the program is such code: the
  dialogs, Direct3D, parsers of formats, third-party libraries.

## 8. Plan

What is left, in this order:

1. `SubPicNoThread` (`CSubPicQueueNoThread`), and an abstract queue of subpictures
   that both are shown to implement where they do.
2. `Playlist` (position under removal and shuffle), `EVRSamples` (mixer and presenter threads),
   `StreamSwitcher`.
3. The navigation of a Blu-ray disc composed with `GraphLoad`.
