----------------------------- MODULE SubPicLocks -----------------------------
(***************************************************************************)
(* The locks around the subtitle provider of the subpicture queue.         *)
(*                                                                         *)
(* Every subtitle stream of the player is guarded by one CCritSec,         *)
(* CMainFrame::m_csSubLock: the user interface and the subtitle decoding   *)
(* thread edit subtitles under it, and ISubPicProvider::Lock enters it.    *)
(* The queue thread and the video renderer read the provider through a     *)
(* wrapper, SubPicProviderWithSharedLock, whose Lock enters the critical   *)
(* section for the first reader only and counts the others.                *)
(*                                                                         *)
(* Replacing the provider allocates a new wrapper, so several wrappers,    *)
(* each with its own count, may stand for the one critical section.        *)
(***************************************************************************)
EXTENDS Naturals, FiniteSets

CONSTANTS Readers,      \* threads that read the provider through a wrapper
          QueueThread,  \* the one of them that renders ("Subtitle Renderer Thread")
          UI,           \* the thread of CMainFrame
          Decoder,      \* the thread of CSubtitleInputPin::DecodeSamples
          Providers,    \* the subtitle streams the user can choose
          NoProvider,   \* a null ISubPicProvider
          Free,         \* the owner of a lock nobody holds
          MaxWrappers   \* bound: the calls of SetSubPicProvider in a behaviour

ASSUME LocksAssumption ==
    /\ QueueThread \in Readers /\ IsFiniteSet(Readers)
    /\ UI \notin Readers /\ Decoder \notin Readers /\ UI # Decoder
    /\ Free \notin Readers \cup {UI, Decoder}
    /\ NoProvider \notin Providers
    /\ MaxWrappers \in Nat

Threads == Readers \cup {UI, Decoder}
Wrappers == 1 .. MaxWrappers

VARIABLES prov,       \* wrapper -> the provider it was made for
          nRef,       \* wrapper -> m_nRef
          mutex,      \* wrapper -> owner of m_mutex
          csOwner,    \* owner of m_csSubLock
          csCount,    \* recursion count of m_csSubLock
          csProv,     \* owner of CSubPicQueueImpl::m_csSubPicProvider
          current,    \* m_pSubPicProviderWithSharedLock: a wrapper, 0 when null
          wrap,       \* thread -> the wrapper it is working with, 0 for none
          newProv,    \* the argument of the SetSubPicProvider under way
          inSub,      \* the UI thread is in a block guarded by m_csSubLock
          pc          \* thread -> what it does next

wrapperVars == <<prov, nRef, mutex>>
csVars == <<csOwner, csCount>>
vars == <<wrapperVars, csVars, csProv, current, wrap, newProv, inSub, pc>>

Init ==
    /\ prov = [w \in Wrappers |-> NoProvider]
    /\ nRef = [w \in Wrappers |-> 0]
    /\ mutex = [w \in Wrappers |-> Free]
    /\ csOwner = Free /\ csCount = 0
    /\ csProv = Free /\ current = 0
    /\ wrap = [t \in Threads |-> 0]
    /\ newProv = NoProvider
    /\ inSub = FALSE
    /\ pc = [t \in Threads |-> "idle"]

Goto(t, label) == pc' = [pc EXCEPT ![t] = label]

(* A Windows critical section: recursive for its owner; leaving it counts   *)
(* down and frees it at zero, whichever thread leaves.                      *)
CanEnter(t) == csOwner \in {Free, t}
Enter(t) == CanEnter(t) /\ csOwner' = t /\ csCount' = csCount + 1
Leave ==
    /\ csCount' = csCount - 1
    /\ csOwner' = IF csCount = 1 THEN Free ELSE csOwner

(* SubPicProviderWithSharedLock::Lock: the mutex, then, with the mutex held, *)
(* the critical section if the count is zero.                                *)
LockMutex(t) ==
    /\ pc[t] = "lock" /\ mutex[wrap[t]] = Free
    /\ mutex' = [mutex EXCEPT ![wrap[t]] = t]
    /\ Goto(t, "lockIn")
    /\ UNCHANGED <<prov, nRef, csVars, csProv, current, wrap, newProv, inSub>>

(* Mutant: a further reader is let in without being counted.                 *)
LockShared_FirstOnly(t) ==
    /\ pc[t] = "lockIn"
    /\ IF nRef[wrap[t]] = 0 THEN Enter(t) ELSE UNCHANGED csVars
    /\ nRef' = [nRef EXCEPT ![wrap[t]] = 1]
    /\ mutex' = [mutex EXCEPT ![wrap[t]] = Free]
    /\ Goto(t, "held")
    /\ UNCHANGED <<prov, csProv, current, wrap, newProv, inSub>>

LockShared(t) ==
    /\ pc[t] = "lockIn"
    /\ IF nRef[wrap[t]] = 0 THEN Enter(t) ELSE UNCHANGED csVars
    /\ nRef' = [nRef EXCEPT ![wrap[t]] = @ + 1]
    /\ mutex' = [mutex EXCEPT ![wrap[t]] = Free]
    /\ Goto(t, "held")
    /\ UNCHANGED <<prov, csProv, current, wrap, newProv, inSub>>

(* Mutant: the first reader to leave takes the critical section with it.     *)
UnlockShared_Early(t) ==
    /\ mutex[wrap[t]] = Free
    /\ IF csCount > 0 THEN Leave ELSE UNCHANGED csVars
    /\ nRef' = [nRef EXCEPT ![wrap[t]] = @ - 1]
    /\ UNCHANGED <<prov, mutex, csProv, current, newProv, inSub>>

(* SubPicProviderWithSharedLock::Unlock: nothing in it blocks but the mutex. *)
UnlockShared(t) ==
    /\ mutex[wrap[t]] = Free
    /\ IF nRef[wrap[t]] = 1 THEN Leave ELSE UNCHANGED csVars
    /\ nRef' = [nRef EXCEPT ![wrap[t]] = @ - 1]
    /\ UNCHANGED <<prov, mutex, csProv, current, newProv, inSub>>

-----------------------------------------------------------------------------
(* Readers: the queue thread's pass over the provider, the renderer's look   *)
(* at the provider in LookupSubPic.                                          *)

(* GetSubPicProviderWithSharedLock; Lock of a null provider is E_POINTER.    *)
Grab(t) ==
    /\ pc[t] = "idle" /\ csProv = Free
    /\ current # 0 /\ prov[current] # NoProvider
    /\ wrap' = [wrap EXCEPT ![t] = current]
    /\ Goto(t, "lock")
    /\ UNCHANGED <<wrapperVars, csVars, csProv, current, newProv, inSub>>

(* RenderTo asks for the current provider in the middle of the pass.         *)
BeginRender(t) ==
    /\ t = QueueThread /\ pc[t] = "held"
    /\ Goto(t, "render")
    /\ UNCHANGED <<wrapperVars, csVars, csProv, current, wrap, newProv, inSub>>

Render(t) ==
    /\ pc[t] = "render" /\ csProv = Free
    /\ Goto(t, "held")
    /\ UNCHANGED <<wrapperVars, csVars, csProv, current, wrap, newProv, inSub>>

(* Mutant: the thread keeps the old wrapper for its next pass.               *)
EndRead_KeepsWrapper(t) ==
    /\ pc[t] = "held"
    /\ UnlockShared(t)
    /\ Goto(t, "idle")
    /\ UNCHANGED wrap

EndRead(t) ==
    /\ pc[t] = "held"
    /\ UnlockShared(t)
    /\ wrap' = [wrap EXCEPT ![t] = 0]
    /\ Goto(t, "idle")

Reader(t) == Grab(t) \/ LockMutex(t) \/ LockShared(t) \/ BeginRender(t)
             \/ Render(t) \/ EndRead(t)

-----------------------------------------------------------------------------
(* The UI thread: edits of the subtitles, and SetSubPicProvider.             *)

UIEnter ==
    /\ pc[UI] = "idle" /\ ~inSub
    /\ Enter(UI) /\ inSub' = TRUE
    /\ UNCHANGED <<wrapperVars, csProv, current, wrap, newProv, pc>>

UILeave ==
    /\ pc[UI] = "idle" /\ inSub
    /\ Leave /\ inSub' = FALSE
    /\ UNCHANGED <<wrapperVars, csProv, current, wrap, newProv, pc>>

(* Inside its guarded block SetSubtitle only ever drops the provider; the    *)
(* other callers hold no lock and pass any provider.                         *)
SetBegin(p) ==
    /\ pc[UI] = "idle" /\ csProv = Free /\ current < MaxWrappers
    /\ inSub => p = NoProvider
    /\ csProv' = UI /\ newProv' = p
    /\ LET old == IF current = 0 THEN NoProvider ELSE prov[current]
       IN IF old = NoProvider \/ old = p
          THEN Goto(UI, "swap") /\ UNCHANGED wrap
          ELSE Goto(UI, "lock") /\ wrap' = [wrap EXCEPT ![UI] = current]
    /\ UNCHANGED <<wrapperVars, csVars, current, inSub>>

SetUnlock ==
    /\ pc[UI] = "held"
    /\ UnlockShared(UI)
    /\ wrap' = [wrap EXCEPT ![UI] = 0]
    /\ Goto(UI, "handshaken")

SetSwap ==
    /\ pc[UI] \in {"swap", "handshaken"}
    /\ current' = current + 1
    /\ prov' = [prov EXCEPT ![current + 1] = newProv]
    /\ csProv' = Free
    /\ Goto(UI, "idle")
    /\ UNCHANGED <<nRef, mutex, csVars, wrap, newProv, inSub>>

UIThread == UIEnter \/ UILeave \/ (\E p \in Providers \cup {NoProvider} : SetBegin(p))
            \/ LockMutex(UI) \/ LockShared(UI) \/ SetUnlock \/ SetSwap

-----------------------------------------------------------------------------
(* The decoding thread adds subtitles under the critical section.            *)
DecodeBegin ==
    /\ pc[Decoder] = "idle" /\ Enter(Decoder)
    /\ Goto(Decoder, "edit")
    /\ UNCHANGED <<wrapperVars, csProv, current, wrap, newProv, inSub>>

DecodeEnd ==
    /\ pc[Decoder] = "edit" /\ Leave
    /\ Goto(Decoder, "idle")
    /\ UNCHANGED <<wrapperVars, csProv, current, wrap, newProv, inSub>>

Next == (\E t \in Readers : Reader(t)) \/ UIThread \/ DecodeBegin \/ DecodeEnd

Spec == Init /\ [][Next]_vars

-----------------------------------------------------------------------------
Labels == {"idle", "lock", "lockIn", "held", "render", "handshaken", "swap", "edit"}

(* Types; the last conjunct ties a thread's step to its having a wrapper.    *)
TypeOK ==
    /\ prov \in [Wrappers -> Providers \cup {NoProvider}]
    /\ nRef \in [Wrappers -> Nat]
    /\ mutex \in [Wrappers -> Threads \cup {Free}]
    /\ csOwner \in Threads \cup {Free} /\ csCount \in Nat
    /\ csProv \in {UI, Free} /\ current \in 0 .. MaxWrappers
    /\ wrap \in [Threads -> 0 .. MaxWrappers]
    /\ newProv \in Providers \cup {NoProvider} /\ inSub \in BOOLEAN
    /\ pc \in [Threads -> Labels]
    /\ \A t \in Threads : pc[t] \in {"lock", "lockIn", "held", "render"} <=> wrap[t] # 0

(* The threads whose Lock of wrapper w has returned and that have not called  *)
(* its Unlock.                                                                *)
Holding(t) == pc[t] \in {"held", "render"}
Holders(w) == {t \in Threads : Holding(t) /\ wrap[t] = w}
Locked == {w \in Wrappers : nRef[w] > 0}

(* m_nRef counts the holders of the wrapper, whatever the order in which they *)
(* come and go: Unlock never takes the count below zero, and the last one     *)
(* out sees a count of one.                                                   *)
CountIsHolders == \A w \in Wrappers : nRef[w] = Cardinality(Holders(w))

(* The critical section is held once for every wrapper with readers and once  *)
(* for each explicit CAutoLock on m_csSubLock: it is never left free under a  *)
(* reader, and never leaked when the readers are gone.                        *)
SectionBalanced ==
    csCount = Cardinality(Locked) + (IF inSub THEN 1 ELSE 0)
                                  + (IF pc[Decoder] = "edit" THEN 1 ELSE 0)

(* The decoding thread never adds a subtitle while a thread renders from or   *)
(* looks up the provider, although the thread that entered the critical       *)
(* section may be another than the one that reads.                            *)
DecoderExcludesReaders ==
    pc[Decoder] = "edit" => \A t \in Threads : ~ Holding(t)

(* Who a thread waits for. *)
WaitsFor(t) ==
    IF pc[t] = "lock" THEN {mutex[wrap[t]]} \ {Free}
    ELSE IF pc[t] = "lockIn" /\ nRef[wrap[t]] = 0 THEN {csOwner} \ {Free, t}
    ELSE IF pc[t] = "render" THEN {csProv} \ {Free}
    ELSE {}

(* No two threads wait for each other.  MainFrm.cpp:19389 states the rule     *)
(* that would give it: "m_csSubLock shouldn't be locked when using            *)
(* IAMStreamSelect::Enable or SetSubtitle".                                   *)
NoLockCycle ==
    \A t, u \in Threads : u \in WaitsFor(t) => t \notin WaitsFor(u)

(* SubPicQueueImpl.cpp:80, after the Lock and Unlock of the old wrapper:      *)
(* "queue is now not processing anything".                                    *)
QueueIdleAfterHandshake == pc[UI] = "handshaken" => ~ Holding(QueueThread)
=============================================================================
