----------------------------- MODULE SubPic_proofs -----------------------------
(***************************************************************************)
(* Proofs about SubPicLocks for any finite set of readers, any set of      *)
(* subtitle streams and any number of provider changes.                    *)
(*                                                                         *)
(* The invariant is a conjunction.  The count of a wrapper is compared     *)
(* with the threads between Lock and Unlock, the recursion count of the    *)
(* critical section with the wrappers that have readers; the owner of the  *)
(* section is known exactly only when it is the decoding thread, which     *)
(* neither shares nor re-enters it.                                        *)
(*                                                                         *)
(* The last part is about the queue in SubPic: it is calm, so that what    *)
(* SubPicQueue_proofs shows of a calm queue holds in it.                   *)
(***************************************************************************)
EXTENDS SubPic, FiniteSetTheorems, TLAPS

(* The UI thread keeps m_csSubPicProvider for a whole SetSubPicProvider. *)
CallerInv ==
    /\ pc[UI] # "idle" => current < MaxWrappers
    /\ pc[Decoder] \in {"idle", "edit"}
    /\ \A t \in Threads : pc[t] = "edit" => t = Decoder

OwnerInv ==
    /\ csOwner = Free <=> csCount = 0
    /\ csOwner = Decoder <=> pc[Decoder] = "edit"
    /\ pc[Decoder] = "edit" => Locked = {} /\ ~inSub

IInv == TypeOK /\ CallerInv /\ CountIsHolders /\ SectionBalanced /\ OwnerInv

-----------------------------------------------------------------------------
(* The readers are finitely many, so are the threads.                         *)
LEMMA ThreadsFinite == IsFiniteSet(Threads)
  <1>1. IsFiniteSet({UI}) /\ IsFiniteSet({Decoder})
    BY FS_Singleton
  <1>2. IsFiniteSet({UI} \cup {Decoder})
    BY <1>1, FS_Union
  <1>3. IsFiniteSet(Readers \cup ({UI} \cup {Decoder}))
    BY <1>2, FS_Union, LocksAssumption
  <1>4. Threads = Readers \cup ({UI} \cup {Decoder})
    BY DEF Threads
  <1> QED BY <1>3, <1>4

(* The threads between Lock and Unlock of a wrapper can be counted.           *)
LEMMA HoldersFinite == ASSUME NEW w PROVE IsFiniteSet(Holders(w))
  BY ThreadsFinite, FS_Subset DEF Holders

(* The wrappers that have readers can be counted.                             *)
LEMMA LockedFinite == IsFiniteSet(Locked) /\ Cardinality(Locked) \in Nat
  <1>1. IsFiniteSet(Wrappers)
    BY FS_Interval, LocksAssumption DEF Wrappers
  <1> QED BY <1>1, FS_Subset, FS_CardinalityType DEF Locked

(* A wrapper somebody holds is counted, so the critical section is entered.  *)
LEMMA HolderCounted ==
  ASSUME TypeOK, CountIsHolders, NEW t \in Threads, Holding(t)
  PROVE  wrap[t] \in Wrappers /\ nRef[wrap[t]] > 0 /\ wrap[t] \in Locked
  <1>1. wrap[t] \in Wrappers
    BY LocksAssumption DEF TypeOK, Holding, Wrappers
  <1>2. t \in Holders(wrap[t])
    BY DEF Holders
  <1>3. Cardinality(Holders(wrap[t])) \in Nat /\ Cardinality(Holders(wrap[t])) # 0
    BY <1>2, HoldersFinite, FS_CardinalityType, FS_EmptySet
  <1>4. nRef[wrap[t]] = Cardinality(Holders(wrap[t]))
    BY <1>1 DEF CountIsHolders
  <1> QED BY <1>1, <1>3, <1>4 DEF Locked

-----------------------------------------------------------------------------
(* Before the first Lock no wrapper has a reader and no section an owner.     *)
THEOREM InitIInv == Init => IInv
  <1> SUFFICES ASSUME Init PROVE IInv
    OBVIOUS
  <1>0. UI \in Threads /\ Decoder \in Threads /\ Free \notin Threads
    BY LocksAssumption DEF Threads
  <1>1. TypeOK
    <2>1. 0 \in 0 .. MaxWrappers /\ 0 \in Nat
      BY LocksAssumption
    <2>2. \A t \in Threads : pc[t] = "idle" /\ wrap[t] = 0
      BY DEF Init
    <2> QED BY <2>1, <2>2 DEF Init, TypeOK, Labels
  <1>2. CallerInv
    BY <1>0 DEF Init, CallerInv
  <1>3. CountIsHolders
    <2>1. ASSUME NEW w \in Wrappers PROVE Holders(w) = {}
      BY DEF Init, Holders, Holding
    <2> QED BY <2>1, FS_EmptySet DEF CountIsHolders, Init
  <1>4. Locked = {}
    BY DEF Init, Locked
  <1>5. SectionBalanced
    BY <1>0, <1>4, FS_EmptySet DEF Init, SectionBalanced
  <1>6. OwnerInv
    BY <1>0, <1>4 DEF Init, OwnerInv
  <1> QED BY <1>1, <1>2, <1>3, <1>5, <1>6 DEF IInv

(* Steps that touch neither the counts, nor the critical section, nor who     *)
(* holds a wrapper, keep the parts of the invariant that speak of them.       *)
LEMMA NoLockStep ==
  ASSUME IInv, UNCHANGED <<nRef, csVars, inSub>>,
         pc'[Decoder] = pc[Decoder],
         \A t \in Threads : Holding(t)' = Holding(t),
         \A t \in Threads : Holding(t) => wrap'[t] = wrap[t]
  PROVE  CountIsHolders' /\ SectionBalanced' /\ OwnerInv'
  <1>1. Locked' = Locked
    BY DEF Locked
  <1>2. \A w : Holders(w)' = Holders(w)
    BY DEF Holders
  <1>3. CountIsHolders'
    BY <1>2 DEF IInv, CountIsHolders
  <1>4. SectionBalanced'
    BY <1>1 DEF IInv, SectionBalanced, csVars
  <1>5. OwnerInv'
    BY <1>1 DEF IInv, OwnerInv, csVars
  <1> QED BY <1>3, <1>4, <1>5

(* Lock returns: one more holder, one more in the count, and the section      *)
(* entered once more exactly when the wrapper had no reader.                  *)
LEMMA LockSharedStep ==
  ASSUME IInv, NEW t \in Threads, t # Decoder, LockShared(t)
  PROVE  CountIsHolders' /\ SectionBalanced' /\ OwnerInv' /\ csCount' \in Nat
         /\ nRef' \in [Wrappers -> Nat] /\ csOwner' \in Threads \cup {Free}
  <1> DEFINE w == wrap[t]
  <1>0. w \in Wrappers /\ pc \in [Threads -> Labels] /\ nRef \in [Wrappers -> Nat]
        /\ Free \notin Threads /\ csCount \in Nat /\ Decoder \in Threads
    BY LocksAssumption DEF IInv, TypeOK, LockShared, Wrappers, Threads
  <1>1. nRef' = [nRef EXCEPT ![w] = @ + 1] /\ wrap' = wrap /\ inSub' = inSub
        /\ pc' = [pc EXCEPT ![t] = "held"]
    BY DEF LockShared, Goto
  <1>2. pc'[Decoder] = pc[Decoder]
    BY <1>0, <1>1
  <1>3. t \notin Holders(w) /\ Holders(w)' = Holders(w) \cup {t}
    BY <1>0, <1>1 DEF Holders, Holding, LockShared
  <1>4. ASSUME NEW x \in Wrappers, x # w PROVE Holders(x)' = Holders(x)
    BY <1>0, <1>1, <1>4 DEF Holders, Holding
  <1>5. CountIsHolders'
    <2>1. Cardinality(Holders(w)') = Cardinality(Holders(w)) + 1
      BY <1>3, HoldersFinite, FS_AddElement
    <2> QED BY <1>0, <1>1, <1>4, <2>1 DEF IInv, CountIsHolders
  <1>6. CASE nRef[w] = 0
    <2>1. csOwner' = t /\ csCount' = csCount + 1 /\ csOwner \in {Free, t}
      BY <1>6 DEF LockShared, Enter, CanEnter
    <2>2. w \notin Locked /\ Locked' = Locked \cup {w}
      BY <1>0, <1>1, <1>6 DEF Locked
    <2>3. Cardinality(Locked') = Cardinality(Locked) + 1
      BY <2>2, LockedFinite, FS_AddElement
    <2>4. SectionBalanced'
      BY <1>0, <1>1, <1>2, <2>1, <2>3, LockedFinite DEF IInv, SectionBalanced
    <2>5. pc[Decoder] # "edit"
      BY <1>0, <2>1, LocksAssumption DEF IInv, OwnerInv
    <2>6. OwnerInv'
      BY <1>0, <1>2, <2>1, <2>5 DEF OwnerInv
    <2> QED BY <1>0, <1>1, <1>5, <2>1, <2>4, <2>6
  <1>7. CASE nRef[w] # 0
    <2>1. UNCHANGED csVars
      BY <1>7 DEF LockShared
    <2>2. Locked' = Locked
      BY <1>0, <1>1, <1>7 DEF Locked
    <2>3. SectionBalanced'
      BY <1>1, <1>2, <2>1, <2>2 DEF IInv, SectionBalanced, csVars
    <2>4. OwnerInv'
      BY <1>1, <1>2, <2>1, <2>2 DEF IInv, OwnerInv, csVars
    <2> QED BY <1>0, <1>1, <1>5, <2>1, <2>3, <2>4 DEF csVars, IInv, TypeOK
  <1> QED BY <1>6, <1>7

(* Unlock: one holder less; the last one of the wrapper leaves the section.   *)
LEMMA UnlockSharedStep ==
  ASSUME IInv, NEW t \in Threads, t # Decoder, pc[t] = "held", UnlockShared(t),
         NEW label \in {"idle", "handshaken"},
         pc' = [pc EXCEPT ![t] = label], wrap' = [wrap EXCEPT ![t] = 0]
  PROVE  CountIsHolders' /\ SectionBalanced' /\ OwnerInv' /\ csCount' \in Nat
         /\ nRef' \in [Wrappers -> Nat] /\ csOwner' \in Threads \cup {Free}
  <1>0. pc \in [Threads -> Labels] /\ nRef \in [Wrappers -> Nat]
        /\ Free \notin Threads /\ csCount \in Nat /\ Decoder \in Threads
        /\ wrap \in [Threads -> 0 .. MaxWrappers]
        /\ csOwner \in Threads \cup {Free}
    BY LocksAssumption DEF IInv, TypeOK, Threads
  <1>h. wrap[t] \in Wrappers /\ nRef[wrap[t]] > 0 /\ wrap[t] \in Locked
    <2>1. Holding(t) /\ TypeOK /\ CountIsHolders
      BY DEF IInv, Holding
    <2> QED BY <2>1, HolderCounted
  <1>1. PICK w \in Wrappers : w = wrap[t] /\ nRef[w] > 0 /\ w \in Locked
    BY <1>h
  <1>2. nRef' = [nRef EXCEPT ![w] = @ - 1] /\ inSub' = inSub
    BY <1>1 DEF UnlockShared
  <1>3. pc'[Decoder] = pc[Decoder]
    BY <1>0
  <1>4. t \in Holders(w) /\ Holders(w)' = Holders(w) \ {t}
    <2>1. t \in Holders(w)
      BY <1>1 DEF Holders, Holding
    <2>2. wrap'[t] # w
      BY <1>0, <1>1 DEF Wrappers
    <2>3. ASSUME NEW s \in Threads, s # t
          PROVE  wrap'[s] = wrap[s] /\ pc'[s] = pc[s]
      BY <1>0, <2>3
    <2> QED BY <2>1, <2>2, <2>3 DEF Holders, Holding
  <1>5. ASSUME NEW x \in Wrappers, x # w PROVE Holders(x)' = Holders(x)
    <2>1. wrap'[t] # x /\ wrap[t] # x
      BY <1>0, <1>1, <1>5 DEF Wrappers
    <2>2. ASSUME NEW s \in Threads, s # t
          PROVE  wrap'[s] = wrap[s] /\ pc'[s] = pc[s]
      BY <1>0, <2>2
    <2> QED BY <2>1, <2>2 DEF Holders, Holding
  <1>6. CountIsHolders'
    <2>0. nRef[w] = Cardinality(Holders(w))
      BY DEF IInv, CountIsHolders
    <2>1. Cardinality(Holders(w)') = Cardinality(Holders(w)) - 1
      BY <1>4, HoldersFinite, FS_RemoveElement
    <2> QED BY <1>0, <1>1, <1>2, <1>5, <2>0, <2>1 DEF IInv, CountIsHolders
  <1>7. nRef' \in [Wrappers -> Nat]
    BY <1>0, <1>1, <1>2
  <1>8. pc[Decoder] # "edit"
    BY <1>1 DEF IInv, OwnerInv
  <1>9. CASE nRef[w] = 1
    <2>1. csCount' = csCount - 1 /\ csOwner' = IF csCount = 1 THEN Free ELSE csOwner
      BY <1>1, <1>9 DEF UnlockShared, Leave
    <2>2. Locked' = Locked \ {w}
      BY <1>0, <1>1, <1>2, <1>9 DEF Locked
    <2>3. Cardinality(Locked') = Cardinality(Locked) - 1 /\ Cardinality(Locked') \in Nat
      BY <1>1, <2>2, LockedFinite, FS_RemoveElement, FS_CardinalityType
    <2>4. SectionBalanced' /\ csCount' \in Nat
      BY <1>0, <1>2, <1>3, <2>1, <2>3, LockedFinite DEF IInv, SectionBalanced
    <2>5. csOwner # Decoder /\ (csOwner = Free <=> csCount = 0) /\ Free # Decoder
      BY <1>0, <1>8 DEF IInv, OwnerInv
    <2>6. csCount # 0
      <3>1. Cardinality(Locked) \in Nat /\ Cardinality(Locked) > 0
        BY <2>3, LockedFinite
      <3> QED BY <3>1 DEF IInv, SectionBalanced
    <2>7. OwnerInv'
      BY <1>0, <1>3, <1>8, <2>1, <2>5, <2>6 DEF OwnerInv
    <2> QED BY <1>0, <1>6, <1>7, <2>1, <2>4, <2>7
  <1>10. CASE nRef[w] # 1
    <2>1. UNCHANGED csVars
      BY <1>1, <1>10 DEF UnlockShared
    <2>2. Locked' = Locked
      BY <1>0, <1>1, <1>2, <1>10 DEF Locked
    <2>3. SectionBalanced'
      BY <1>2, <1>3, <2>1, <2>2 DEF IInv, SectionBalanced, csVars
    <2>4. OwnerInv'
      BY <1>2, <1>3, <2>1, <2>2 DEF IInv, OwnerInv, csVars
    <2> QED BY <1>0, <1>6, <1>7, <2>1, <2>3, <2>4 DEF csVars
  <1> QED BY <1>9, <1>10

-----------------------------------------------------------------------------
(* Every step of Lock, Unlock, the setters and the decoding thread keeps the  *)
(* counts and the critical section in agreement.                              *)
THEOREM StepIInv == IInv /\ [Next]_vars => IInv'
  <1> SUFFICES ASSUME IInv, [Next]_vars PROVE IInv'
    OBVIOUS
  <1>0. /\ UI \in Threads /\ Decoder \in Threads /\ UI # Decoder /\ Free \notin Threads
        /\ Decoder \notin Readers /\ UI \notin Readers /\ Readers \subseteq Threads
        /\ MaxWrappers \in Nat
    BY LocksAssumption DEF Threads
  <1>t. TypeOK
    BY DEF IInv
  <1>1. ASSUME NEW t \in Readers, Grab(t) PROVE IInv'
    <2>1. TypeOK' /\ CallerInv'
      BY <1>0, <1>1 DEF IInv, TypeOK, CallerInv, Grab, Goto, Labels, wrapperVars, csVars
    <2>2. CountIsHolders' /\ SectionBalanced' /\ OwnerInv'
      BY <1>0, <1>1, <1>t, NoLockStep
         DEF Grab, Goto, TypeOK, Holding, wrapperVars
    <2> QED BY <2>1, <2>2 DEF IInv
  <1>2. ASSUME NEW t \in Readers \cup {UI}, LockMutex(t) PROVE IInv'
    <2>1. TypeOK' /\ CallerInv'
      BY <1>0, <1>2 DEF IInv, TypeOK, CallerInv, LockMutex, Goto, Labels, csVars
    <2>2. CountIsHolders' /\ SectionBalanced' /\ OwnerInv'
      BY <1>0, <1>2, <1>t, NoLockStep DEF LockMutex, Goto, TypeOK, Holding
    <2> QED BY <2>1, <2>2 DEF IInv
  <1>3. ASSUME NEW t \in Readers \cup {UI}, LockShared(t) PROVE IInv'
    <2>1. /\ CountIsHolders' /\ SectionBalanced' /\ OwnerInv' /\ csCount' \in Nat
          /\ nRef' \in [Wrappers -> Nat] /\ csOwner' \in Threads \cup {Free}
      BY <1>0, <1>3, LockSharedStep
    <2>2. TypeOK'
      BY <1>0, <1>3, <1>t, <2>1 DEF TypeOK, LockShared, Goto, Labels
    <2>3. CallerInv'
      BY <1>0, <1>3, <1>t DEF IInv, TypeOK, CallerInv, LockShared, Goto
    <2> QED BY <2>1, <2>2, <2>3 DEF IInv
  <1>4. ASSUME NEW t \in Readers, BeginRender(t) PROVE IInv'
    <2>1. TypeOK' /\ CallerInv'
      BY <1>0, <1>4 DEF IInv, TypeOK, CallerInv, BeginRender, Goto, Labels, wrapperVars, csVars
    <2>2. CountIsHolders' /\ SectionBalanced' /\ OwnerInv'
      BY <1>0, <1>4, <1>t, NoLockStep
         DEF BeginRender, Goto, TypeOK, Holding, wrapperVars
    <2> QED BY <2>1, <2>2 DEF IInv
  <1>5. ASSUME NEW t \in Readers, Render(t) PROVE IInv'
    <2>1. TypeOK' /\ CallerInv'
      BY <1>0, <1>5 DEF IInv, TypeOK, CallerInv, Render, Goto, Labels, wrapperVars, csVars
    <2>2. CountIsHolders' /\ SectionBalanced' /\ OwnerInv'
      BY <1>0, <1>5, <1>t, NoLockStep
         DEF Render, Goto, TypeOK, Holding, wrapperVars
    <2> QED BY <2>1, <2>2 DEF IInv
  <1>6. ASSUME NEW t \in Readers, EndRead(t) PROVE IInv'
    <2>0. /\ t \in Threads /\ t # Decoder /\ pc[t] = "held" /\ UnlockShared(t)
          /\ pc' = [pc EXCEPT ![t] = "idle"] /\ wrap' = [wrap EXCEPT ![t] = 0]
      BY <1>0, <1>6 DEF EndRead, Goto
    <2>1. /\ CountIsHolders' /\ SectionBalanced' /\ OwnerInv' /\ csCount' \in Nat
          /\ nRef' \in [Wrappers -> Nat] /\ csOwner' \in Threads \cup {Free}
      BY <2>0, UnlockSharedStep
    <2>2. TypeOK'
      BY <1>0, <1>t, <2>0, <2>1 DEF TypeOK, UnlockShared, Labels
    <2>3. CallerInv'
      BY <1>0, <1>t, <1>6, <2>0 DEF IInv, TypeOK, CallerInv, UnlockShared
    <2> QED BY <2>1, <2>2, <2>3 DEF IInv
  <1>7. CASE UIEnter
    <2>1. /\ csOwner' = UI /\ csCount' = csCount + 1 /\ csOwner \in {Free, UI}
          /\ inSub = FALSE /\ inSub' = TRUE /\ pc' = pc /\ nRef' = nRef /\ wrap' = wrap
      BY <1>7, <1>t DEF UIEnter, Enter, CanEnter, wrapperVars, TypeOK
    <2>2. TypeOK' /\ CallerInv'
      BY <1>0, <1>7, <2>1 DEF IInv, TypeOK, CallerInv, UIEnter, wrapperVars
    <2>3. Locked' = Locked /\ \A w : Holders(w)' = Holders(w)
      BY <2>1 DEF Locked, Holders, Holding
    <2>4. CountIsHolders'
      BY <2>1, <2>3 DEF IInv, CountIsHolders
    <2>5. SectionBalanced'
      BY <2>1, <2>3, LockedFinite DEF IInv, SectionBalanced
    <2>6. OwnerInv'
      BY <1>0, <1>t, <2>1, <2>3 DEF IInv, TypeOK, OwnerInv
    <2> QED BY <2>2, <2>4, <2>5, <2>6 DEF IInv
  <1>8. CASE UILeave
    <2>1. /\ csCount' = csCount - 1 /\ csOwner' = (IF csCount = 1 THEN Free ELSE csOwner)
          /\ inSub = TRUE /\ inSub' = FALSE /\ pc' = pc /\ nRef' = nRef /\ wrap' = wrap
      BY <1>8, <1>t DEF UILeave, Leave, wrapperVars, TypeOK
    <2>2. Locked' = Locked /\ \A w : Holders(w)' = Holders(w)
      BY <2>1 DEF Locked, Holders, Holding
    <2>3. csCount > 0 /\ csCount' \in Nat
      BY <2>1, LockedFinite DEF IInv, SectionBalanced
    <2>4. TypeOK' /\ CallerInv'
      BY <1>0, <1>8, <2>1, <2>3 DEF IInv, TypeOK, CallerInv, UILeave, wrapperVars
    <2>5. CountIsHolders'
      BY <2>1, <2>2 DEF IInv, CountIsHolders
    <2>6. SectionBalanced'
      BY <2>1, <2>2, LockedFinite DEF IInv, SectionBalanced
    <2>7. OwnerInv'
      BY <1>0, <1>t, <2>1, <2>2, <2>3 DEF IInv, TypeOK, OwnerInv
    <2> QED BY <2>4, <2>5, <2>6, <2>7 DEF IInv
  <1>9. ASSUME NEW p \in Providers \cup {NoProvider}, SetBegin(p) PROVE IInv'
    <2>1. TypeOK' /\ CallerInv'
      BY <1>0, <1>9 DEF IInv, TypeOK, CallerInv, SetBegin, Goto, Labels, wrapperVars, csVars
    <2>2. CountIsHolders' /\ SectionBalanced' /\ OwnerInv'
      <3>1. UNCHANGED <<nRef, csVars, inSub>>
        BY <1>9 DEF SetBegin, wrapperVars
      <3>2. \A t \in Threads : t # UI => pc'[t] = pc[t] /\ wrap'[t] = wrap[t]
        BY <1>9, <1>t DEF SetBegin, Goto, TypeOK
      <3>3. pc[UI] = "idle" /\ pc'[UI] \in {"swap", "lock"}
        BY <1>0, <1>9, <1>t DEF SetBegin, Goto, TypeOK
      <3> QED BY <1>0, <3>1, <3>2, <3>3, NoLockStep DEF Holding
    <2> QED BY <2>1, <2>2 DEF IInv
  <1>10. CASE SetUnlock
    <2>0. /\ pc[UI] = "held" /\ UnlockShared(UI)
          /\ pc' = [pc EXCEPT ![UI] = "handshaken"] /\ wrap' = [wrap EXCEPT ![UI] = 0]
      BY <1>0, <1>10 DEF SetUnlock, Goto
    <2>1. /\ CountIsHolders' /\ SectionBalanced' /\ OwnerInv' /\ csCount' \in Nat
          /\ nRef' \in [Wrappers -> Nat] /\ csOwner' \in Threads \cup {Free}
      BY <1>0, <2>0, UnlockSharedStep
    <2>2. TypeOK'
      BY <1>0, <1>t, <2>0, <2>1 DEF TypeOK, UnlockShared, Labels
    <2>3. CallerInv'
      BY <1>0, <1>t, <2>0 DEF IInv, TypeOK, CallerInv, UnlockShared
    <2> QED BY <2>1, <2>2, <2>3 DEF IInv
  <1>11. CASE SetSwap
    <2>0. current < MaxWrappers /\ current + 1 \in 0 .. MaxWrappers /\ pc[UI] # "idle"
      BY <1>0, <1>11, <1>t DEF IInv, TypeOK, CallerInv, SetSwap
    <2>1. TypeOK' /\ CallerInv'
      <3>1. TypeOK'
        BY <1>0, <1>11, <1>t, <2>0 DEF TypeOK, SetSwap, Goto, Labels, csVars
      <3>2. CallerInv'
        BY <1>0, <1>11, <1>t DEF IInv, TypeOK, CallerInv, SetSwap, Goto
      <3> QED BY <3>1, <3>2
    <2>2. CountIsHolders' /\ SectionBalanced' /\ OwnerInv'
      <3>1. UNCHANGED <<nRef, csVars, inSub, wrap>>
        BY <1>11 DEF SetSwap
      <3>2. \A t \in Threads : t # UI => pc'[t] = pc[t]
        BY <1>11, <1>t DEF SetSwap, Goto, TypeOK
      <3>3. pc[UI] \in {"swap", "handshaken"} /\ pc'[UI] = "idle"
        BY <1>0, <1>11, <1>t DEF SetSwap, Goto, TypeOK
      <3>4. \A t \in Threads : Holding(t)' = Holding(t) /\ wrap'[t] = wrap[t]
        BY <3>1, <3>2, <3>3 DEF Holding
      <3> QED BY <1>0, <3>1, <3>2, <3>4, NoLockStep
    <2> QED BY <2>1, <2>2 DEF IInv
  <1>12. CASE DecodeBegin
    <2>1. /\ csOwner' = Decoder /\ csCount' = csCount + 1 /\ csOwner \in {Free, Decoder}
          /\ pc[Decoder] = "idle" /\ pc' = [pc EXCEPT ![Decoder] = "edit"]
          /\ inSub' = inSub /\ nRef' = nRef /\ wrap' = wrap
      BY <1>12 DEF DecodeBegin, Enter, CanEnter, Goto, wrapperVars
    <2>2. TypeOK' /\ CallerInv'
      BY <1>0, <1>12, <2>1 DEF IInv, TypeOK, CallerInv, DecodeBegin, Labels, wrapperVars
    <2>3. Locked' = Locked /\ \A w : Holders(w)' = Holders(w)
      BY <1>0, <1>t, <2>1 DEF Locked, Holders, Holding, TypeOK
    <2>4. CountIsHolders'
      BY <2>1, <2>3 DEF IInv, CountIsHolders
    <2>5. csCount = 0 /\ pc'[Decoder] = "edit"
      BY <1>0, <1>t, <2>1 DEF IInv, OwnerInv, TypeOK
    <2>6. Cardinality(Locked) = 0 /\ ~inSub
      BY <1>t, <2>1, <2>5, LockedFinite DEF IInv, SectionBalanced, TypeOK
    <2>7. Locked = {}
      BY <2>6, LockedFinite, FS_EmptySet
    <2>8. SectionBalanced'
      BY <2>1, <2>3, <2>5, <2>6 DEF SectionBalanced
    <2>9. OwnerInv'
      BY <1>0, <2>1, <2>3, <2>5, <2>6, <2>7 DEF OwnerInv
    <2> QED BY <2>2, <2>4, <2>8, <2>9 DEF IInv
  <1>13. CASE DecodeEnd
    <2>1. /\ csCount' = csCount - 1 /\ csOwner' = (IF csCount = 1 THEN Free ELSE csOwner)
          /\ pc[Decoder] = "edit" /\ pc' = [pc EXCEPT ![Decoder] = "idle"]
          /\ inSub' = inSub /\ nRef' = nRef /\ wrap' = wrap
      BY <1>13 DEF DecodeEnd, Leave, Goto, wrapperVars
    <2>2. Locked = {} /\ ~inSub /\ Cardinality(Locked) = 0
      BY <2>1, FS_EmptySet DEF IInv, OwnerInv
    <2>3. csCount = 1
      BY <1>t, <2>1, <2>2 DEF IInv, SectionBalanced, TypeOK
    <2>4. TypeOK' /\ CallerInv'
      BY <1>0, <1>13, <2>1, <2>3 DEF IInv, TypeOK, CallerInv, DecodeEnd, Labels, wrapperVars
    <2>5. Locked' = Locked /\ \A w : Holders(w)' = Holders(w)
      BY <1>0, <1>t, <2>1 DEF Locked, Holders, Holding, TypeOK
    <2>6. CountIsHolders'
      BY <2>1, <2>5 DEF IInv, CountIsHolders
    <2>7. pc'[Decoder] = "idle"
      BY <1>0, <1>t, <2>1 DEF TypeOK
    <2>8. SectionBalanced'
      BY <2>1, <2>2, <2>3, <2>5, <2>7 DEF SectionBalanced
    <2>9. OwnerInv'
      BY <1>0, <2>1, <2>3, <2>7 DEF OwnerInv
    <2> QED BY <2>4, <2>6, <2>8, <2>9 DEF IInv
  <1>14. CASE UNCHANGED vars
    BY <1>14 DEF vars, wrapperVars, csVars, IInv, TypeOK, CallerInv, CountIsHolders,
                 SectionBalanced, OwnerInv, Locked, Holders, Holding
  <1> QED
    <2>1. UI \in Readers \cup {UI} /\ Readers \subseteq Readers \cup {UI}
      OBVIOUS
    <2> QED BY <2>1, <1>1, <1>2, <1>3, <1>4, <1>5, <1>6, <1>7, <1>8, <1>9, <1>10, <1>11,
               <1>12, <1>13, <1>14 DEF Next, Reader, UIThread

(* While the decoding thread edits no wrapper has a reader.                   *)
LEMMA ExclusionFromIInv == IInv => DecoderExcludesReaders
  <1> SUFFICES ASSUME IInv, pc[Decoder] = "edit", NEW t \in Threads, Holding(t)
               PROVE  FALSE
    BY DEF DecoderExcludesReaders
  <1>1. wrap[t] \in Locked
    BY HolderCounted DEF IInv
  <1>2. Locked = {}
    BY DEF IInv, OwnerInv
  <1> QED BY <1>1, <1>2

(* The invariant holds in every reachable state: SubPicProviderWithSharedLock *)
(* and its callers keep counts and critical section consistent.               *)
THEOREM InductiveInvariant == Spec => []IInv
  <1> QED BY InitIInv, StepIInv, PTL DEF Spec

(* Types of the locking state, and which threads work on a wrapper.           *)
THEOREM TypeCorrect == Spec => []TypeOK
  <1>1. IInv => TypeOK
    BY DEF IInv
  <1> QED BY <1>1, InductiveInvariant, PTL

(* m_nRef is the number of threads between Lock and Unlock of the wrapper.    *)
THEOREM SharedCount == Spec => []CountIsHolders
  <1>1. IInv => CountIsHolders
    BY DEF IInv
  <1> QED BY <1>1, InductiveInvariant, PTL

(* m_csSubLock is entered once per wrapper in use and per explicit lock.      *)
THEOREM SharedSection == Spec => []SectionBalanced
  <1>1. IInv => SectionBalanced
    BY DEF IInv
  <1> QED BY <1>1, InductiveInvariant, PTL

(* The decoding thread never edits subtitles that are being rendered.         *)
THEOREM DecoderExclusion == Spec => []DecoderExcludesReaders
  <1> QED BY ExclusionFromIInv, InductiveInvariant, PTL
-----------------------------------------------------------------------------
(* The seeking part.  What was proved of the queue is proved of the           *)
(* definitions of SubPicQueue_proofs, which are those of SubPic's instance    *)
(* under other names.                                                         *)
Que == INSTANCE SubPicQueue_proofs WITH
    Providers <- {Stream}, FirstProvider <- Stream, FirstScript <- [p \in {Stream} |-> Script],
    Scripts <- {Script}, Edits <- {}, Blocking <- TRUE, Failures <- {}, MaxSwaps <- 0, MaxEdits <- 0

(* What the proofs of the queue assume of its constants holds in this part.   *)
LEMMA QueueConstants ==
    /\ QueueSize \in Nat \ {0} /\ Frame \in Nat \ {0}
    /\ SubFrame \in Nat /\ SubFrame >= Frame /\ (SubFrame * 3) \div 4 > 0
    /\ Ahead \in Nat \ {0} /\ Times \subseteq Nat /\ Unknown \in Nat
    /\ NoProvider \notin {Stream} /\ Stream \in {Stream} \cup {NoProvider}
    /\ \A s \in {Script} : Que!IsScript(s)
    /\ [p \in {Stream} |-> Script] \in [{Stream} -> {Script}]
    /\ {} \subseteq {Script} \X {Script} \X Int
    /\ NoText \notin Texts /\ TRUE \in BOOLEAN /\ {} \subseteq Texts
    /\ {MaxSeeks, 0} \subseteq Nat
  <1>1. Que!IsScript(Script)
    BY SeekingAssumption DEF Seeking!IsScript, Que!IsScript, Seeking!Segment, Que!Segment
  <1> QED BY <1>1, SeekingAssumption

(* It has one script, which nobody edits, and no failures.                    *)
LEMMA QueueIsCalm == Que!Calm
  BY SeekingAssumption DEF Que!Calm

(* Action by action, the instance and the proofs' queue do the same.          *)
LEMMA SeekingSteps == Seeking!Next => Que!Next
  <1>1. /\ Seeking!InPass <=> Que!InPass
        /\ Seeking!SwapUnderWay <=> Que!SwapUnderWay
        /\ Seeking!TailStop = Que!TailStop
        /\ Seeking!HasRoom <=> Que!HasRoom
        /\ Seeking!Dropped <=> Que!Dropped
        /\ Seeking!Put <=> Que!Put
        /\ Seeking!Seg = Que!Seg /\ Seeking!NoPic = Que!NoPic /\ Seeking!ERROR = Que!ERROR
    BY DEF Seeking!InPass, Que!InPass, Seeking!SwapUnderWay, Que!SwapUnderWay,
        Seeking!TailStop, Que!TailStop, Seeking!HasRoom, Que!HasRoom, Seeking!Dropped, Que!Dropped,
        Seeking!Put, Que!Put, Seeking!Seg, Que!Seg, Seeking!NoPic, Que!NoPic,
        Seeking!ERROR, Que!ERROR
  <1>2. ASSUME NEW a, NEW b
        PROVE  /\ Seeking!Larger(a, b) = Que!Larger(a, b)
               /\ Seeking!Smaller(a, b) = Que!Smaller(a, b)
               /\ Seeking!Covers(a, b) <=> Que!Covers(a, b)
               /\ Seeking!InSegment(a, b) <=> Que!InSegment(a, b)
               /\ Seeking!TextAt(a, b) = Que!TextAt(a, b)
               /\ Seeking!StartPosition(a, b) = Que!StartPosition(a, b)
    BY DEF Seeking!Larger, Que!Larger, Seeking!Smaller, Que!Smaller, Seeking!Covers, Que!Covers,
        Seeking!InSegment, Que!InSegment, Seeking!TextAt, Que!TextAt,
        Seeking!StartPosition, Que!StartPosition, Seeking!NoPic, Que!NoPic, Seeking!Min, Que!Min
  <1>3. Seeking!SegStop = Que!SegStop
    BY <1>1 DEF Seeking!SegStop, Que!SegStop
  <1>4. Seeking!NewPic = Que!NewPic
    BY <1>1, <1>2, <1>3 DEF Seeking!NewPic, Que!NewPic
  <1>5. Seeking!NextSegment <=> Que!NextSegment
    BY DEF Seeking!NextSegment, Que!NextSegment
  <1>6. ASSUME NEW t PROVE Seeking!Invalidate(t) <=> Que!Invalidate(t)
    BY <1>1, <1>2 DEF Seeking!Invalidate, Que!Invalidate, Seeking!KeptBy, Que!KeptBy,
        Seeking!Min, Que!Min
  <1>7. /\ Seeking!Top <=> Que!Top
        /\ Seeking!Wake <=> Que!Wake
        /\ Seeking!Grab <=> Que!Grab
        /\ Seeking!LockProvider <=> Que!LockProvider
        /\ Seeking!BeginPass <=> Que!BeginPass
        /\ Seeking!EndPass <=> Que!EndPass
        /\ Seeking!EnqueueBlocking <=> Que!EnqueueBlocking
        /\ Seeking!Enqueue <=> Que!Enqueue
    BY <1>1 DEF Seeking!Top, Que!Top, Seeking!Wake, Que!Wake, Seeking!Grab, Que!Grab,
        Seeking!LockProvider, Que!LockProvider, Seeking!BeginPass, Que!BeginPass,
        Seeking!EndPass, Que!EndPass, Seeking!EnqueueBlocking, Que!EnqueueBlocking,
        Seeking!Enqueue, Que!Enqueue, Seeking!sharedVars, Que!sharedVars,
        Seeking!rendererVars, Que!rendererVars, Seeking!callerVars, Que!callerVars
  <1>8. /\ Seeking!Position <=> Que!Position
        /\ Seeking!AtSegment <=> Que!AtSegment
        /\ Seeking!RenderPic <=> Que!RenderPic
        /\ Seeking!RenderFails <=> Que!RenderFails
        /\ Seeking!CopyFails <=> Que!CopyFails
        /\ Seeking!Advance <=> Que!Advance
    BY <1>1, <1>2, <1>3, <1>4, <1>5 DEF Seeking!Position, Que!Position,
        Seeking!AtSegment, Que!AtSegment, Seeking!RenderPic, Que!RenderPic,
        Seeking!RenderFails, Que!RenderFails, Seeking!CopyFails, Que!CopyFails,
        Seeking!Advance, Que!Advance, Seeking!sharedVars, Que!sharedVars,
        Seeking!rendererVars, Que!rendererVars, Seeking!callerVars, Que!callerVars
  <1>9. ASSUME NEW t PROVE Seeking!SetTime(t) <=> Que!SetTime(t)
    BY DEF Seeking!SetTime, Que!SetTime, Seeking!queueThreadVars, Que!queueThreadVars,
        Seeking!callerVars, Que!callerVars
  <1>10. /\ Seeking!CheckSeek <=> Que!CheckSeek
         /\ Seeking!SetLast <=> Que!SetLast
         /\ Seeking!Reuse <=> Que!Reuse
         /\ Seeking!Ask <=> Que!Ask
         /\ Seeking!Save <=> Que!Save
    BY <1>1, <1>2, <1>6 DEF Seeking!CheckSeek, Que!CheckSeek, Seeking!SetLast, Que!SetLast,
        Seeking!Reuse, Que!Reuse, Seeking!Ask, Que!Ask, Seeking!Save, Que!Save,
        Seeking!sharedVars, Que!sharedVars, Seeking!queueThreadVars, Que!queueThreadVars,
        Seeking!callerVars, Que!callerVars
  <1>11. Seeking!Search <=> Que!Search
    BY DEF Seeking!Search, Que!Search, Seeking!Best, Que!Best, Seeking!TakenAt, Que!TakenAt,
        Seeking!KeptAt, Que!KeptAt, Seeking!StopsAt, Que!StopsAt, Seeking!InSegment, Que!InSegment,
        Seeking!NoPic, Que!NoPic, Seeking!Min, Que!Min,
        Seeking!queueThreadVars, Que!queueThreadVars, Seeking!callerVars, Que!callerVars
  <1>12. ASSUME NEW p PROVE Seeking!SetSubPicProvider(p) <=> Que!SetSubPicProvider(p)
    BY <1>1 DEF Seeking!SetSubPicProvider, Que!SetSubPicProvider, Seeking!Swap, Que!Swap,
        Seeking!sharedVars, Que!sharedVars, Seeking!queueThreadVars, Que!queueThreadVars,
        Seeking!rendererVars, Que!rendererVars
  <1>13. /\ Seeking!InvalidateAfterSwap <=> Que!InvalidateAfterSwap
         /\ Seeking!Destroy <=> Que!Destroy
         /\ Seeking!DropProvider <=> Que!DropProvider
         /\ Seeking!Close <=> Que!Close
         /\ Seeking!InvalidateAfterEdit <=> Que!InvalidateAfterEdit
         /\ Seeking!Terminated <=> Que!Terminated
    BY <1>1, <1>6 DEF Seeking!InvalidateAfterSwap, Que!InvalidateAfterSwap,
        Seeking!Destroy, Que!Destroy, Seeking!DropProvider, Que!DropProvider,
        Seeking!Close, Que!Close, Seeking!InvalidateAfterEdit, Que!InvalidateAfterEdit,
        Seeking!Terminated, Que!Terminated, Seeking!Swap, Que!Swap, Seeking!vars, Que!vars,
        Seeking!sharedVars, Que!sharedVars, Seeking!queueThreadVars, Que!queueThreadVars,
        Seeking!rendererVars, Que!rendererVars, Seeking!callerVars, Que!callerVars
  <1> QED BY <1>7, <1>8, <1>9, <1>10, <1>11, <1>12, <1>13
    DEF Seeking!Next, Que!Next, Seeking!ThreadProc, Que!ThreadProc, Seeking!Renderer, Que!Renderer,
        Seeking!Caller, Que!Caller, Seeking!CallerContinues, Que!CallerContinues,
        Seeking!Editor, Que!Editor

(* In the seeking part the invariant of the calm queue holds.                 *)
LEMMA SeekingInvariant == SubPicSteps => [](part = "seeking" => Que!CalmInv)
  <1> DEFINE Inv == part = "seeking" => Que!CalmInv
  <1>1. SubPicInit => Inv
    <2>1. ASSUME SubPicInit, part = "seeking" PROVE Que!Init
      BY <2>1 DEF SubPicInit, Seeking!Init, Que!Init, Seeking!NoPic, Que!NoPic, Seeking!ERROR, Que!ERROR
    <2> QED BY <2>1, QueueConstants, QueueIsCalm, Que!InitAhead
  <1>2. Inv /\ [SubPicNext]_allVars => Inv'
    <2> SUFFICES ASSUME Inv, [SubPicNext]_allVars, part' = "seeking" PROVE Que!CalmInv'
      OBVIOUS
    <2>1. part = "seeking"
      BY DEF SubPicNext, allVars
    <2>2. Seeking!Next \/ UNCHANGED queueVars
      BY <2>1 DEF SubPicNext, allVars
    <2>3. [Que!Next]_(Que!vars)
      BY <2>2, SeekingSteps DEF queueVars, Que!vars, Que!sharedVars, Que!queueThreadVars,
         Que!rendererVars, Que!callerVars
    <2> QED BY <2>1, <2>3, QueueConstants, QueueIsCalm, Que!NextAhead
  <1> QED BY <1>1, <1>2, PTL DEF SubPicSteps

(* At rest every segment of the next minute has been rendered up to its end:  *)
(* no wake-up is lost and no seek makes the thread skip a segment, for any    *)
(* script, size of the queue and number of seeks (CSubPicQueue::ThreadProc).  *)
THEOREM SegmentsAreRendered == SubPicSteps => []RenderedAhead
  <1>1. (part = "seeking" => Que!CalmInv) => RenderedAhead
    <2>1. Que!CalmInv => Que!RenderedAhead
      BY QueueConstants, QueueIsCalm, Que!RestIsAhead
    <2>2. Que!RenderedAhead => Seeking!RenderedAhead
      BY DEF Que!RenderedAhead, Seeking!RenderedAhead, Que!Settled, Seeking!Settled, Que!Shows, Seeking!Shows
    <2> QED BY <2>1, <2>2 DEF RenderedAhead
  <1> QED BY <1>1, SeekingInvariant, PTL
==============================================================================
