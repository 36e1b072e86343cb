-------------------------- MODULE Persistence_proofs --------------------------
(***************************************************************************)
(* Proofs about what players keep in files: the storage of the discs, for  *)
(* any discs, players, roots and names of generations, the catalogue of    *)
(* the discs, for any players, names and aliases, and, resting on          *)
(* ProfileStore_proofs, the settings; any failures, kills and losses of    *)
(* power may come between.                                                 *)
(*                                                                         *)
(* A generation of the storage is drawn once, so the player that drew it   *)
(* is alone to touch its directories and its file until it is published;   *)
(* nobody reads or saves in it before that, and nobody writes it after.    *)
(*                                                                         *)
(* What is published in the catalogue has a name, because remembering      *)
(* gives the disc one and the dialog falls back to the entry it listed     *)
(* when the file is empty; and it was flushed before, so that a power loss *)
(* finds nothing to empty.                                                 *)
(***************************************************************************)
EXTENDS Persistence, TLAPS

(* The storage.                                                               *)

ResetSteps == {"root", "persistent", "cache", "create", "write", "flush", "publish"}

Resetting(p) == step[p] \in ResetSteps

(* Each player in a reset has made what the steps behind it make.             *)
Progress(p) ==
    /\ step[p] \in {"persistent", "cache"} => "root" \in dirs[Target(p)]
    /\ step[p] = "cache" => "persistent" \in dirs[Target(p)]
    /\ step[p] \in {"create", "write", "flush", "publish"} => dirs[Target(p)] = Parts
    /\ step[p] = "publish" => file[Target(p)] = "flushed"
    /\ step[p] = "check" => dirs[Target(p)] = Parts

ProgressInv == \A p \in Players : Progress(p)

(* Two resets under way have drawn different names.                           *)
AloneInv ==
    \A p, q \in Players : p # q /\ Resetting(p) /\ Resetting(q) => job[p].gen # job[q].gen

(* A name being prepared is no disc's marker and no session's storage.        *)
Hidden(g) ==
    /\ \A d \in Discs : marker[d] # g
    /\ \A s \in saved : s[1][3] # g
    /\ \A q \in Players : step[q] = "check" => job[q].gen # g
    /\ \A q \in Players : session[q] # None => session[q].store[3] # g

HiddenInv ==
    /\ \A p \in Players : Resetting(p) => Hidden(job[p].gen)
    /\ \A g \in Generations : g \notin drawn => Hidden(g)

(* What a marker names is complete and flushed.                               *)
MarkerInv ==
    \A d \in Discs : marker[d] # Shared =>
        file[<<d, marker[d]>>] = "flushed" /\ dirs[<<d, marker[d]>>] = Parts

StorageInv == TypeOK /\ ProgressInv /\ AloneInv /\ HiddenInv /\ MarkerInv

USE StorageAssumption

-----------------------------------------------------------------------------
(* Nothing is under way, drawn, marked or saved at first.                     *)
THEOREM StorageStarts == Init => StorageInv
  <1> SUFFICES ASSUME Init PROVE StorageInv
    OBVIOUS
  <1>1. TypeOK
    BY SMTT(30) DEF Init, TypeOK, JobOK, Contents, Steps, Job, Session, Stores
  <1>2. ProgressInv /\ AloneInv /\ MarkerInv
    BY DEF Init, ProgressInv, Progress, AloneInv, Resetting, ResetSteps, MarkerInv
  <1>3. HiddenInv
    BY DEF Init, HiddenInv, Hidden, Resetting, ResetSteps
  <1> QED BY <1>1, <1>2, <1>3 DEF StorageInv

(* The target of a reset or a check under way.                                *)
LEMMA TargetType ==
  ASSUME TypeOK, NEW p \in Players, step[p] # "idle"
  PROVE  /\ job[p].disc \in Discs /\ job[p].gen \in Generations /\ job[p].root \in Roots
         /\ Target(p) = <<job[p].disc, job[p].gen>>
         /\ Target(p) \in Discs \X Generations
  BY DEF TypeOK, JobOK, Target, Job

(* A step that moves one player of a reset on by changing the directories or  *)
(* the file of its target, and nothing a marker or a session can see.         *)
LEMMA ResetInside ==
  ASSUME StorageInv, NEW p \in Players, Resetting(p), TypeOK',
         NEW s \in Steps \ {"check"}, GoTo(p, s),
         \A f \in Discs \X Generations : f # Target(p) => dirs'[f] = dirs[f] /\ file'[f] = file[f],
         Progress(p)', UNCHANGED <<marker, drawn, job, session, saved>>
  PROVE  StorageInv'
  <1> USE DEF StorageInv
  <1>1. /\ \A q \in Players : q # p => step'[q] = step[q]
        /\ step'[p] = s
    BY DEF GoTo, TypeOK, JobOK
  <1>2. \A q \in Players : Resetting(q)' => Resetting(q)
    BY <1>1 DEF Resetting
  <1>3. \A q \in Players : Target(q)' = Target(q)
    BY DEF Target
  <1>4. \A q \in Players : q # p /\ step[q] # "idle" => Target(q) # Target(p)
    <2> SUFFICES ASSUME NEW q \in Players, q # p, step[q] # "idle" PROVE job[q].gen # job[p].gen
      BY DEF Target
    <2>1. Resetting(q) \/ step[q] = "check"
      BY DEF TypeOK, JobOK, Steps, Resetting, ResetSteps
    <2> QED BY <2>1 DEF AloneInv, HiddenInv, Hidden
  <1>5. ProgressInv'
    <2> SUFFICES ASSUME NEW q \in Players, q # p PROVE Progress(q)'
      BY DEF ProgressInv
    <2>1. CASE step[q] = "idle"
      BY <2>1, <1>1 DEF Progress
    <2>2. CASE step[q] # "idle"
      <3>1. dirs'[Target(q)] = dirs[Target(q)] /\ file'[Target(q)] = file[Target(q)]
        BY <2>2, <1>4, TargetType
      <3> QED BY <3>1, <1>1, <1>3 DEF ProgressInv, Progress
    <2> QED BY <2>1, <2>2
  <1>6. AloneInv'
    BY <1>2 DEF AloneInv
  <1>7. HiddenInv'
    BY <1>1, <1>2 DEF HiddenInv, Hidden
  <1>8. MarkerInv'
    <2> SUFFICES ASSUME NEW d \in Discs, marker[d] # Shared
                 PROVE  /\ file'[<<d, marker[d]>>] = "flushed"
                        /\ dirs'[<<d, marker[d]>>] = Parts
      BY DEF MarkerInv
    <2>1. marker[d] # job[p].gen
      BY DEF HiddenInv, Hidden
    <2>2. <<d, marker[d]>> # Target(p) /\ <<d, marker[d]>> \in Discs \X Generations
      BY <2>1 DEF Target, TypeOK, JobOK
    <2> QED BY <2>2 DEF MarkerInv
  <1> QED BY <1>5, <1>6, <1>7, <1>8

-----------------------------------------------------------------------------
(* Types are preserved: a marker names a generation that was drawn.           *)
LEMMA TypeStep == StorageInv /\ [Next]_vars => TypeOK'
  <1> SUFFICES ASSUME TypeOK, HiddenInv, [Next]_vars PROVE TypeOK'
    BY DEF StorageInv
  <1>1. CASE UNCHANGED vars
    BY <1>1 DEF TypeOK, JobOK, vars, diskVars
  <1>2. ASSUME NEW p \in Players, NEW d \in Discs, BeginReset(p, d) PROVE TypeOK'
    BY <1>2, SMTT(30) DEF BeginReset, Fresh, GoTo, TypeOK, JobOK, Steps, Job, diskVars
  <1>3. ASSUME NEW p \in Players, MakeDirectory(p) PROVE TypeOK'
    BY <1>3, SMTT(30) DEF MakeDirectory, AfterDirectory, GoTo, TypeOK, JobOK, Steps, Parts, Target, Job
  <1>4. ASSUME NEW p \in Players, CreateTemporary(p) \/ WriteTemporary(p) \/ FlushTemporary(p) PROVE TypeOK'
    <2>1. UNCHANGED <<dirs, marker, drawn, job, session, saved>> /\ step[p] \notin {"idle", "check"}
      BY <1>4 DEF CreateTemporary, WriteTemporary, FlushTemporary
    <2>2. PICK c \in Contents, s \in Steps \ {"check"} :
            file' = [file EXCEPT ![Target(p)] = c] /\ step' = [step EXCEPT ![p] = s]
      BY <1>4, Zenon DEF CreateTemporary, WriteTemporary, FlushTemporary, GoTo, Steps, Contents
    <2>3. (file \in [Discs \X Generations -> Contents])'
      BY <2>2 DEF TypeOK
    <2>4. (step \in [Players -> Steps])'
      BY <2>2 DEF TypeOK
    <2>5. \A q \in Players : /\ step'[q] # "idle" => job'[q].disc \in Discs /\ job'[q].gen \in drawn'
                             /\ step'[q] = "check" => session'[q] = None
      BY <2>1, <2>2 DEF TypeOK, JobOK
    <2>6. JobOK'
      BY <2>5 DEF JobOK
    <2> QED BY <2>1, <2>3, <2>4, <2>6 DEF TypeOK
  <1>5. ASSUME NEW p \in Players, Publish(p) PROVE TypeOK'
    BY <1>5, SMTT(30) DEF Publish, GoTo, TypeOK, JobOK, Steps, Job
  <1>6. ASSUME NEW p \in Players, GiveUp(p) PROVE TypeOK'
    BY <1>6, SMTT(30) DEF GiveUp, GoTo, TypeOK, JobOK, Steps, diskVars
  <1>7. ASSUME NEW p \in Players, NEW d \in Discs \cup {NoKey}, NEW root \in Roots, ReadMarker(p, d, root)
        PROVE  TypeOK'
    <2>1. CASE d = NoKey \/ (d # NoKey /\ marker[d] = Shared)
      BY <1>7, <2>1, SMTT(30) DEF ReadMarker, StartSession, Store, TypeOK, JobOK, Session, Stores, diskVars
    <2>2. CASE ~(d = NoKey \/ (d # NoKey /\ marker[d] = Shared))
      <3>1. d \in Discs /\ marker[d] \in Generations /\ marker[d] \in drawn
        BY <2>2 DEF TypeOK, JobOK, HiddenInv, Hidden
      <3>2. /\ job' = [job EXCEPT ![p] = [disc |-> d, gen |-> marker[d], root |-> root]]
            /\ step' = [step EXCEPT ![p] = "check"] /\ step[p] = "idle" /\ session[p] = None
            /\ UNCHANGED <<dirs, file, marker, drawn, session, saved>>
        BY <1>7, <2>2 DEF ReadMarker, GoTo, diskVars
      <3>3. [disc |-> d, gen |-> marker[d], root |-> root] \in Job
        BY <3>1 DEF Job
      <3>4. (step \in [Players -> Steps])'
        BY <3>2 DEF TypeOK, Steps
      <3>5. (job \in [Players -> Job])'
        BY <3>2, <3>3 DEF TypeOK
      <3>6. \A q \in Players : /\ step'[q] # "idle" => job'[q].disc \in Discs /\ job'[q].gen \in drawn'
                               /\ step'[q] = "check" => session'[q] = None
        BY <3>1, <3>2 DEF TypeOK, JobOK
      <3>7. JobOK'
        BY <3>6 DEF JobOK
      <3> QED BY <3>2, <3>4, <3>5, <3>7 DEF TypeOK
    <2> QED BY <2>1, <2>2
  <1>8. ASSUME NEW p \in Players, CheckDirectories(p) PROVE TypeOK'
    BY <1>8, SMTT(30) DEF CheckDirectories, StartSession, Store, GoTo, TypeOK, JobOK,
                       Steps, Session, Stores, Job, diskVars
  <1>9. ASSUME NEW p \in Players, Save(p) PROVE TypeOK'
    BY <1>9, SMTT(30) DEF Save, TypeOK, JobOK, Session, diskVars
  <1>10. ASSUME NEW p \in Players, CloseDisc(p) \/ Kill(p) PROVE TypeOK'
    BY <1>10, SMTT(30) DEF CloseDisc, Kill, GoTo, TypeOK, JobOK, Steps, diskVars
  <1>11. CASE PowerLoss
    BY <1>11, SMTT(30) DEF PowerLoss, TypeOK, JobOK, Steps, Contents
  <1> QED BY <1>1, <1>2, <1>3, <1>4, <1>5, <1>6, <1>7, <1>8, <1>9, <1>10, <1>11, Zenon
         DEF Next, ResetStep, OpenStep

(* A step that only stops players: they reset, check and play nothing after.  *)
LEMMA StopPlayers ==
  ASSUME StorageInv, TypeOK', NEW P \in SUBSET Players,
         \A q \in Players : step'[q] = IF q \in P THEN "idle" ELSE step[q],
         \A q \in Players : session'[q] = session[q] \/ session'[q] = None,
         \A f \in Discs \X Generations : file'[f] = file[f] \/ (file[f] # "flushed" /\ P = Players),
         UNCHANGED <<dirs, marker, drawn, job, saved>>
  PROVE  StorageInv'
  <1> USE DEF StorageInv
  <1>1. \A q \in Players : Resetting(q)' => Resetting(q) /\ q \notin P
    BY DEF Resetting, ResetSteps
  <1>2. ProgressInv'
    <2> SUFFICES ASSUME NEW q \in Players PROVE Progress(q)'
      BY DEF ProgressInv
    <2>1. CASE q \in P
      BY <2>1 DEF Progress
    <2>2. CASE q \notin P
      BY <2>2 DEF ProgressInv, Progress, Target, TypeOK, JobOK, Job
    <2> QED BY <2>1, <2>2
  <1>3. AloneInv'
    BY <1>1 DEF AloneInv
  <1>4. HiddenInv'
    BY <1>1 DEF HiddenInv, Hidden
  <1>5. MarkerInv'
    BY DEF MarkerInv, TypeOK, JobOK
  <1> QED BY <1>2, <1>3, <1>4, <1>5
-----------------------------------------------------------------------------
(* Every step preserves the invariant.                                        *)
THEOREM StorageKeeps == StorageInv /\ [Next]_vars => StorageInv'
  <1> SUFFICES ASSUME StorageInv, [Next]_vars PROVE StorageInv'
    OBVIOUS
  <1> USE DEF StorageInv
  <1>0. TypeOK'
    BY TypeStep
  <1>1. CASE UNCHANGED vars
    BY <1>0, <1>1 DEF vars, diskVars, ProgressInv, Progress, Target, AloneInv, Resetting,
                         HiddenInv, Hidden, MarkerInv
  <1>2. ASSUME NEW p \in Players, NEW d \in Discs, BeginReset(p, d) PROVE StorageInv'
    <2>1. PICK g \in Generations : /\ g \notin drawn /\ drawn' = drawn \cup {g}
                                   /\ job'[p].gen = g
                                   /\ \A q \in Players : q # p => job'[q] = job[q]
      BY <1>2 DEF BeginReset, Fresh, TypeOK, JobOK
    <2>2. /\ step'[p] = "root" /\ step[p] = "idle"
          /\ \A q \in Players : q # p => step'[q] = step[q]
          /\ UNCHANGED <<dirs, file, marker, session, saved>>
      BY <1>2 DEF BeginReset, GoTo, TypeOK, JobOK, diskVars
    <2>3. ProgressInv'
      <3> SUFFICES ASSUME NEW q \in Players PROVE Progress(q)'
        BY DEF ProgressInv
      <3>1. CASE q = p
        BY <2>2, <3>1 DEF Progress
      <3>2. CASE q # p
        BY <2>1, <2>2, <3>2 DEF ProgressInv, Progress, Target
      <3> QED BY <3>1, <3>2
    <2>4. AloneInv'
      <3>1. \A q \in Players : q # p /\ Resetting(q) => job[q].gen # g
        BY <2>1 DEF TypeOK, JobOK, Resetting, ResetSteps
      <3> QED BY <2>1, <2>2, <3>1 DEF AloneInv, Resetting
    <2>5. HiddenInv'
      <3>1. \A h \in Generations : Hidden(h) => Hidden(h)'
        BY <2>1, <2>2 DEF Hidden
      <3>2. \A q \in Players : q # p /\ Resetting(q)' =>
              job'[q].gen = job[q].gen /\ job[q].gen \in Generations /\ Resetting(q)
        BY <2>1, <2>2 DEF Resetting, ResetSteps, TypeOK, JobOK
      <3> QED BY <2>1, <3>1, <3>2 DEF HiddenInv
    <2>6. MarkerInv'
      BY <2>2 DEF MarkerInv
    <2> QED BY <1>0, <2>3, <2>4, <2>5, <2>6
  <1>3. ASSUME NEW p \in Players, MakeDirectory(p) PROVE StorageInv'
    <2>1. Resetting(p) /\ AfterDirectory(step[p]) \in Steps \ {"check"}
      BY <1>3 DEF MakeDirectory, Parts, Resetting, ResetSteps, AfterDirectory, Steps
    <2>2. /\ dirs'[Target(p)] = dirs[Target(p)] \cup {step[p]}
          /\ \A f \in Discs \X Generations : f # Target(p) => dirs'[f] = dirs[f] /\ file'[f] = file[f]
          /\ GoTo(p, AfterDirectory(step[p])) /\ UNCHANGED <<file, marker, drawn, job, session, saved>>
      BY <1>3, TargetType DEF MakeDirectory, Parts, TypeOK, JobOK
    <2>3. Progress(p)'
      <3>1. step'[p] = AfterDirectory(step[p]) /\ Target(p)' = Target(p)
        BY <2>2 DEF GoTo, TypeOK, JobOK, Target
      <3>2. dirs[Target(p)] \subseteq Parts
        BY TargetType, <2>1 DEF TypeOK, JobOK, Resetting, ResetSteps
      <3> QED BY <1>3, <2>2, <3>1, <3>2 DEF MakeDirectory, Progress, ProgressInv, AfterDirectory, Parts
    <2> QED BY <1>0, <2>1, <2>2, <2>3, ResetInside
  <1>4. ASSUME NEW p \in Players, CreateTemporary(p) \/ WriteTemporary(p) \/ FlushTemporary(p) PROVE StorageInv'
    <2>1. Resetting(p) /\ step[p] \in {"create", "write", "flush"}
      BY <1>4 DEF CreateTemporary, WriteTemporary, FlushTemporary, Resetting, ResetSteps
    <2>2. /\ \A f \in Discs \X Generations : f # Target(p) => dirs'[f] = dirs[f] /\ file'[f] = file[f]
          /\ UNCHANGED <<dirs, marker, drawn, job, session, saved>>
          /\ \/ GoTo(p, "write") \/ GoTo(p, "flush") \/ GoTo(p, "idle")
             \/ GoTo(p, "publish") /\ file'[Target(p)] = "flushed"
      BY <1>4, <2>1, TargetType DEF CreateTemporary, WriteTemporary, FlushTemporary, TypeOK, JobOK
    <2>3. Progress(p)'
      <3>1. Target(p)' = Target(p) /\ dirs[Target(p)] = Parts
        BY <2>1, <2>2 DEF Target, ProgressInv, Progress
      <3>2. step'[p] \in {"write", "flush", "idle", "publish"}
        BY <2>2 DEF GoTo, TypeOK, JobOK
      <3>3. step'[p] = "publish" => file'[Target(p)] = "flushed"
        BY <2>2 DEF GoTo, TypeOK, JobOK
      <3> QED BY <2>2, <3>1, <3>2, <3>3 DEF Progress
    <2>4. PICK s \in {"write", "flush", "idle", "publish"} : GoTo(p, s)
      BY <2>2
    <2>5. s \in Steps \ {"check"}
      BY DEF Steps
    <2> QED BY <1>0, <2>1, <2>2, <2>3, <2>4, <2>5, ResetInside
  <1>5. ASSUME NEW p \in Players, Publish(p) PROVE StorageInv'
    <2> DEFINE d == job[p].disc
               g == job[p].gen
    <2>1. Resetting(p) /\ d \in Discs /\ g \in Generations /\ g \in drawn /\ Target(p) = <<d, g>>
      BY <1>5, TargetType DEF Publish, Resetting, ResetSteps, TypeOK, JobOK
    <2>2. /\ marker'[d] = g /\ \A e \in Discs : e # d => marker'[e] = marker[e]
          /\ step'[p] = "idle" /\ \A q \in Players : q # p => step'[q] = step[q]
          /\ UNCHANGED <<dirs, file, drawn, job, session, saved>>
      BY <1>5, <2>1 DEF Publish, GoTo, TypeOK, JobOK
    <2> HIDE DEF d, g
    <2>3. ProgressInv'
      BY <2>2 DEF ProgressInv, Progress, Target
    <2>4. AloneInv'
      BY <2>2 DEF AloneInv, Resetting, ResetSteps
    <2>5. HiddenInv'
      <3>1. \A h \in Generations : h # g /\ Hidden(h) => Hidden(h)'
        BY <2>2 DEF Hidden
      <3>2. \A q \in Players : Resetting(q)' => Resetting(q) /\ job[q].gen # g /\ job[q].gen \in Generations
        BY <2>1, <2>2 DEF Resetting, ResetSteps, AloneInv, TypeOK, JobOK, g
      <3> QED BY <2>1, <2>2, <3>1, <3>2 DEF HiddenInv
    <2>6. MarkerInv'
      <3>1. file[<<d, g>>] = "flushed" /\ dirs[<<d, g>>] = Parts
        BY <1>5, <2>1 DEF Publish, ProgressInv, Progress
      <3> QED BY <2>2, <3>1 DEF MarkerInv
    <2> QED BY <1>0, <2>3, <2>4, <2>5, <2>6
  <1>6. ASSUME NEW p \in Players, GiveUp(p) PROVE StorageInv'
    <2>1. \A q \in Players : step'[q] = IF q \in {p} THEN "idle" ELSE step[q]
      BY <1>6 DEF GiveUp, GoTo, TypeOK, JobOK
    <2> QED BY <1>0, <1>6, <2>1, StopPlayers DEF GiveUp, diskVars
  <1>7. ASSUME NEW p \in Players, NEW d \in Discs \cup {NoKey}, NEW root \in Roots, ReadMarker(p, d, root)
        PROVE  StorageInv'
    <2>1. CASE d = NoKey \/ (d # NoKey /\ marker[d] = Shared)
      <3>1. /\ UNCHANGED <<dirs, file, marker, drawn, step, job, saved>>
            /\ \A q \in Players : q # p => session'[q] = session[q]
            /\ session'[p].store[3] = Shared
        BY <1>7, <2>1 DEF ReadMarker, StartSession, Store, TypeOK, JobOK, diskVars
      <3>2. \A h \in Generations : Hidden(h) => Hidden(h)'
        BY <3>1 DEF Hidden
      <3>3. \A q \in Players : Resetting(q) => job[q].gen \in Generations
        BY DEF TypeOK, JobOK, Resetting, ResetSteps
      <3>4. HiddenInv'
        BY <3>1, <3>2, <3>3 DEF HiddenInv, Resetting
      <3> QED BY <1>0, <3>1, <3>4 DEF ProgressInv, Progress, Target, AloneInv, Resetting, MarkerInv
    <2>2. CASE ~(d = NoKey \/ (d # NoKey /\ marker[d] = Shared))
      <3>1. /\ UNCHANGED <<dirs, file, marker, drawn, session, saved>>
            /\ step'[p] = "check" /\ step[p] = "idle"
            /\ \A q \in Players : q # p => step'[q] = step[q] /\ job'[q] = job[q]
            /\ job'[p].disc = d /\ job'[p].gen = marker[d]
        BY <1>7, <2>2 DEF ReadMarker, GoTo, TypeOK, JobOK, diskVars
      <3>2. d \in Discs /\ marker[d] \in Generations /\ dirs[<<d, marker[d]>>] = Parts
        BY <2>2 DEF TypeOK, JobOK, MarkerInv
      <3>3. \A h \in Generations : Hidden(h) => Hidden(h)'
        BY <3>1, <3>2 DEF Hidden
      <3>4. \A q \in Players : Resetting(q)' =>
              q # p /\ Resetting(q) /\ job'[q] = job[q] /\ job[q].gen \in Generations
        BY <3>1 DEF TypeOK, JobOK, Resetting, ResetSteps
      <3>5. HiddenInv'
        BY <3>1, <3>3, <3>4 DEF HiddenInv
      <3>6. AloneInv'
        BY <3>4 DEF AloneInv
      <3>7. ProgressInv'
        <4> SUFFICES ASSUME NEW q \in Players PROVE Progress(q)'
          BY DEF ProgressInv
        <4>1. CASE q = p
          BY <3>1, <3>2, <4>1 DEF Progress, Target
        <4>2. CASE q # p
          BY <3>1, <4>2 DEF ProgressInv, Progress, Target
        <4> QED BY <4>1, <4>2
      <3> QED BY <1>0, <3>1, <3>5, <3>6, <3>7 DEF MarkerInv
    <2> QED BY <2>1, <2>2
  <1>8. ASSUME NEW p \in Players, CheckDirectories(p) PROVE StorageInv'
    <2>1. /\ UNCHANGED <<dirs, file, marker, drawn, job, saved>>
          /\ step[p] = "check" /\ step'[p] = "idle"
          /\ \A q \in Players : q # p => step'[q] = step[q] /\ session'[q] = session[q]
          /\ session'[p] # session[p] => session'[p].store[3] \in {job[p].gen, Shared}
      BY <1>8 DEF CheckDirectories, StartSession, Store, GoTo, TypeOK, JobOK, diskVars
    <2>2. \A h \in Generations : Hidden(h) => Hidden(h)'
      <3> SUFFICES ASSUME NEW h \in Generations, Hidden(h) PROVE Hidden(h)'
        OBVIOUS
      <3>1. h # job[p].gen /\ h # Shared
        BY <2>1 DEF Hidden
      <3> QED BY <2>1, <3>1 DEF Hidden
    <2>3. \A q \in Players : Resetting(q)' => q # p /\ Resetting(q) /\ job[q].gen \in Generations
      BY <2>1 DEF TypeOK, JobOK, Resetting, ResetSteps
    <2>4. HiddenInv'
      BY <2>1, <2>2, <2>3 DEF HiddenInv
    <2>5. AloneInv'
      BY <2>1, <2>3 DEF AloneInv
    <2> QED BY <1>0, <2>1, <2>4, <2>5 DEF ProgressInv, Progress, Target, MarkerInv
  <1>9. ASSUME NEW p \in Players, Save(p) PROVE StorageInv'
    <2>1. /\ UNCHANGED <<dirs, file, marker, drawn, step, job, session>>
          /\ session[p] # None /\ saved' = saved \cup {<<session[p].store, session[p].disc>>}
      BY <1>9 DEF Save, diskVars
    <2>2. \A h \in Generations : Hidden(h) => Hidden(h)'
      BY <2>1 DEF Hidden
    <2>3. \A q \in Players : Resetting(q) => job[q].gen \in Generations
      BY DEF TypeOK, JobOK, Resetting, ResetSteps
    <2>4. HiddenInv'
      BY <2>1, <2>2, <2>3 DEF HiddenInv, Resetting
    <2> QED BY <1>0, <2>1, <2>4 DEF ProgressInv, Progress, Target, AloneInv, Resetting, MarkerInv
  <1>10. ASSUME NEW p \in Players, CloseDisc(p) \/ Kill(p) PROVE StorageInv'
    <2>1. \A q \in Players : /\ step'[q] = IF q \in {p} THEN "idle" ELSE step[q]
                             /\ session'[q] = session[q] \/ session'[q] = None
      BY <1>10 DEF CloseDisc, Kill, GoTo, TypeOK, JobOK
    <2> QED BY <1>0, <1>10, <2>1, StopPlayers DEF CloseDisc, Kill, diskVars
  <1>11. CASE PowerLoss
    <2>1. \A f \in Discs \X Generations : file'[f] = file[f] \/ file[f] # "flushed"
      BY <1>11 DEF PowerLoss, TypeOK, JobOK
    <2> QED BY <1>0, <1>11, <2>1, StopPlayers DEF PowerLoss
  <1> QED BY <1>1, <1>2, <1>3, <1>4, <1>5, <1>6, <1>7, <1>8, <1>9, <1>10, <1>11 DEF Next, ResetStep, OpenStep

-----------------------------------------------------------------------------
(* The types, and what each player in a step works on, in every behaviour.    *)
THEOREM StorageIsTyped == Spec => []TypeOK
  <1>1. StorageInv => TypeOK
    BY DEF StorageInv
  <1> QED BY StorageStarts, StorageKeeps, <1>1, PTL DEF Spec

(* A reset that fails, is killed or loses power leaves every disc openable.   *)
THEOREM DiscsOpen == Spec => []AlwaysOpens
  <1>1. StorageInv => AlwaysOpens
    BY DEF StorageInv, MarkerInv, AlwaysOpens, Readable
  <1> QED BY StorageStarts, StorageKeeps, <1>1, PTL DEF Spec

-----------------------------------------------------------------------------
(* The refinement: every step is a step of the abstract storage or changes    *)
(* nothing that it sees.                                                      *)
absVars == <<marker, saved, [p \in Players |-> Opened(p)]>>

(* What a player has opened changes only with its own step.                   *)
LEMMA OpenedFrame ==
  ASSUME TypeOK, NEW q \in Players, UNCHANGED <<session, job>>,
         step'[q] = step[q] \/ (step[q] # "check" /\ step'[q] # "check")
  PROVE  Opened(q)' = Opened(q)
  BY DEF Opened, Store

LEMMA AbstractStep == StorageInv /\ [Next]_vars => [Abstract!Next]_absVars
  <1> SUFFICES ASSUME StorageInv, [Next]_vars PROVE Abstract!Next \/ UNCHANGED absVars
    OBVIOUS
  <1> DEFINE opened == [p \in Players |-> Opened(p)]
  <1>0. TypeOK
    BY DEF StorageInv
  <1>1. CASE UNCHANGED vars
    BY <1>1 DEF vars, diskVars, absVars, Opened, Store
  <1>2. ASSUME NEW p \in Players, ResetStep(p), ~Publish(p) PROVE UNCHANGED absVars
    <2>1. /\ UNCHANGED <<marker, saved, session>>
          /\ \A q \in Players : q # p => step'[q] = step[q] /\ job'[q] = job[q]
          /\ step[p] # "check" /\ step'[p] # "check"
      <3>1. CASE \E d \in Discs : BeginReset(p, d)
        BY <3>1, <1>0 DEF BeginReset, GoTo, TypeOK, diskVars
      <3>2. CASE MakeDirectory(p)
        BY <3>2, <1>0 DEF MakeDirectory, AfterDirectory, Parts, GoTo, TypeOK
      <3>3. CASE CreateTemporary(p) \/ WriteTemporary(p) \/ FlushTemporary(p)
        BY <3>3, <1>0 DEF CreateTemporary, WriteTemporary, FlushTemporary, GoTo, TypeOK
      <3>4. CASE GiveUp(p)
        BY <3>4, <1>0 DEF GiveUp, GoTo, TypeOK, Steps, diskVars
      <3> QED BY <1>2, <3>1, <3>2, <3>3, <3>4 DEF ResetStep
    <2>2. \A q \in Players : Opened(q)' = Opened(q)
      BY <2>1 DEF Opened, Store
    <2> QED BY <2>1, <2>2 DEF absVars
  <1>3. ASSUME NEW p \in Players, Publish(p) PROVE Abstract!Next
    <2>1. /\ job[p].disc \in Discs /\ job[p].gen \in Generations
          /\ Hidden(job[p].gen)
      BY <1>3, TargetType DEF Publish, StorageInv, HiddenInv, Resetting, ResetSteps
    <2>2. Abstract!Unused(job[p].disc, job[p].gen)
      <3> SUFFICES ASSUME NEW s \in saved, NEW root \in Roots,
                          s[1] = Abstract!Store(root, job[p].disc, job[p].gen)
                   PROVE  FALSE
        BY DEF Abstract!Unused
      <3>1. s[1][3] = job[p].gen
        BY <2>1 DEF Abstract!Store
      <3> QED BY <2>1, <3>1 DEF Hidden
    <2>3. /\ marker' = [marker EXCEPT ![job[p].disc] = job[p].gen]
          /\ UNCHANGED <<saved, session, job>>
          /\ \A q \in Players : step'[q] = step[q] \/ (step[q] # "check" /\ step'[q] # "check")
      BY <1>0, <1>3 DEF Publish, GoTo, TypeOK
    <2>4. \A q \in Players : Opened(q)' = Opened(q)
      BY <1>0, <2>3, OpenedFrame
    <2>5. Abstract!Reset(job[p].disc)
      BY <2>1, <2>2, <2>3, <2>4 DEF Abstract!Reset
    <2> QED BY <2>1, <2>5 DEF Abstract!Next
  <1>4. ASSUME NEW p \in Players, NEW d \in Discs \cup {NoKey}, NEW root \in Roots, ReadMarker(p, d, root)
        PROVE  Abstract!Next
    <2> DEFINE g == IF d = NoKey THEN Shared ELSE marker[d]
               s == [disc |-> d, store |-> Store(root, d, g)]
    <2>1. /\ Opened(p) = None /\ Opened(p)' = s
          /\ \A q \in Players : q # p => Opened(q)' = Opened(q)
          /\ UNCHANGED <<marker, saved>>
      <3>1. CASE d = NoKey \/ (d # NoKey /\ marker[d] = Shared)
        BY <1>0, <1>4, <3>1 DEF ReadMarker, StartSession, Opened, TypeOK, Store, diskVars
      <3>2. CASE ~(d = NoKey \/ (d # NoKey /\ marker[d] = Shared))
        <4>1. /\ step' = [step EXCEPT ![p] = "check"]
              /\ job' = [job EXCEPT ![p] = [disc |-> d, gen |-> g, root |-> root]]
              /\ step[p] = "idle" /\ session[p] = None /\ UNCHANGED <<marker, saved, session>>
          BY <1>4, <3>2 DEF ReadMarker, GoTo, diskVars
        <4>2. step'[p] = "check" /\ job'[p] = [disc |-> d, gen |-> g, root |-> root]
          BY <1>0, <4>1 DEF TypeOK
        <4>3. \A q \in Players : q # p => step'[q] = step[q] /\ job'[q] = job[q]
          BY <1>0, <4>1 DEF TypeOK
        <4> HIDE DEF g
        <4>4. Opened(p)' = s
          BY <4>2 DEF Opened, Store
        <4>5. \A q \in Players : q # p => Opened(q)' = Opened(q)
          BY <4>1, <4>3 DEF Opened, Store
        <4> QED BY <4>1, <4>4, <4>5 DEF Opened
      <3> QED BY <3>1, <3>2
    <2>2. s = [disc |-> d, store |-> Abstract!Store(root, d, g)]
      BY DEF Store, Abstract!Store
    <2> HIDE DEF s
    <2>3. opened' = [opened EXCEPT ![p] = s] /\ opened[p] = None
      BY <2>1
    <2>4. Abstract!Open(p, d, root)
      BY <2>1, <2>2, <2>3 DEF Abstract!Open
    <2> QED BY <2>4 DEF Abstract!Next
  <1>5. ASSUME NEW p \in Players, CheckDirectories(p) PROVE UNCHANGED absVars
    <2>1. /\ step[p] = "check" /\ dirs[Target(p)] = Parts
          /\ UNCHANGED <<marker, job, saved>>
          /\ session' = [session EXCEPT ![p] = [disc |-> job[p].disc,
                                                store |-> Store(job[p].root, job[p].disc, job[p].gen)]]
          /\ step' = [step EXCEPT ![p] = "idle"]
      BY <1>5 DEF CheckDirectories, StartSession, GoTo, StorageInv, ProgressInv, Progress, diskVars
    <2>2. Opened(p)' = Opened(p)
      BY <1>0, <2>1 DEF Opened, TypeOK
    <2>3. \A q \in Players : q # p => Opened(q)' = Opened(q)
      BY <1>0, <2>1 DEF Opened, Store, TypeOK
    <2> QED BY <2>1, <2>2, <2>3 DEF absVars
  <1>6. ASSUME NEW p \in Players, Save(p) PROVE Abstract!Next
    <2>1. /\ session[p] # None /\ saved' = saved \cup {<<session[p].store, session[p].disc>>}
          /\ UNCHANGED <<marker, step, job, session>>
      BY <1>6 DEF Save, diskVars
    <2>2. opened[p] = session[p]
      BY <1>0, <2>1 DEF TypeOK, JobOK, Opened
    <2>3. opened' = opened
      BY <1>0, <2>1, OpenedFrame
    <2>4. Abstract!Save(p)
      BY <2>1, <2>2, <2>3 DEF Abstract!Save
    <2> QED BY <2>4 DEF Abstract!Next
  <1>7. ASSUME NEW P \in SUBSET Players,
               UNCHANGED <<marker, saved>>,
               \A q \in Players : Opened(q)' = IF q \in P THEN None ELSE Opened(q)
        PROVE  Abstract!Next
    <2>1. Abstract!CloseAll(P)
      BY <1>7 DEF Abstract!CloseAll
    <2> QED BY <2>1 DEF Abstract!Next
  <1>8. ASSUME NEW p \in Players, CloseDisc(p) \/ Kill(p) PROVE Abstract!Next
    <2>1. /\ UNCHANGED <<marker, saved, job>>
          /\ step'[p] = "idle" /\ session'[p] = None
          /\ \A q \in Players : q # p => step'[q] = step[q] /\ session'[q] = session[q]
      BY <1>0, <1>8 DEF CloseDisc, Kill, GoTo, TypeOK, diskVars
    <2>2. \A q \in Players : Opened(q)' = IF q \in {p} THEN None ELSE Opened(q)
      BY <2>1 DEF Opened, Store
    <2> QED BY <2>1, <2>2, <1>7
  <1>9. ASSUME PowerLoss PROVE Abstract!Next
    <2>1. \A q \in Players : Opened(q)' = IF q \in Players THEN None ELSE Opened(q)
      BY <1>9 DEF PowerLoss, Opened
    <2> QED BY <1>9, <2>1, <1>7 DEF PowerLoss
  <1> QED BY <1>1, <1>2, <1>3, <1>4, <1>5, <1>6, <1>8, <1>9, Zenon DEF Next, OpenStep

(* Whatever fails or stops in them, resets and openings look atomic: a reset  *)
(* replaces a disc's store at once by one never used, deletes none, and a     *)
(* session keeps the store it was opened with.                                *)
THEOREM Refinement == Spec => ImplementsStore
  <1>1. Init => Abstract!Init
    BY DEF Init, Abstract!Init, Opened
  <1>2. [Abstract!Next]_absVars => [Abstract!Next]_(<<marker, saved, [p \in Players |-> Opened(p)]>>)
    BY DEF absVars
  <1> QED BY StorageStarts, StorageKeeps, AbstractStep, <1>1, <1>2, PTL DEF Spec, ImplementsStore, Abstract!Spec

-----------------------------------------------------------------------------
(* The catalogue.                                                             *)
CatalogTyped ==
    /\ listing \in [entry : Catalog!Entry, flushed : BOOLEAN]
    /\ editing \in [Players -> Catalog!Job]
    /\ \A p \in Players :
          editing[p].text \in IF editing[p].kind = "remember" THEN Catalog!Names ELSE Aliases

(* No file is ever at the mercy of a power loss.                              *)
ListingIsSafe == listing.flushed

(* A job has what it needs to publish an entry with a name.                   *)
EditingInv ==
    \A p \in Players :
        /\ editing[p].kind = "rename" => editing[p].listed.name # Empty
        /\ editing[p].step \in {"write", "flush", "publish"} => editing[p].entry.name # Empty
        /\ editing[p].step = "publish" => editing[p].flushed

CatalogInv == CatalogTyped /\ ListingIsSafe /\ EditingInv

-----------------------------------------------------------------------------
LEMMA IdleIsTyped ==
    /\ Catalog!Idle \in Catalog!Job /\ Catalog!NoEntry \in Catalog!Entry
    /\ Catalog!Idle.text \in Catalog!Names
  BY DEF Catalog!Idle, Catalog!Job, Catalog!Steps, Catalog!Entry, Catalog!NoEntry, Catalog!Names

LEMMA CatalogStarts == ASSUME Catalog!Init PROVE CatalogInv
  BY IdleIsTyped DEF Catalog!Init, CatalogInv, CatalogTyped, ListingIsSafe, EditingInv, Catalog!Idle

(* A player that does nothing but replace its job leaves the invariant to it. *)
LEMMA OwnEditing ==
    ASSUME CatalogInv, NEW p \in Players, NEW j \in Catalog!Job,
           j.text \in IF j.kind = "remember" THEN Catalog!Names ELSE Aliases,
           j.kind = "rename" => j.listed.name # Empty,
           j.step \in {"write", "flush", "publish"} => j.entry.name # Empty,
           j.step = "publish" => j.flushed,
           editing' = [editing EXCEPT ![p] = j],
           listing' \in [entry : Catalog!Entry, flushed : BOOLEAN], listing'.flushed
    PROVE  CatalogInv'
  <1>1. editing' \in [Players -> Catalog!Job] /\ editing'[p] = j
        /\ \A q \in Players : q # p => editing'[q] = editing[q]
    BY DEF CatalogInv, CatalogTyped
  <1>2. CatalogTyped'
    BY <1>1 DEF CatalogInv, CatalogTyped
  <1>3. EditingInv'
    BY <1>1 DEF CatalogInv, EditingInv
  <1> QED BY <1>2, <1>3 DEF CatalogInv, ListingIsSafe

(* What is written back has a name.                                           *)
LEMMA EditedHasName ==
    ASSUME Catalog!Constants, NEW j \in Catalog!Job, NEW e \in Catalog!Entry,
           j.text \in IF j.kind = "remember" THEN Catalog!Names ELSE Aliases,
           j.kind = "rename" => j.listed.name # Empty
    PROVE  Catalog!Edited(j, e) \in Catalog!Entry /\ Catalog!Edited(j, e).name # Empty
  BY DEF Catalog!Edited, Catalog!Job, Catalog!Entry, Catalog!Names, Catalog!Constants

(* The invariant is inductive.                                                *)
LEMMA CatalogKeeps ==
    ASSUME Catalog!Constants, CatalogInv, [Catalog!Next]_(Catalog!vars) PROVE CatalogInv'
  <1>1. ASSUME NEW p \in Players, Catalog!Step(p) PROVE CatalogInv'
    <2>1. editing[p] \in Catalog!Job /\ listing \in [entry : Catalog!Entry, flushed : BOOLEAN]
          /\ listing.flushed
          /\ editing[p].text \in IF editing[p].kind = "remember" THEN Catalog!Names ELSE Aliases
      BY DEF CatalogInv, CatalogTyped, ListingIsSafe
    <2>2. /\ editing[p].kind = "rename" => editing[p].listed.name # Empty
          /\ editing[p].step \in {"write", "flush", "publish"} => editing[p].entry.name # Empty
          /\ editing[p].step = "publish" => editing[p].flushed
      BY DEF CatalogInv, EditingInv
    <2>3. ASSUME editing' = [editing EXCEPT ![p] = Catalog!Idle],
                 listing' \in [entry : Catalog!Entry, flushed : BOOLEAN], listing'.flushed
          PROVE  CatalogInv'
      BY <2>3, IdleIsTyped, OwnEditing DEF Catalog!Idle
    <2>4. ASSUME NEW name \in DiscNames, Catalog!Remember(p, name) PROVE CatalogInv'
      <3> DEFINE j == [Catalog!Idle EXCEPT !.step = "readName", !.text = name]
      <3>1. j \in Catalog!Job /\ j.text \in Catalog!Names /\ j.kind = "remember" /\ j.step = "readName"
        BY IdleIsTyped DEF Catalog!Idle, Catalog!Job, Catalog!Steps, Catalog!Names
      <3>2. editing' = [editing EXCEPT ![p] = j] /\ listing' = listing
        BY <2>4 DEF Catalog!Remember
      <3> HIDE DEF j
      <3> QED BY <2>1, <3>1, <3>2, OwnEditing
    <2>5. ASSUME NEW alias \in Aliases, Catalog!Rename(p, alias) PROVE CatalogInv'
      <3> DEFINE j == [Catalog!Idle EXCEPT !.step = "readName", !.kind = "rename",
                                           !.text = alias, !.listed = listing.entry]
      <3>1. j \in Catalog!Job /\ j.text \in Aliases /\ j.kind = "rename" /\ j.step = "readName"
            /\ j.listed = listing.entry
        BY <2>1, IdleIsTyped DEF Catalog!Idle, Catalog!Job, Catalog!Steps, Catalog!Names
      <3>2. editing' = [editing EXCEPT ![p] = j] /\ listing' = listing /\ listing.entry.name # Empty
        BY <2>5 DEF Catalog!Rename
      <3> HIDE DEF j
      <3> QED BY <2>1, <3>1, <3>2, OwnEditing
    <2>6. ASSUME Catalog!ReadName(p) PROVE CatalogInv'
      <3> DEFINE j == [editing[p] EXCEPT !.step = "readAlias", !.entry.name = listing.entry.name]
      <3>1. j \in Catalog!Job /\ j.text = editing[p].text /\ j.kind = editing[p].kind
            /\ j.step = "readAlias"
            /\ j.listed = editing[p].listed
        BY <2>1 DEF Catalog!Job, Catalog!Steps, Catalog!Entry
      <3>2. editing' = [editing EXCEPT ![p] = j] /\ listing' = listing
        BY <2>6 DEF Catalog!ReadName, CatalogInv, CatalogTyped
      <3> HIDE DEF j
      <3> QED BY <2>1, <2>2, <3>1, <3>2, OwnEditing
    <2>7. ASSUME Catalog!ReadAlias(p) PROVE CatalogInv'
      <3> DEFINE read == [editing[p].entry EXCEPT !.alias = listing.entry.alias]
                 e == Catalog!Edited(editing[p], read)
                 j == [editing[p] EXCEPT !.step = "write", !.entry = e]
      <3>1. read \in Catalog!Entry
        BY <2>1 DEF Catalog!Job, Catalog!Entry
      <3>2. e \in Catalog!Entry /\ e.name # Empty
        <4> HIDE DEF read
        <4> QED BY <2>1, <2>2, <3>1, EditedHasName
      <3>3. editing' = [editing EXCEPT ![p] = j] /\ listing' = listing
        BY <2>7 DEF Catalog!ReadAlias, CatalogInv, CatalogTyped
      <3> HIDE DEF e
      <3>4. j \in Catalog!Job /\ j.text = editing[p].text /\ j.kind = editing[p].kind
            /\ j.step = "write"
            /\ j.listed = editing[p].listed /\ j.entry = e
        BY <2>1, <3>2 DEF Catalog!Job, Catalog!Steps
      <3> HIDE DEF j
      <3> QED BY <2>1, <2>2, <3>2, <3>3, <3>4, OwnEditing
    <2>8. ASSUME Catalog!WriteTemporary(p) PROVE CatalogInv'
      <3> DEFINE j == [editing[p] EXCEPT !.step = "flush"]
      <3>1. j \in Catalog!Job /\ j.text = editing[p].text /\ j.kind = editing[p].kind
            /\ j.step = "flush"
            /\ j.listed = editing[p].listed /\ j.entry = editing[p].entry
        BY <2>1 DEF Catalog!Job, Catalog!Steps
      <3>2. listing' = listing
            /\ (editing' = [editing EXCEPT ![p] = j] \/ editing' = [editing EXCEPT ![p] = Catalog!Idle])
        BY <2>8 DEF Catalog!WriteTemporary, CatalogInv, CatalogTyped
      <3>3. editing[p].entry.name # Empty
        BY <2>2, <2>8 DEF Catalog!WriteTemporary
      <3> HIDE DEF j
      <3> QED BY <2>1, <2>2, <2>3, <3>1, <3>2, <3>3, OwnEditing
    <2>9. ASSUME Catalog!Flush(p) PROVE CatalogInv'
      <3> DEFINE j == [editing[p] EXCEPT !.step = "publish", !.flushed = TRUE]
      <3>1. j \in Catalog!Job /\ j.text = editing[p].text /\ j.kind = editing[p].kind
            /\ j.step = "publish"
            /\ j.listed = editing[p].listed /\ j.entry = editing[p].entry /\ j.flushed
        BY <2>1 DEF Catalog!Job, Catalog!Steps
      <3>2. listing' = listing
            /\ (editing' = [editing EXCEPT ![p] = j] \/ editing' = [editing EXCEPT ![p] = Catalog!Idle])
        BY <2>9 DEF Catalog!Flush, CatalogInv, CatalogTyped
      <3>3. editing[p].entry.name # Empty
        BY <2>2, <2>9 DEF Catalog!Flush
      <3> HIDE DEF j
      <3> QED BY <2>1, <2>2, <2>3, <3>1, <3>2, <3>3, OwnEditing
    <2>10. ASSUME Catalog!Publish(p) PROVE CatalogInv'
      <3>1. listing' \in [entry : Catalog!Entry, flushed : BOOLEAN] /\ listing'.flushed
        BY <2>1, <2>2, <2>10 DEF Catalog!Publish, Catalog!Job
      <3> QED BY <2>3, <2>10, <3>1 DEF Catalog!Publish
    <2>11. ASSUME Catalog!Kill(p) PROVE CatalogInv'
      BY <2>1, <2>3, <2>11 DEF Catalog!Kill
    <2> QED BY <1>1, <2>4, <2>5, <2>6, <2>7, <2>8, <2>9, <2>10, <2>11 DEF Catalog!Step
  <1>2. CASE Catalog!PowerLoss
    <2>1. listing' = listing /\ editing' = [p \in Players |-> Catalog!Idle]
      BY <1>2 DEF Catalog!PowerLoss, CatalogInv, ListingIsSafe
    <2> QED BY <2>1, IdleIsTyped DEF CatalogInv, CatalogTyped, ListingIsSafe, EditingInv, Catalog!Idle
  <1>3. CASE UNCHANGED Catalog!vars
    BY <1>3 DEF Catalog!vars, CatalogInv, CatalogTyped, ListingIsSafe, EditingInv
  <1> QED BY <1>1, <1>2, <1>3 DEF Catalog!Next

-----------------------------------------------------------------------------
(* The catalogue as a part of all files: what a behaviour does to another     *)
(* part changes nothing here.                                                 *)
LEMMA CatalogRuns == FilesSpec => Catalog!Spec
  <1>1. FilesInit => Catalog!Init
    BY DEF FilesInit
  <1>2. [FilesNext]_filesVars => [Catalog!Next]_(Catalog!vars)
    BY DEF FilesNext, filesVars, catalogVars, Catalog!vars
  <1> QED BY <1>1, <1>2, PTL DEF FilesSpec, Catalog!Spec

LEMMA CatalogInvariant == Catalog!Spec => []CatalogInv
  <1>1. Catalog!Init => CatalogInv
    BY CatalogStarts
  <1>2. CatalogInv /\ [Catalog!Next]_(Catalog!vars) => CatalogInv'
    BY CatalogKeeps, FilesAssumption
  <1> QED BY <1>1, <1>2, PTL DEF Catalog!Spec

-----------------------------------------------------------------------------
(* A disc once listed stays listed, whatever players do to its entry and      *)
(* whenever they are killed or the power goes (BlurayCatalog::Remember,       *)
(* OnEndRename).                                                              *)
THEOREM ListedDiscsStay == FilesSpec => StaysListed
  <1>1. CatalogInv /\ [Catalog!Next]_(Catalog!vars)
            => [listing.entry.name # Empty => listing'.entry.name # Empty]_(Catalog!vars)
    <2> SUFFICES ASSUME CatalogInv, Catalog!Next, listing.entry.name # Empty
                 PROVE  listing'.entry.name # Empty
      BY DEF Catalog!vars
    <2>1. CASE Catalog!PowerLoss
      BY <2>1 DEF Catalog!PowerLoss, CatalogInv, ListingIsSafe
    <2>2. ASSUME NEW p \in Players, Catalog!Publish(p) PROVE listing'.entry.name # Empty
      BY <2>2 DEF Catalog!Publish, CatalogInv, EditingInv
    <2>3. ASSUME NEW p \in Players, Catalog!Step(p), ~Catalog!Publish(p) PROVE listing' = listing
      BY <2>3 DEF Catalog!Step, Catalog!Remember, Catalog!Rename, Catalog!ReadName, Catalog!ReadAlias,
                  Catalog!WriteTemporary, Catalog!Flush, Catalog!Kill
    <2> QED BY <2>1, <2>2, <2>3 DEF Catalog!Next
  <1> QED BY <1>1, CatalogInvariant, CatalogRuns, PTL DEF Catalog!Spec, Catalog!StaysListed, StaysListed

-----------------------------------------------------------------------------
(* The settings.  What was proved of them is proved of the definitions of     *)
(* ProfileStore_proofs, which are those of Persistence's instance under other *)
(* names.                                                                     *)
Stored == INSTANCE ProfileStore_proofs WITH file <- ini

LEMMA SettingsSteps == Settings!Next => Stored!Next
  <1>1. /\ Settings!Stores = Stored!Stores /\ Settings!NoSettings = Stored!NoSettings
        /\ Settings!NewProfile = Stored!NewProfile
    BY DEF Settings!Stores, Stored!Stores, Settings!NoSettings, Stored!NoSettings, Settings!NewProfile,
        Stored!NewProfile
  <1>2. ASSUME NEW c, NEW content, NEW k, NEW v
        PROVE  /\ Settings!InitIni(c, content) = Stored!InitIni(c, content)
               /\ Settings!Written(c, content, k, v) = Stored!Written(c, content, k, v)
               /\ Settings!Torn(c, content) = Stored!Torn(c, content)
    BY DEF Settings!InitIni, Stored!InitIni, Settings!Written, Stored!Written, Settings!Torn, Stored!Torn,
        Settings!NoSettings, Stored!NoSettings
  <1>3. ASSUME NEW p, NEW s, NEW c, NEW l
        PROVE  /\ Settings!Become(p, s, c) <=> Stored!Become(p, s, c)
               /\ Settings!GoTo(p, l) <=> Stored!GoTo(p, l)
               /\ Settings!Clear(p, s) <=> Stored!Clear(p, s)
    BY DEF Settings!Become, Stored!Become, Settings!GoTo, Stored!GoTo, Settings!Clear, Stored!Clear,
        Settings!NoSettings, Stored!NoSettings
  <1>4. ASSUME NEW c, NEW force PROVE Settings!MustFlush(c, force) <=> Stored!MustFlush(c, force)
    BY DEF Settings!MustFlush, Stored!MustFlush
  <1>5. ASSUME NEW p, NEW s, NEW force PROVE Settings!Flush(p, s, force) <=> Stored!Flush(p, s, force)
    BY <1>2, <1>3, <1>4 DEF Settings!Flush, Stored!Flush
  <1>6. ASSUME NEW p
        PROVE  /\ Settings!Launch(p) <=> Stored!Launch(p)
               /\ Settings!FirstRun(p) <=> Stored!FirstRun(p)
    BY <1>1, <1>2, <1>3 DEF Settings!Launch, Stored!Launch, Settings!FirstRun, Stored!FirstRun
  <1>7. ASSUME NEW p PROVE Settings!SetupHistoryStore(p) <=> Stored!SetupHistoryStore(p)
    BY DEF Settings!SetupHistoryStore, Stored!SetupHistoryStore, Settings!Accepted, Stored!Accepted,
        Settings!InitIni, Stored!InitIni, Settings!Written, Stored!Written, Settings!Become,
        Stored!Become, Settings!GoTo, Stored!GoTo
  <1>8. ASSUME NEW p
        PROVE  /\ Settings!FlushSplit(p) <=> Stored!FlushSplit(p)
               /\ Settings!FlushMain(p) <=> Stored!FlushMain(p)
               /\ Settings!FlushHistory(p) <=> Stored!FlushHistory(p)
               /\ Settings!FlushReset(p) <=> Stored!FlushReset(p)
    BY <1>3, <1>5 DEF Settings!FlushSplit, Stored!FlushSplit, Settings!FlushMain, Stored!FlushMain,
        Settings!FlushHistory, Stored!FlushHistory, Settings!FlushReset, Stored!FlushReset
  <1>9. ASSUME NEW p
        PROVE  /\ Settings!Ready(p) <=> Stored!Ready(p)
               /\ Settings!BeginReset(p) <=> Stored!BeginReset(p)
               /\ Settings!EndReset(p) <=> Stored!EndReset(p)
    BY <1>3 DEF Settings!Ready, Stored!Ready, Settings!BeginReset, Stored!BeginReset, Settings!EndReset,
        Stored!EndReset
  <1>10. ASSUME NEW p PROVE Settings!SetDefaults(p) <=> Stored!SetDefaults(p)
    BY DEF Settings!SetDefaults, Stored!SetDefaults, Settings!InitIni, Stored!InitIni, Settings!Written,
        Stored!Written, Settings!Become, Stored!Become, Settings!GoTo, Stored!GoTo
  <1>11. ASSUME NEW p PROVE Settings!Stop(p) <=> Stored!Stop(p)
    BY DEF Settings!Stop, Stored!Stop, Settings!Stores, Stored!Stores, Settings!NewProfile,
        Stored!NewProfile, Settings!NoSettings, Stored!NoSettings, Settings!MustFlush, Stored!MustFlush,
        Settings!Torn, Stored!Torn, Settings!GoTo, Stored!GoTo
  <1>12. ASSUME NEW p, NEW s PROVE Settings!Use(p, s) <=> Stored!Use(p, s)
    BY <1>2, <1>3 DEF Settings!Use, Stored!Use
  <1>13. ASSUME NEW p PROVE Settings!Write(p) <=> Stored!Write(p)
    <2>1. ASSUME NEW s, NEW k, NEW v PROVE Settings!Change(p, s, k, v) <=> Stored!Change(p, s, k, v)
      BY <1>2, <1>3 DEF Settings!Change, Stored!Change
    <2> QED BY <2>1 DEF Settings!Write, Stored!Write
  <1> QED BY <1>1, <1>6, <1>7, <1>8, <1>9, <1>10, <1>11, <1>12, <1>13
             DEF Settings!Next, Stored!Next, Settings!Settle, Stored!Settle

LEMMA SettingsRun == FilesSpec => Stored!Spec
  <1>1. FilesInit => Stored!Init
    BY DEF FilesInit, Settings!Init, Stored!Init, Settings!Stores, Stored!Stores,
           Settings!NewProfile, Stored!NewProfile, Settings!NoSettings, Stored!NoSettings
  <1>2. [FilesNext]_filesVars => [Stored!Next]_(Stored!vars)
    BY SettingsSteps DEF FilesNext, filesVars, settingsVars, Stored!vars
  <1> QED BY <1>1, <1>2, PTL DEF FilesSpec, Stored!Spec

LEMMA StoredConstants == Stored!Constants
  BY FilesAssumption DEF Settings!Constants, Stored!Constants

-----------------------------------------------------------------------------
(* What a file holds is always settings, however many writings stopped        *)
(* halfway (CProfile::Flush).                                                 *)
THEOREM SettingsTyped == FilesSpec => []Settings!TypeOK
  <1>1. Stored!Spec => []Stored!TypeOK
    BY StoredConstants, Stored!TypeCorrect
  <1>2. Stored!TypeOK => Settings!TypeOK
    BY DEF Settings!TypeOK, Stored!TypeOK, Settings!Stores, Stored!Stores, Settings!Settings, Stored!Settings,
           Settings!Profile, Stored!Profile, Settings!PCs, Stored!PCs
  <1> QED BY <1>1, <1>2, SettingsRun, PTL

(* A file that a running player left half written is still to be flushed by   *)
(* it, through the split of the history and a reset too (CProfile::Flush,     *)
(* SetupHistoryStore).                                                        *)
THEOREM TornFilesAreRetried == FilesSpec => []TornIsRetried
  <1>1. Stored!Spec => []Stored!TornIsRetried
    BY StoredConstants, Stored!TornAreRetried
  <1>2. Stored!TornIsRetried => TornIsRetried
    BY DEF TornIsRetried, Settings!TornIsRetried, Stored!TornIsRetried, Settings!Stores, Stored!Stores
  <1> QED BY <1>1, <1>2, SettingsRun, PTL

(* A player that could not read a file does not overwrite it, whatever it     *)
(* changes and however it ends, while no other player runs (CProfile::Flush,  *)
(* InitIni).                                                                  *)
THEOREM UnreadFilesAreKept == FilesSpec => UnreadKept
  <1>1. Stored!Spec => Stored!UnreadKept
    BY StoredConstants, Stored!UnreadAreKept
  <1> DEFINE Kept(nothing, stores) ==
               \A p \in Players, s \in stores :
                   /\ store[p][s].readFailed /\ \A q \in Players \ {p} : pc[q] = "down"
                   /\ pc[p] # "cleared" /\ pc'[p] # "reset" /\ ini[s] \notin {Missing, nothing}
                   => ini'[s] = ini[s]
  <1>2. [Kept(Stored!NoSettings, Stored!Stores)]_(Stored!vars)
            => [Kept(Settings!NoSettings, Settings!Stores)]_(Settings!vars)
    BY DEF Settings!Stores, Stored!Stores, Settings!NoSettings, Stored!NoSettings, Settings!vars, Stored!vars
  <1> QED BY <1>1, <1>2, SettingsRun, PTL DEF Settings!UnreadKept, Stored!UnreadKept, UnreadKept
==============================================================================
