------------------------------ MODULE DiscStorage ------------------------------
(***************************************************************************)
(* Per-disc storage of Blu-ray Java (BlurayDiscStorage.h).  A reset makes  *)
(* the directories of a new generation, writes its name to a temporary     *)
(* file, flushes it and renames it over the disc's marker, active.txt;     *)
(* each of these calls may fail, the player may be killed between any two, *)
(* and the power may go.  Resolve reads the marker, then looks at the      *)
(* directories.  Several players share the data directory.                 *)
(*                                                                         *)
(* Renaming is atomic and ordered with the other changes of directories    *)
(* (the file system's journal); what a file holds is safe from a power     *)
(* loss only once it was flushed.                                          *)
(***************************************************************************)
CONSTANTS Discs, NoKey, Generations, Players,
          Default, Roots,       \* the data directory, and the roots a player may use
          Shared,               \* no marker, or the storage all discs share
          None

ASSUME StorageAssumption ==
    /\ NoKey \notin Discs /\ Shared \notin Generations
    /\ Default \in Roots

VARIABLES dirs,     \* directories of each disc's generations
          file,     \* what the file with a generation's name holds
          marker,   \* the generation whose file is a disc's active.txt
          drawn,    \* names CoCreateGuid has returned
          step,     \* of each player: the reset or the opening under way
          job,      \* ... its disc, its generation and its root
          session,  \* of each player: the disc it plays and its store
          saved     \* what the discs' programs saved, and where

diskVars == <<dirs, file, marker>>
vars == <<diskVars, drawn, step, job, session, saved>>

Parts == {"root", "persistent", "cache"}
Contents == {"none", "empty", "part", "whole", "flushed"}
Steps == {"idle", "root", "persistent", "cache", "create", "write", "flush", "publish", "check"}
Stores == Roots \X (Discs \cup {NoKey}) \X (Generations \cup {Shared})
Session == [disc : Discs \cup {NoKey}, store : Stores]
Job == [disc : Discs \cup {NoKey}, gen : Generations \cup {Shared}, root : Roots]

(* What a player works on, and that it plays nothing while it opens a disc.   *)
JobOK ==
    \A q \in Players :
        /\ step[q] # "idle" => job[q].disc \in Discs /\ job[q].gen \in drawn
        /\ step[q] = "check" => session[q] = None

TypeOK ==
    /\ dirs \in [Discs \X Generations -> SUBSET Parts]
    /\ file \in [Discs \X Generations -> Contents]
    /\ marker \in [Discs -> Generations \cup {Shared}]
    /\ drawn \subseteq Generations
    /\ step \in [Players -> Steps]
    /\ job \in [Players -> Job]
    /\ session \in [Players -> Session \cup {None}]
    /\ saved \subseteq Stores \X (Discs \cup {NoKey})
    /\ JobOK

Init ==
    /\ dirs = [f \in Discs \X Generations |-> {}]
    /\ file = [f \in Discs \X Generations |-> "none"]
    /\ marker = [d \in Discs |-> Shared]
    /\ drawn = {}
    /\ step = [p \in Players |-> "idle"]
    /\ job \in [Players -> {[disc |-> NoKey, gen |-> Shared, root |-> Default]}]
    /\ session = [p \in Players |-> None]
    /\ saved = {}

GoTo(p, s) == step' = [step EXCEPT ![p] = s]

-----------------------------------------------------------------------------
(* Reset.                                                                     *)

(* CoCreateGuid never returns a name twice.                                   *)
Fresh(g) == g \notin drawn

BeginReset(p, d) ==
    /\ step[p] = "idle"
    /\ \E g \in Generations :
         /\ Fresh(g)
         /\ drawn' = drawn \cup {g}
         /\ job' = [job EXCEPT ![p] = [disc |-> d, gen |-> g, root |-> Default]]
    /\ GoTo(p, "root")
    /\ UNCHANGED <<diskVars, session, saved>>

Target(p) == <<job[p].disc, job[p].gen>>

AfterDirectory(s) == CASE s = "root" -> "persistent" [] s = "persistent" -> "cache"
                       [] OTHER -> "create"

(* Mutant: the cache directory is left to the session that first needs it.   *)
MakeDirectory_NoCache(p) ==
    /\ step[p] \in {"root", "persistent"}
    /\ dirs' = [dirs EXCEPT ![Target(p)] = @ \cup {step[p]}]
    /\ GoTo(p, IF step[p] = "root" THEN "persistent" ELSE "create")
    /\ UNCHANGED <<file, marker, drawn, job, session, saved>>

MakeDirectory(p) ==
    /\ step[p] \in Parts
    /\ dirs' = [dirs EXCEPT ![Target(p)] = @ \cup {step[p]}]
    /\ GoTo(p, AfterDirectory(step[p]))
    /\ UNCHANGED <<file, marker, drawn, job, session, saved>>

CreateTemporary(p) ==
    /\ step[p] = "create" /\ file[Target(p)] = "none"
    /\ file' = [file EXCEPT ![Target(p)] = "empty"]
    /\ GoTo(p, "write")
    /\ UNCHANGED <<dirs, marker, drawn, job, session, saved>>

(* Mutant: the file is renamed without being flushed.                         *)
WriteTemporary_NoFlush(p) ==
    /\ step[p] = "write"
    /\ \/ file' = [file EXCEPT ![Target(p)] = "whole"] /\ GoTo(p, "publish")
       \/ file' = [file EXCEPT ![Target(p)] = "part"] /\ GoTo(p, "idle")
    /\ UNCHANGED <<dirs, marker, drawn, job, session, saved>>

(* A short write gives up.                                                    *)
WriteTemporary(p) ==
    /\ step[p] = "write"
    /\ \/ file' = [file EXCEPT ![Target(p)] = "whole"] /\ GoTo(p, "flush")
       \/ file' = [file EXCEPT ![Target(p)] = "part"] /\ GoTo(p, "idle")
    /\ UNCHANGED <<dirs, marker, drawn, job, session, saved>>

FlushTemporary(p) ==
    /\ step[p] = "flush"
    /\ file' = [file EXCEPT ![Target(p)] = "flushed"]
    /\ GoTo(p, "publish")
    /\ UNCHANGED <<dirs, marker, drawn, job, session, saved>>

Publish(p) ==
    /\ step[p] = "publish"
    /\ marker' = [marker EXCEPT ![job[p].disc] = job[p].gen]
    /\ GoTo(p, "idle")
    /\ UNCHANGED <<dirs, file, drawn, job, session, saved>>

(* Any of the calls fails, MoveFileEx too, when the marker is open elsewhere. *)
GiveUp(p) ==
    /\ step[p] \in Steps \ {"idle", "check"}
    /\ GoTo(p, "idle")
    /\ UNCHANGED <<diskVars, drawn, job, session, saved>>

-----------------------------------------------------------------------------
(* Resolve, on the opening of a disc, and the session that follows.           *)
Readable(f) == file[f] \in {"whole", "flushed"}

(* Mutant: the path has the generation and not the disc.                      *)
Store_NoKey(root, d, g) == <<root, NoKey, g>>

(* A root of the player's own has the same discs and generations below it.    *)
Store(root, d, g) == IF g = Shared THEN <<root, NoKey, Shared>> ELSE <<root, d, g>>

StartSession(p, d, g, root) ==
    session' = [session EXCEPT ![p] = [disc |-> d, store |-> Store(root, d, g)]]

(* Mutant: the disc is opened while another one is still played.             *)
ReadMarker_Twice(p, d, root) ==
    /\ step[p] = "idle"
    /\ IF d = NoKey \/ (d # NoKey /\ marker[d] = Shared)
       THEN StartSession(p, d, Shared, root) /\ UNCHANGED <<step, job>>
       ELSE /\ Readable(<<d, marker[d]>>)
            /\ job' = [job EXCEPT ![p] = [disc |-> d, gen |-> marker[d], root |-> root]]
            /\ GoTo(p, "check")
            /\ UNCHANGED session
    /\ UNCHANGED <<diskVars, drawn, saved>>

(* No key and no marker mean the shared storage; a marker that cannot be      *)
(* read fails closed.                                                         *)
ReadMarker(p, d, root) ==
    /\ step[p] = "idle" /\ session[p] = None
    /\ IF d = NoKey \/ (d # NoKey /\ marker[d] = Shared)
       THEN StartSession(p, d, Shared, root) /\ UNCHANGED <<step, job>>
       ELSE /\ Readable(<<d, marker[d]>>)
            /\ job' = [job EXCEPT ![p] = [disc |-> d, gen |-> marker[d], root |-> root]]
            /\ GoTo(p, "check")
            /\ UNCHANGED session
    /\ UNCHANGED <<diskVars, drawn, saved>>

CheckDirectories(p) ==
    /\ step[p] = "check"
    /\ IF dirs[Target(p)] = Parts
       THEN StartSession(p, job[p].disc, job[p].gen, job[p].root)
       ELSE UNCHANGED session
    /\ GoTo(p, "idle")
    /\ UNCHANGED <<diskVars, drawn, job, saved>>

(* The Java machine saves from its own threads, during a reset too.           *)
Save(p) ==
    /\ session[p] # None
    /\ saved' = saved \cup {<<session[p].store, session[p].disc>>}
    /\ UNCHANGED <<diskVars, drawn, step, job, session>>

CloseDisc(p) ==
    /\ step[p] = "idle" /\ session[p] # None
    /\ session' = [session EXCEPT ![p] = None]
    /\ UNCHANGED <<diskVars, drawn, step, job, saved>>

-----------------------------------------------------------------------------
(* Faults.                                                                    *)
Kill(p) ==
    /\ step[p] # "idle" \/ session[p] # None
    /\ GoTo(p, "idle")
    /\ session' = [session EXCEPT ![p] = None]
    /\ UNCHANGED <<diskVars, drawn, job, saved>>

(* What was written and not flushed may be lost.                              *)
PowerLoss ==
    /\ \E lost \in SUBSET {f \in DOMAIN file : file[f] \in {"part", "whole"}} :
         file' = [f \in DOMAIN file |-> IF f \in lost THEN "empty" ELSE file[f]]
    /\ step' = [p \in Players |-> "idle"]
    /\ session' = [p \in Players |-> None]
    /\ UNCHANGED <<dirs, marker, drawn, job, saved>>

ResetStep(p) ==
    \/ \E d \in Discs : BeginReset(p, d)
    \/ MakeDirectory(p) \/ CreateTemporary(p) \/ WriteTemporary(p)
    \/ FlushTemporary(p) \/ Publish(p) \/ GiveUp(p)

OpenStep(p) ==
    \/ \E d \in Discs \cup {NoKey}, root \in Roots : ReadMarker(p, d, root)
    \/ CheckDirectories(p) \/ Save(p) \/ CloseDisc(p)

Next ==
    \/ \E p \in Players : ResetStep(p) \/ OpenStep(p) \/ Kill(p)
    \/ PowerLoss

Spec == Init /\ [][Next]_vars

-----------------------------------------------------------------------------
(* Properties.                                                                *)

(* Whatever fails, is killed or loses power in a reset, by any number of      *)
(* players, every disc can be opened afterwards: its marker, if it has one,   *)
(* is whole and names a generation whose directories exist.                   *)
AlwaysOpens ==
    \A d \in Discs : marker[d] # Shared =>
        /\ Readable(<<d, marker[d]>>)
        /\ dirs[<<d, marker[d]>>] = Parts

(* The detailed storage implements the abstract one.  A session begins when   *)
(* the marker is read, for what follows cannot fail.                          *)
Opened(p) ==
    IF step[p] = "check"
    THEN [disc |-> job[p].disc, store |-> Store(job[p].root, job[p].disc, job[p].gen)]
    ELSE session[p]

Abstract == INSTANCE DiscStore WITH
    current <- marker, session <- [p \in Players |-> Opened(p)]

(* Resets are atomic and start from nothing; sessions keep their storage.     *)
ImplementsStore == Abstract!Spec
=============================================================================
