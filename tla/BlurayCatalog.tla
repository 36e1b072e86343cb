----------------------------- MODULE BlurayCatalog -----------------------------
(***************************************************************************)
(* One entry of the catalogue of Blu-ray discs (BlurayCatalog.h): the name *)
(* of the disc and the alias its user gives it, in one file.  A player     *)
(* that opens the disc remembers it: it reads the entry, sets the name and *)
(* writes the entry back.  The dialog of discs renames it: it reads the    *)
(* entry, sets the alias and writes it back.  Several players share the    *)
(* catalogue; none locks it, each may be killed, and the power may go.     *)
(***************************************************************************)
CONSTANTS Players,
          DiscNames,    \* what the disc may call itself: a name, or Empty
          Key,          \* its key, shown when it has no name
          Aliases, Empty

VARIABLES file,     \* the entry on disk, and whether it is safe from a power loss
          job       \* of each player: its step, what it writes and why

vars == <<file, job>>

(* What the constants have to be.                                             *)
Constants == Key # Empty

Names == DiscNames \cup {Key, Empty}
Entry == [name : Names, alias : Aliases \cup {Empty}]
NoEntry == [name |-> Empty, alias |-> Empty]
Steps == {"idle", "readName", "readAlias", "write", "flush", "publish"}
Job == [step : Steps, kind : {"remember", "rename"}, text : Names \cup Aliases,
        listed : Entry, entry : Entry, flushed : BOOLEAN]
Idle == [step |-> "idle", kind |-> "remember", text |-> Empty,
         listed |-> NoEntry, entry |-> NoEntry, flushed |-> FALSE]

Init ==
    /\ file = [entry |-> NoEntry, flushed |-> TRUE]
    /\ job = [p \in Players |-> Idle]

Remember(p, name) ==
    /\ job[p].step = "idle"
    /\ job' = [job EXCEPT ![p] = [Idle EXCEPT !.step = "readName", !.text = name]]
    /\ UNCHANGED file

(* The dialog shows the discs that have an entry, as it last listed them.     *)
Rename(p, alias) ==
    /\ job[p].step = "idle" /\ file.entry.name # Empty
    /\ job' = [job EXCEPT ![p] = [Idle EXCEPT !.step = "readName", !.kind = "rename",
                                              !.text = alias, !.listed = file.entry]]
    /\ UNCHANGED file

(* Every field is read by a call that opens the file anew.                    *)
ReadName(p) ==
    /\ job[p].step = "readName"
    /\ job' = [job EXCEPT ![p].step = "readAlias", ![p].entry.name = file.entry.name]
    /\ UNCHANGED file

(* Mutant: a disc without a name is remembered without one.                   *)
Edited_NoKey(j, e) ==
    IF j.kind = "remember" THEN [e EXCEPT !.name = j.text]
    ELSE [(IF e.name = Empty THEN j.listed ELSE e) EXCEPT !.alias = j.text]

(* Mutant: remembering a disc writes its name over the alias too.             *)
Edited_Alias(j, e) ==
    IF j.kind = "remember" THEN [name |-> IF j.text = Empty THEN Key ELSE j.text, alias |-> j.text]
    ELSE [(IF e.name = Empty THEN j.listed ELSE e) EXCEPT !.alias = j.text]

(* What Remember and OnEndRename write back.                                  *)
Edited(j, e) ==
    IF j.kind = "remember" THEN [e EXCEPT !.name = IF j.text = Empty THEN Key ELSE j.text]
    ELSE [(IF e.name = Empty THEN j.listed ELSE e) EXCEPT !.alias = j.text]

ReadAlias(p) ==
    /\ job[p].step = "readAlias"
    /\ LET read == [job[p].entry EXCEPT !.alias = file.entry.alias]
       IN job' = [job EXCEPT ![p].step = "write", ![p].entry = Edited(job[p], read)]
    /\ UNCHANGED file

(* Each writer has a temporary file of its own; a call that fails gives up.   *)
WriteTemporary(p) ==
    /\ job[p].step = "write"
    /\ \/ job' = [job EXCEPT ![p].step = "flush"]
       \/ job' = [job EXCEPT ![p] = Idle]
    /\ UNCHANGED file

(* Mutant: the file is not flushed before it is renamed.                      *)
Flush_Never(p) ==
    /\ job[p].step = "flush"
    /\ job' = [job EXCEPT ![p].step = "publish"]
    /\ UNCHANGED file

Flush(p) ==
    /\ job[p].step = "flush"
    /\ \/ job' = [job EXCEPT ![p].step = "publish", ![p].flushed = TRUE]
       \/ job' = [job EXCEPT ![p] = Idle]
    /\ UNCHANGED file

Publish(p) ==
    /\ job[p].step = "publish"
    /\ \/ file' = [entry |-> job[p].entry, flushed |-> job[p].flushed]
       \/ UNCHANGED file
    /\ job' = [job EXCEPT ![p] = Idle]

Kill(p) ==
    /\ job[p].step # "idle"
    /\ job' = [job EXCEPT ![p] = Idle]
    /\ UNCHANGED file

(* A file that was not flushed may be found empty.                            *)
PowerLoss ==
    /\ \/ UNCHANGED file
       \/ ~file.flushed /\ file' = [entry |-> NoEntry, flushed |-> TRUE]
    /\ job' = [p \in Players |-> Idle]

Step(p) ==
    \/ \E name \in DiscNames : Remember(p, name)
    \/ \E alias \in Aliases : Rename(p, alias)
    \/ ReadName(p) \/ ReadAlias(p) \/ WriteTemporary(p) \/ Flush(p) \/ Publish(p)
    \/ Kill(p)

Next == (\E p \in Players : Step(p)) \/ PowerLoss

Spec == Init /\ [][Next]_vars

-----------------------------------------------------------------------------
(* Properties.                                                                *)

(* A disc once listed stays listed: whatever readings, failures, kills and    *)
(* power losses come between, its file is never without a name again.         *)
StaysListed == [][file.entry.name # Empty => file'.entry.name # Empty]_vars
=============================================================================
