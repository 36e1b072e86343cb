------------------------------ MODULE Persistence ------------------------------
(***************************************************************************)
(* What several players keep in files: the storage of the discs, the       *)
(* catalogue of the discs and the settings.  They share no state, so that  *)
(* a behaviour looks at one of them, chosen at its start, while the others *)
(* do nothing.  DiscStorage is extended, the other two are instances.      *)
(***************************************************************************)
EXTENDS DiscStorage

CONSTANTS DiscNames, Key, Aliases, Empty,           \* BlurayCatalog
          Values, Resets, Done, Absent, Missing     \* ProfileStore

VARIABLES focus,                    \* the part this behaviour looks at
          listing, editing,         \* BlurayCatalog's file and job
          ini, torn, store, pc      \* ProfileStore, ini is its file

Catalog == INSTANCE BlurayCatalog WITH file <- listing, job <- editing

Settings == INSTANCE ProfileStore WITH file <- ini

ASSUME FilesAssumption == Catalog!Constants /\ Settings!Constants

catalogVars == <<listing, editing>>
settingsVars == <<ini, torn, store, pc>>
filesVars == <<vars, focus, catalogVars, settingsVars>>

FilesInit ==
    /\ focus \in {"storage", "catalog", "settings"}
    /\ Init /\ Catalog!Init /\ Settings!Init

FilesNext ==
    /\ UNCHANGED focus
    /\ \/ focus = "storage" /\ Next /\ UNCHANGED <<catalogVars, settingsVars>>
       \/ focus = "catalog" /\ Catalog!Next /\ UNCHANGED <<vars, settingsVars>>
       \/ focus = "settings" /\ Settings!Next /\ UNCHANGED <<vars, catalogVars>>

FilesSpec == FilesInit /\ [][FilesNext]_filesVars

(* A disc once listed stays listed: whatever readings, failures, kills and    *)
(* power losses come between, its file is never without a name again          *)
(* (BlurayCatalog::Write).                                                    *)
StaysListed == Catalog!StaysListed

(* A file of settings that could not be read is never overwritten by the      *)
(* player that could not read it (CProfile::Flush).                           *)
UnreadKept == Settings!UnreadKept

(* A file of settings left half written by a running player is still to be    *)
(* flushed by it, until somebody has written it whole (CProfile::Flush).      *)
TornIsRetried == Settings!TornIsRetried
=============================================================================
