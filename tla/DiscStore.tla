------------------------------- MODULE DiscStore -------------------------------
(***************************************************************************)
(* What the storage of Blu-ray discs promises.  Every disc has a current   *)
(* store: the one all discs share until the disc is reset, then one of its *)
(* own.  A reset replaces it in one step by a store nothing was ever saved *)
(* in, for the next session; it deletes nothing, and a session under way   *)
(* keeps the store it was opened with.                                     *)
(***************************************************************************)
CONSTANTS Discs,        \* discs with a key
          NoKey,        \* a disc whose identity could not be read
          Generations,  \* names a reset may draw
          Players, Roots, \* running players, roots of storage they may use
          Shared, None

VARIABLES current,      \* the store of each disc: Shared, or a generation
          saved,        \* what was saved: stores with the discs that did
          session       \* of each player: the disc it plays and its store

Stores == Roots \X (Discs \cup {NoKey}) \X (Generations \cup {Shared})

Store(root, d, g) == IF g = Shared THEN <<root, NoKey, Shared>> ELSE <<root, d, g>>

Session == [disc : Discs \cup {NoKey}, store : Stores]

Init ==
    /\ current = [d \in Discs |-> Shared]
    /\ saved = {}
    /\ session = [p \in Players |-> None]

(* The new store has never been used, whatever root a player keeps it in.     *)
Unused(d, g) == \A s \in saved : s[1] \notin {Store(root, d, g) : root \in Roots}

Reset(d) ==
    /\ \E g \in Generations : Unused(d, g) /\ current' = [current EXCEPT ![d] = g]
    /\ UNCHANGED <<saved, session>>

Open(p, d, root) ==
    /\ session[p] = None
    /\ LET g == IF d = NoKey THEN Shared ELSE current[d]
       IN session' = [session EXCEPT ![p] = [disc |-> d, store |-> Store(root, d, g)]]
    /\ UNCHANGED <<current, saved>>

Save(p) ==
    /\ session[p] # None
    /\ saved' = saved \cup {<<session[p].store, session[p].disc>>}
    /\ UNCHANGED <<current, session>>

(* Players are closed, or killed, in any number at once.                      *)
CloseAll(P) ==
    /\ session' = [p \in Players |-> IF p \in P THEN None ELSE session[p]]
    /\ UNCHANGED <<current, saved>>

Next ==
    \/ \E d \in Discs : Reset(d)
    \/ \E p \in Players, d \in Discs \cup {NoKey}, root \in Roots : Open(p, d, root)
    \/ \E p \in Players : Save(p)
    \/ \E P \in SUBSET Players : CloseAll(P)

Spec == Init /\ [][Next]_<<current, saved, session>>
=============================================================================
