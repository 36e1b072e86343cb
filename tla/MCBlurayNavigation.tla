-------------------------- MODULE MCBlurayNavigation --------------------------
(* Two playlists, the second with a timed still at its end; the keys of the   *)
(* menu take part, unlike in MCPlayback's check of the same property.         *)
EXTENDS BlurayNavigation

MCStill == [l \in Lists |-> IF l = 1 THEN "no" ELSE "timed"]
=============================================================================
