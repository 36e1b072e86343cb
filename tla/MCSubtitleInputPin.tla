-------------------------- MODULE MCSubtitleInputPin --------------------------
(* Two start times, so that a batch may come in any order and a table may     *)
(* have an entry before its sample's time; headers and segments enough to     *)
(* change, lose and repeat one.                                               *)
EXTENDS SubtitleInputPin
=============================================================================
