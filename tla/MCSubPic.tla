------------------------------- MODULE MCSubPic -------------------------------
(***************************************************************************)
(* The subpictures on a small instance: three calls of SetSubPicProvider   *)
(* in the locks; a queue of two with three seeks over segments that are    *)
(* still, animated and apart by more than a minute (a minute is four       *)
(* frames); a queue of one, closed over a segment with no known end.       *)
(***************************************************************************)
EXTENDS SubPic

seg(a, b, anim, t) == [start |-> a, stop |-> b, animated |-> anim, text |-> t]
Apart == <<seg(0, 1, FALSE, "a"), seg(1, 4, TRUE, "m"), seg(6, 7, FALSE, "n")>>
Open == <<seg(1, 100, FALSE, "o")>>
=============================================================================
