---------------------------- MODULE MCSubPicQueue ----------------------------
(* Instances of SubPicQueue: subtitles a few frames long, a minute of four    *)
(* frames, an animated segment rendered at half the frame rate, a segment     *)
(* with no known end, and edits: a subtitle added from 3 on, a flush for a    *)
(* seek to the start, a new style for everything.                             *)
EXTENDS SubPicQueue

seg(a, b, anim, t) == [start |-> a, stop |-> b, animated |-> anim, text |-> t]

Plain == <<seg(0, 2, FALSE, "a"), seg(2, 4, FALSE, "b")>>
PlainLonger == <<seg(0, 2, FALSE, "a"), seg(2, 3, FALSE, "b"), seg(3, 5, FALSE, "bc")>>
Restyled == <<seg(0, 2, FALSE, "A"), seg(2, 4, FALSE, "B")>>
Mixed == <<seg(0, 2, FALSE, "a"), seg(2, 5, TRUE, "m")>>
MixedLonger == <<seg(0, 2, FALSE, "a"), seg(2, 3, TRUE, "m"), seg(3, 5, FALSE, "mc")>>
Apart == <<seg(0, 1, FALSE, "a"), seg(1, 4, TRUE, "m"), seg(6, 7, FALSE, "n")>>
Open == <<seg(1, 100, FALSE, "o")>>

MCTexts == {"a", "b", "bc", "A", "B", "m", "mc", "n", "o"}
MCScripts == {Plain, PlainLonger, Restyled, Mixed, MixedLonger, Apart, Open, <<>>}

Added == <<Mixed, MixedLonger, 3>>
AddedPlain == <<Plain, PlainLonger, 3>>
Styled == <<Plain, Restyled, -1>>
AddedOrFlushed == {Added, <<Mixed, <<>>, 0>>, <<Plain, <<>>, 0>>}
Flushed == {<<Open, <<>>, 0>>}
OnlyAdded == {AddedPlain}
OnlyStyled == {Styled}
Failing == {"m"}

AnyProvider == CHOOSE p \in Providers : TRUE
MixedAndPlain == [p \in Providers |-> IF p = AnyProvider THEN Plain ELSE Mixed]
AllApart == [p \in Providers |-> Apart]
AllOpen == [p \in Providers |-> Open]
AllPlain == [p \in Providers |-> Plain]
=============================================================================
