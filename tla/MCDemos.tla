------------------------------ MODULE MCDemos ------------------------------
(* Files of up to MaxText bytes and lines of every length; environments    *)
(* with the same name up to three times, a name that begins another and an *)
(* entry without a value; arrays of up to three buffers of every shape; an *)
(* empty file and one of one byte to append to.                            *)
EXTENDS Demos

CONSTANT MaxText

MCLineCounts == -1 .. 3
MCContents == SeqOf({NL, "x"}, MaxText)
MCCharacters == {"a", "b", "1", EQ}
MCStrings == {<<>>, <<"a">>, <<"a", "b">>, <<"a", EQ>>}
MCEnvirons ==
    {s \in SeqOf({<<"a", EQ, "1">>, <<"a", EQ>>, <<"a", "b", EQ, "1">>, <<"b">>}, 3) :
        Len(s) = 3} \cup {<<>>}
MCArrays == SeqOf({0, 1, 2, 3}, 3)
MCFiles == {<<>>, <<<<Old, 1>>>>}
=============================================================================
