----------------------------- MODULE MCAlgorithms -----------------------------
(***************************************************************************)
(* Instances of Drawing and of CodeCodec for TLC, two calculations that    *)
(* have nothing to do with each other: a behaviour takes one or the other. *)
(* The screen and the sheet are 16 by 16 points, with 16 sprites of 4 by 4 *)
(* and a map of two by two sprites.                                        *)
(***************************************************************************)
EXTENDS Drawing, CodeCodec

MCPoked == {[fillpFlag |-> FALSE, spriteZero |-> FALSE, writes |-> 0, shows |-> 0],
            [fillpFlag |-> TRUE, spriteZero |-> TRUE, writes |-> 5, shows |-> 15]}

\* The last two end past the screen: a far side that is negative, and one that the
\* cart's numbers do not hold.
MCWindows == {<<1, 2, 11, 9>>, <<-1, 3, 6, 19>>, <<2, 2, 0, 3>>,
              <<-20, 3, 10, 9>>, <<260, 2, 32700, 9>>}
MCCameras == {[x |-> 3, y |-> -2]}
Checks == [fill |-> {<<0, 0>>, <<1, 1>>, <<2, 2>>, <<3, 3>>}, trans |-> TRUE]
MCFillPatterns == {Checks, [fill |-> {<<0, 1>>, <<1, 1>>}, trans |-> FALSE]}
MCInks == {NoArg, [pen |-> 129, observe |-> FALSE, fill |-> {}, trans |-> FALSE],
           [pen |-> 2, observe |-> TRUE, fill |-> {<<1, 2>>}, trans |-> FALSE]}

MCSpots == {<<3, 3>>, <<-1, 6>>, <<7, 9>>, <<8, 17>>}
MCCorners == {<<0, 1, 15, 12>>, <<14, 9, 2, 1>>, <<-3, 2, 10, 4>>, <<3, -2, 3, 17>>, <<0, 0, 8, 15>>,
              <<2, 1, 7, 15>>, <<-9, -1, -2, 3>>, <<1, 5, 12, 16>>, <<4, 4, 6, 5>>, <<9, 3, 20, 4>>}
MCSegments == {<<0, 0, 10, 3>>, <<7, 1, -14, 16>>, <<2, -5, 4, 19>>, <<5, 5, 5, 5>>, <<0, 15, 15, 4>>,
               <<3, 30, -2, -7>>, <<-20, 7, 40, 9>>}
MCRadii == {0, 2, 3, 5, 7}

MCSpriteCalls ==
    [n : {1, 2}, x : {-2, 3}, y : {2, 6}, w : {4, 7}, h : {4}, flipX : BOOLEAN, flipY : {FALSE}]
MCStretchCalls ==
    [sx : {1}, sy : {0}, sw : {3, 5}, sh : {4}, x : {2, 7}, y : {-1}, w : {-4, 0, 3, 7}, h : {4, -5},
     flipX : {FALSE}, flipY : BOOLEAN]
MCMapCalls ==
    [cx : {-1, 0, 1}, cy : {0}, x : {-3, 1}, y : {0, 5}, w : {1, NoArg}, h : {2}, layer : {{}, {0}}]

MCFirstSheet == [p \in Points |-> (p[1] + 3 * p[2]) % 4]
MCFirstCels == [c \in Cells |-> (c[1] + 2 * c[2]) % 4]

\* Bytes that cost more than they are, bytes that do not, and parts of them.
Hard == [k \in 1 .. 12 |-> 130 + ((k * 37) % 101)]
Low == [k \in 1 .. 20 |-> 27 + k]
Letters == [k \in 1 .. 17 |-> 96 + k]
MCWords == {<<34>>, SubSeq(Low, 1, 4), Letters, Hard, Low}

AlgorithmsInit == DrawInit /\ CodecInit
AlgorithmsNext ==
    \/ DrawNext /\ text = << >> /\ UNCHANGED <<text, words>>
    \/ CodecNext /\ last.call = "none" /\ settings + draws = 0 /\ ~ds.fillpFlag /\ UNCHANGED drawVars
AlgorithmsSpec == AlgorithmsInit /\ [][AlgorithmsNext]_<<drawVars, text, words>>
=============================================================================
