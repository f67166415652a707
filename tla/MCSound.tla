------------------------------- MODULE MCSound -------------------------------
(***************************************************************************)
(* An instance of Sound for TLC: two channels, effects of two notes, one   *)
(* of which loops and one of which is cut short, and a song that loops     *)
(* back, has a pattern with nothing to play, and stops.                    *)
(***************************************************************************)
EXTENDS Sound, Sequences, TLC

MCSfx ==
    (0 :> [speed |-> 1, loopStart |-> 1, loopEnd |-> 0, lastNote |-> 2])
      @@ (1 :> [speed |-> 1, loopStart |-> 1, loopEnd |-> 2, lastNote |-> 2])
      @@ (2 :> [speed |-> 0, loopStart |-> 0, loopEnd |-> 0, lastNote |-> 2])

Pattern(a, b, start, loop, stop) ==
    [sfx |-> (0 :> a) @@ (1 :> b), start |-> start, loop |-> loop, stop |-> stop]

MCSong ==
    (0 :> Pattern(1, 2, TRUE, FALSE, FALSE)) @@ (1 :> Pattern(0, None, TRUE, TRUE, FALSE))
      @@ (2 :> Pattern(None, 2, FALSE, FALSE, TRUE))

MCSongs == {<<0, FALSE, {0}>>, <<0, TRUE, {}>>, <<2, TRUE, {0}>>}
MCShots == {<<0, None, 0>>, <<1, None, 1>>, <<1, 1, 0>>, <<2, None, 1>>, <<2, 0, 0>>}
MCTogether ==
    {{"sfx", "time", "loop", "length", "pattern", "fade", "step"}, {"ofMusic", "waiting", "offset", "mask"}}
=============================================================================
