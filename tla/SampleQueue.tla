---------------------------- MODULE SampleQueue ----------------------------
(***************************************************************************)
(* What the audio thread and the FPGA promise each other: each sample that *)
(* was rendered is heard, in its place.                                    *)
(*                                                                         *)
(* Samples are numbered 1 to Numbers, over and over; 0 is silence.  A      *)
(* burst that times out is heard and fetched again; of a process that has  *)
(* died, and before the next one plays, anything may be heard, and so when  *)
(* the two have lost each other.                                           *)
(***************************************************************************)
EXTENDS Naturals, Sequences

CONSTANTS Capacity, Numbers

VARIABLES
    link,   \* "up" while a process plays, "lost" if it plays to nobody, or "down"
    queue,  \* what is waiting to be heard
    count,  \* the number of samples rendered, modulo Numbers
    heard   \* the samples that were last given to the output

Rendered(c, n) == [k \in 1 .. n |-> 1 + ((c + k - 1) % Numbers)]
First(k) == SubSeq(queue, 1, k)

Init == link = "down" /\ queue = << >> /\ count = 0 /\ heard = << >>

\* A process comes up, to an FPGA that is ready for it or not.
Start ==
    /\ link = "down" /\ link' \in {"up", "lost"}
    /\ Len(queue') <= Capacity /\ \A k \in DOMAIN queue' : queue'[k] = 0
    /\ UNCHANGED <<count, heard>>

Noise == link = "down" /\ link' = "down" /\ UNCHANGED <<queue, count>>

Push(n) ==
    /\ link = "up" /\ link' = "up" /\ Len(queue) + n <= Capacity
    /\ queue' = queue \o Rendered(count, n)
    /\ count' = (count + n) % Numbers
    /\ UNCHANGED heard

Pop(k) ==
    /\ link = "up" /\ link' = "up"
    /\ heard' = First(k) /\ queue' = SubSeq(queue, k + 1, Len(queue))
    /\ UNCHANGED count

Again(k) ==
    /\ link = "up" /\ link' = "up"
    /\ heard' = First(k) /\ UNCHANGED <<queue, count>>

\* The link is lost, and with it what was waiting; some of that may be heard still.
Lose ==
    /\ link = "up" /\ link' = "lost"
    /\ queue' = << >>
    /\ heard' = heard \/ \E k \in 1 .. Len(queue) : heard' = First(k)
    /\ UNCHANGED count

Adrift ==
    /\ link = "lost" /\ link' = "lost"
    /\ count' = count \/ \E n \in 1 .. Capacity : count' = (count + n) % Numbers
    /\ UNCHANGED queue

\* What is heard next is what the ring happens to hold; all that is pushed from here
\* on comes after it.
Back ==
    /\ link = "lost" /\ link' = "up"
    /\ Len(queue') <= Capacity
    /\ UNCHANGED <<count, heard>>

Die ==
    /\ link # "down" /\ link' = "down"
    /\ queue' = << >> /\ count' = 0
    /\ UNCHANGED heard

Next ==
    \/ Start \/ Noise \/ Lose \/ Adrift \/ Back \/ Die
    \/ \E n \in 1 .. Capacity : Push(n)
    \/ \E k \in 1 .. Len(queue) : Pop(k) \/ Again(k)

Spec == Init /\ [][Next]_<<link, queue, count, heard>>
=============================================================================
