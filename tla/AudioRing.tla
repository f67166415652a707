----------------------------- MODULE AudioRing -----------------------------
(***************************************************************************)
(* The ring of samples in DDR3 between the audio thread and the FPGA.      *)
(*                                                                         *)
(* Each side owns a pointer and has a copy of the other's, which is behind *)
(* by what happens until it looks again; the FPGA even plans with the copy *)
(* from the time before.  A new process sets both pointers to 0 and wipes  *)
(* the ring, but the FPGA keeps its registers, and goes on from where it   *)
(* was.  A RESET of the core does the opposite: it sets the FPGA's         *)
(* registers to 0, and the thread plays on.                                *)
(*                                                                         *)
(* The FPGA reads two samples at a time.  Its output FIFO is not here: it  *)
(* is why the FPGA may put off a fetch.                                    *)
(***************************************************************************)
EXTENDS Naturals, Sequences

CONSTANTS
    RingSize,  \* NV_AUD_RING_SAMPLES
    Chunks,    \* samples the upsampler makes of one render
    Burst,     \* samples of one fetch, at most
    Numbers    \* bound: samples are numbered 1 to Numbers, over and over

ASSUME RingConstants ==
    /\ RingSize \in Nat /\ RingSize % 2 = 0 /\ RingSize > 2
    /\ Chunks \subseteq 1 .. RingSize - 2
    /\ Burst \in 2 .. RingSize /\ Burst % 2 = 0
    /\ Numbers \in Nat /\ Numbers > RingSize

VARIABLES
    \* DDR3
    ring, wptr, rptr,
    \* the audio thread
    thread,  \* "none", "render", "wait" for space, or "write"
    chunk,   \* out_samples
    put,     \* samples of it that are in the ring
    count,   \* history: samples rendered by this process, modulo Numbers
    \* the FPGA
    aud_rd_ptr, aud_wr_ptr,
    state,   \* "idle", "poll", "read" or "tell"
    burst,   \* aud_burst_samples
    got,     \* what has come of it
    heard,   \* history: the samples last given to the output
    lost     \* history: since a RESET the two have not been in agreement

ddr == <<ring, wptr, rptr>>
arm == <<thread, chunk, put, count>>
fpga == <<aud_rd_ptr, aud_wr_ptr, state, burst, got, heard, lost>>
ringVars == <<ddr, arm, fpga>>

Silence == 0
Cells == 0 .. RingSize - 1
Between(from, to) == (to + RingSize - from) % RingSize

\* NativeVideoWriter_Init; the FPGA is where it happens to be, with nothing under way.
RingInit ==
    /\ ring = [c \in Cells |-> Silence] /\ wptr = 0 /\ rptr = 0
    /\ thread = "none" /\ chunk = 0 /\ put = 0 /\ count = 0
    /\ aud_rd_ptr \in {c \in Cells : c % 2 = 0} /\ aud_wr_ptr \in Cells
    /\ state = "idle" /\ burst = 0 /\ got = << >> /\ heard = << >>
    /\ lost = FALSE
-----------------------------------------------------------------------------
(* The audio thread.                                                       *)

\* Between Init and audio_thread_start the VM is made and a cart is loaded, a long
\* time for the FPGA: it has looked at the new pointer, has told of its own (but after
\* a RESET there is nothing to tell of), and fetches nothing that it planned with the
\* old one.
ThreadStart ==
    /\ thread = "none"
    /\ aud_wr_ptr = wptr /\ (rptr = aud_rd_ptr \/ lost) /\ burst <= Between(aud_rd_ptr, wptr)
    /\ thread' = "render"
    /\ UNCHANGED <<ddr, chunk, put, count, fpga>>

Render(n) ==
    /\ thread = "render"
    /\ thread' = "wait" /\ chunk' = n
    /\ UNCHANGED <<ddr, put, count, fpga>>

\* Mutant: a full ring is taken for one with a cell left.
SpaceToTheLast == RingSize - Between(rptr, wptr)
AudioSpace == RingSize - 1 - Between(rptr, wptr)

FindSpace ==
    /\ thread = "wait" /\ AudioSpace >= chunk
    /\ thread' = "write" /\ put' = 0
    /\ UNCHANGED <<ddr, chunk, count, fpga>>

\* WriteAudio: the samples, and after a barrier the pointer.
Put ==
    /\ thread = "write" /\ put < chunk
    /\ ring' = [ring EXCEPT ![(wptr + put) % RingSize] = 1 + ((count + put) % Numbers)]
    /\ put' = put + 1
    /\ UNCHANGED <<wptr, rptr, thread, chunk, count, fpga>>

Advance ==
    /\ thread = "write" /\ put = chunk
    /\ wptr' = (wptr + chunk) % RingSize
    /\ count' = (count + chunk) % Numbers
    /\ thread' = "render" /\ chunk' = 0 /\ put' = 0
    /\ UNCHANGED <<ring, rptr, fpga>>

\* The process is replaced, and the next one is in Init.
Respawn ==
    /\ thread # "none" /\ thread' = "none"
    /\ ring' = [c \in Cells |-> Silence] /\ wptr' = 0 /\ rptr' = 0
    /\ chunk' = 0 /\ put' = 0 /\ count' = 0
    /\ lost' = FALSE
    /\ UNCHANGED <<aud_rd_ptr, aud_wr_ptr, state, burst, got, heard>>
-----------------------------------------------------------------------------
(* The FPGA.                                                               *)

Lesser(a, b) == IF a < b THEN a ELSE b

\* Mutant: only whole bursts are fetched.
PlanWholeBursts == IF Between(aud_rd_ptr, aud_wr_ptr) < Burst THEN 0 ELSE Lesser(Burst, RingSize - aud_rd_ptr)

\* aud_plan_samples
Plan ==
    LET n == Lesser(Lesser(Between(aud_rd_ptr, aud_wr_ptr), Burst), RingSize - aud_rd_ptr)
    IN  n - (n % 2)

PollWptr ==
    /\ state = "idle" /\ state' = "poll"
    /\ UNCHANGED <<ddr, arm, aud_rd_ptr, aud_wr_ptr, burst, got, heard, lost>>

\* The plan is of the register, which takes what was read at the end of the clock.
WptrCame ==
    /\ state = "poll"
    /\ aud_wr_ptr' = wptr
    /\ IF Plan > 0
       THEN \/ state' = "read" /\ burst' = Plan
            \/ state' = "idle" /\ UNCHANGED burst  \* the output has enough
       ELSE state' = "idle" /\ UNCHANGED burst
    /\ UNCHANGED <<ddr, arm, aud_rd_ptr, got, heard, lost>>

WptrTimeout ==
    /\ state = "poll" /\ state' = "idle"
    /\ UNCHANGED <<ddr, arm, aud_rd_ptr, aud_wr_ptr, burst, got, heard, lost>>

\* Behind the ring there is other memory.
Sample(at) == IF at \in Cells THEN ring[at] ELSE Silence

BeatCame ==
    /\ state = "read"
    /\ LET at == aud_rd_ptr + Len(got)
           all == got \o <<Sample(at), Sample(at + 1)>>
       IN  IF Len(all) < burst
           THEN got' = all /\ UNCHANGED <<aud_rd_ptr, state, burst, heard>>
           ELSE /\ aud_rd_ptr' = (aud_rd_ptr + burst) % RingSize
                /\ state' = "tell"
                /\ heard' = all /\ got' = << >> /\ burst' = 0
    /\ UNCHANGED <<ddr, arm, aud_wr_ptr, lost>>

\* What has come is in the output, and will be fetched again.
BeatTimeout ==
    /\ state = "read" /\ state' = "idle"
    /\ heard' = IF got = << >> THEN heard ELSE got
    /\ got' = << >> /\ burst' = 0
    /\ UNCHANGED <<ddr, arm, aud_rd_ptr, aud_wr_ptr, lost>>

\* With this pointer, the FPGA's old copy of the thread's is not ahead of it, and what
\* the thread is writing overtakes nothing.
Agreed ==
    /\ Between(aud_rd_ptr, aud_wr_ptr) <= Between(aud_rd_ptr, wptr)
    /\ thread = "write" => chunk <= RingSize - 1 - Between(aud_rd_ptr, wptr)

TellRptr ==
    /\ state = "tell" /\ state' = "idle"
    /\ rptr' = aud_rd_ptr
    /\ lost' = (lost /\ ~Agreed)
    /\ UNCHANGED <<ring, wptr, arm, aud_rd_ptr, aud_wr_ptr, burst, got, heard>>

\* RESET of the core: all it knows of the ring is 0, in DDR3 and in the thread nothing
\* changes.
CoreReset ==
    /\ aud_rd_ptr' = 0 /\ aud_wr_ptr' = 0
    /\ state' = "idle" /\ burst' = 0
    /\ heard' = IF got = << >> THEN heard ELSE got
    /\ got' = << >>
    /\ lost' = TRUE
    /\ UNCHANGED <<ddr, arm>>
-----------------------------------------------------------------------------
RingNext ==
    \/ ThreadStart \/ \E n \in Chunks : Render(n)
    \/ FindSpace \/ Put \/ Advance \/ Respawn
    \/ PollWptr \/ WptrCame \/ WptrTimeout \/ BeatCame \/ BeatTimeout \/ TellRptr
    \/ CoreReset

RingSpec == RingInit /\ [][RingNext]_ringVars
-----------------------------------------------------------------------------
(* Properties.                                                             *)

\* What the FPGA has not fetched of this process.
Unread == [k \in 1 .. Between(aud_rd_ptr, wptr) |-> ring[(aud_rd_ptr + k - 1) % RingSize]]

Promise == INSTANCE SampleQueue WITH
    Capacity <- RingSize - 1,
    link <- IF thread = "none" THEN "down" ELSE IF lost THEN "lost" ELSE "up",
    queue <- IF thread = "none" \/ lost THEN << >> ELSE Unread

\* Whatever is late, times out or is put off, in the thread and in the FPGA: once a
\* process plays, all of its samples are heard in their order, and none from before.
\* A RESET breaks this off, until the FPGA has told of a pointer that the thread has
\* not overtaken.
HearsAll == Promise!Spec

Blocked ==
    /\ thread = "wait" /\ AudioSpace < chunk
    /\ state = "idle" /\ aud_wr_ptr = wptr /\ Plan = 0

\* The thread never waits for the FPGA while the FPGA waits for the thread, unless a
\* RESET came when the thread was at the start of the ring: of the cells before its
\* pointer the FPGA then fetches none, and never tells the thread of its own.
NoneWaits == Blocked => lost /\ aud_rd_ptr = 0 /\ wptr <= 1
=============================================================================
