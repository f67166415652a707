----------------------------- MODULE NoticeBand -----------------------------
(***************************************************************************)
(* The notice over the picture, on top of FramePublish.                    *)
(*                                                                         *)
(* A message of a few lines is painted over the top of each buffer once,   *)
(* and the copy of every picture then leaves these rows alone, until the   *)
(* message has been up for its time.  So what is in the rows is of some    *)
(* earlier step: of a message, of a picture from before it, or of nothing  *)
(* when the buffers were wiped.                                            *)
(*                                                                         *)
(* A row of this module is a line of the message; time is that a message   *)
(* may come to its end at any moment.                                      *)
(***************************************************************************)
EXTENDS FramePublish

CONSTANTS
    Lines,      \* NV_NOTICE_MAX
    MaxNotices  \* bound: messages of one process

ASSUME NoticeConstants == Lines \in Nat \ {0} /\ MaxNotices \in Nat

VARIABLES
    live,     \* nv_notice_until_ms: is the deadline set and ahead?
    height,   \* nv_notice_rows
    gen,      \* nv_notice_gen
    painted,  \* nv_notice_painted_gen
    rows,     \* what a line of a buffer holds: New, Old, Black or a message
    skip,     \* first_pixel: the lines this copy left alone
    stage,    \* of main = "drawing": "copied", or "overlaid"
    due       \* history: the lines a message has to be on in this picture, or Ended

Ended == Lines + 1

\* A line of the picture being drawn, of one before it, of a wiped buffer.
New == 0
Old == MaxNotices + 1
Black == MaxNotices + 2

notice == <<live, height, gen, painted, rows, skip, stage, due>>
noticeVars == <<vars, notice>>

NoticeInit ==
    /\ Init
    /\ live = FALSE /\ height = 0 /\ gen = 0
    /\ painted = [b \in Bufs |-> 0]
    /\ rows = [b \in Bufs |-> [l \in 1 .. Lines |-> Black]]
    /\ skip = 0 /\ stage = "overlaid" /\ due = Ended

\* NativeVideoWriter_Notice, on the game thread.
Notice(h) ==
    /\ main = "idle" /\ gen < MaxNotices
    /\ live' = TRUE /\ height' = h /\ gen' = gen + 1
    /\ UNCHANGED <<vars, painted, rows, skip, stage, due>>

\* A message of NULL or of spaces, or the deadline.
End ==
    /\ live /\ live' = FALSE
    /\ UNCHANGED <<vars, height, gen, painted, rows, skip, stage, due>>

NoticeRows == IF live THEN height ELSE 0

\* WriteFrame copies the picture below the band.
Copy ==
    /\ Draw
    /\ skip' = NoticeRows /\ stage' = "copied"
    /\ rows' = [rows EXCEPT ![active] =
                  [l \in 1 .. Lines |-> IF l > NoticeRows THEN New
                                        ELSE IF rows[active][l] = New THEN Old ELSE rows[active][l]]]
    /\ UNCHANGED <<live, height, gen, painted, due>>

\* nv_draw_overlays.
Overlay ==
    /\ main = "drawing" /\ stage = "copied"
    /\ stage' = "overlaid"
    /\ due' = IF NoticeRows < skip THEN Ended ELSE NoticeRows
    /\ IF NoticeRows > 0 /\ painted[active] # gen
       THEN /\ rows' = [rows EXCEPT ![active] =
                          [l \in 1 .. Lines |-> IF l <= NoticeRows THEN gen ELSE rows[active][l]]]
            /\ painted' = [painted EXCEPT ![active] = gen]
       ELSE UNCHANGED <<rows, painted>>
    /\ skip' = 0
    /\ UNCHANGED <<vars, live, height, gen>>

\* Mutant: the wiped buffers are taken to hold the band.
WipeUntold ==
    /\ Clear
    /\ rows' = [b \in Bufs |-> [l \in 1 .. Lines |-> Black]]
    /\ stage' = "overlaid" /\ due' = Ended
    /\ UNCHANGED <<live, height, gen, painted, skip>>

\* ClearScreen, with NativeVideoWriter_NoticeRepaint.
Wipe ==
    /\ Clear
    /\ rows' = [b \in Bufs |-> [l \in 1 .. Lines |-> Black]]
    /\ painted' = [b \in Bufs |-> 0]
    /\ stage' = "overlaid" /\ due' = Ended
    /\ UNCHANGED <<live, height, gen, skip>>

HandOver ==
    /\ stage = "overlaid" /\ Hand
    /\ due' = Ended
    /\ UNCHANGED <<live, height, gen, painted, rows, skip, stage>>

NoticeNext ==
    \/ \E h \in 1 .. Lines : Notice(h)
    \/ End \/ Copy \/ Overlay \/ Wipe \/ HandOver
    \/ (Publish \/ TickRead \/ TickStore \/ Vblank \/ Reset) /\ UNCHANGED notice

NoticeSpec == NoticeInit /\ [][NoticeNext]_noticeVars

\* As in FramePublish.
NoticeFair ==
    /\ WF_noticeVars((TickRead \/ TickStore) /\ UNCHANGED notice)
    /\ WF_noticeVars(Vblank /\ UNCHANGED notice)
    /\ WF_noticeVars(Overlay \/ HandOver \/ (Publish /\ UNCHANGED notice))
-----------------------------------------------------------------------------
(* Properties.                                                             *)

\* A picture that is handed on is the cart's, with the whole of the last message over
\* it while that is up: no lines of an earlier picture or message and no black bar,
\* whatever was said, wiped and drawn before, and in which buffer.  Only a message
\* that ends between the copy of a picture and its overlay leaves what it finds.
BandIsWhole ==
    [][HandOver /\ due # Ended =>
          \A l \in 1 .. Lines : rows[active][l] = IF l <= due THEN gen ELSE New]_noticeVars
=============================================================================
