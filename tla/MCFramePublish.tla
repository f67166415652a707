--------------------------- MODULE MCFramePublish ---------------------------
(***************************************************************************)
(* Instances of NoticeBand, with the FramePublish it is on top of, and of  *)
(* AudioRing for TLC.  The way of a picture and that of a sample out of    *)
(* the console share nothing: a behaviour is of one of them.  Its fairness *)
(* is that of the picture, and says nothing of a behaviour of the samples, *)
(* of which only safety is checked.                                        *)
(***************************************************************************)
EXTENDS NoticeBand, AudioRing

VARIABLE side

allVars == <<noticeVars, ringVars, side>>

MCInit ==
    /\ NoticeInit /\ RingInit
    /\ side \in {"picture", "sound"}
    /\ side = "picture" => aud_rd_ptr = 0 /\ aud_wr_ptr = 0
    /\ side = "sound" => shown = 0 /\ ~synced /\ stale = 0 /\ ~news

MCNext ==
    /\ \/ side = "picture" /\ NoticeNext /\ UNCHANGED ringVars
       \/ side = "sound" /\ RingNext /\ UNCHANGED noticeVars
    /\ UNCHANGED side

MCSpec == MCInit /\ [][MCNext]_allVars /\ NoticeFair
=============================================================================
