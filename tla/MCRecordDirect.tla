--------------------------- MODULE MCRecordDirect ---------------------------
(***************************************************************************)
(* RecordDirect for TLC, and its refinement of ByteFifo.                   *)
(***************************************************************************)
EXTENDS RecordDirect

Fifo == INSTANCE ByteFifo WITH
    Capacity <- MaxPushes,
    MaxTransfer <- MaxBlock,
    fifo <- Outstanding,
    delivered <- file

(* The ring, the spill file and the held block together are one lossless   *)
(* queue from the capture thread to the output file                        *)
(* (output/gui_record_direct.c:79-326), step by step until one of the four *)
(* mishaps that damage it.                                                 *)
ImplementsFifo ==
    /\ Fifo!Init
    /\ [][~Undamaged' \/ Fifo!Next \/ UNCHANGED Fifo!vars]_vars

(* Each of the four by itself breaks the order: direct_gap.cfg,            *)
(* direct_reuse.cfg, direct_partial.cfg and direct_unpublished.cfg, each   *)
(* violated, check these.                                                  *)
GapIsHarmless == mishaps = {"gap"} => Straight
ReuseIsHarmless == mishaps = {"reuse"} => Straight
PartialIsHarmless == mishaps = {"partial"} => Straight
UnpublishedIsHarmless == mishaps = {"unpublished"} => Straight
=============================================================================
