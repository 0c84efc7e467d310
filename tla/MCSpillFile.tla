---------------------------- MODULE MCSpillFile -----------------------------
(***************************************************************************)
(* SpillFile for TLC, and its refinement of ByteFifo.                      *)
(***************************************************************************)
EXTENDS SpillFile

Fifo == INSTANCE ByteFifo WITH
    Capacity <- MaxOffered,
    MaxTransfer <- MaxOffered,
    fifo <- Unread,
    delivered <- delivered

(* The spill file is a lossless queue of what it accepted                  *)
(* (output/gui_record.c:814-986), until write_offset has been raced for.   *)
ImplementsFifo ==
    /\ Fifo!Init
    /\ [][raced' \/ Fifo!Next \/ UNCHANGED Fifo!vars]_vars
=============================================================================
