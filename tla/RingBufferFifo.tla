--------------------------- MODULE RingBufferFifo ---------------------------
(***************************************************************************)
(* RingBuffer as an implementation of ByteFifo: the refinement mapping     *)
(* that the run "ring" checks and RingBufferProofs proves.                 *)
(***************************************************************************)
EXTENDS RingBuffer

(* The abstract queue: the bytes published and not yet delivered, as the   *)
(* consumer would read them from the cells now.                            *)
Outstanding ==
    [j \in 1 .. published - Len(delivered) |->
        buffer[Cell(Len(delivered) - Base + j - 1)]]

Fifo == INSTANCE ByteFifo WITH
    Capacity <- BufferSize,
    MaxTransfer <- BufferSize,
    fifo <- Outstanding,
    delivered <- delivered

(* The ring is a lossless bounded queue of what it publishes: every step   *)
(* of either thread maps to a put of the next bytes, a get of the oldest   *)
(* ones, or nothing (common/ringbuffer.c:145-204), until a full ring has   *)
(* been taken for an empty one.                                            *)
ImplementsFifo ==
    /\ Fifo!Init
    /\ [][misread' \/ Fifo!Next \/ UNCHANGED Fifo!vars]_vars
=============================================================================
