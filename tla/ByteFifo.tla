------------------------------ MODULE ByteFifo ------------------------------
(***************************************************************************)
(* What every data path of the recorder promises: a bounded first-in       *)
(* first-out stream.  Bytes are numbered in the order the producer hands   *)
(* them over; whatever was accepted comes out once, unchanged and in       *)
(* order, or is reported as refused at the moment it is offered.           *)
(*                                                                         *)
(* RingBuffer, SpillFile and RecordDirect are each shown to implement it   *)
(* under a refinement mapping of their own.                                *)
(***************************************************************************)
EXTENDS Integers, Sequences

CONSTANTS
    Capacity,     \* how many accepted bytes may be outstanding at once
    MaxTransfer   \* the largest chunk one put or one get moves

VARIABLES
    fifo,         \* accepted bytes not yet handed to the consumer, oldest first
    delivered     \* the bytes the consumer has received, oldest first

vars == <<fifo, delivered>>

Init ==
    /\ fifo = <<>>
    /\ delivered = <<>>

(* The producer hands over bytes, each newer than everything before it.    *)
Put(chunk) ==
    /\ Len(fifo) + Len(chunk) <= Capacity
    /\ fifo' = fifo \o chunk
    /\ UNCHANGED delivered

(* The consumer takes the k oldest bytes.                                  *)
Get(k) ==
    /\ k <= Len(fifo)
    /\ delivered' = delivered \o SubSeq(fifo, 1, k)
    /\ fifo' = SubSeq(fifo, k + 1, Len(fifo))

(* The next k byte numbers of a lossless stream.                           *)
NextBytes(k) == [j \in 1 .. k |-> Len(delivered) + Len(fifo) + j - 1]

Next == \E k \in 1 .. MaxTransfer : Put(NextBytes(k)) \/ Get(k)

Spec == Init /\ [][Next]_vars
=============================================================================
