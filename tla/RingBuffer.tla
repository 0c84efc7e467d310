----------------------------- MODULE RingBuffer -----------------------------
(***************************************************************************)
(* One ring of the buffer manager: the double-mapped ring of               *)
(* common/ringbuffer.c driven through bufmgr_write_begin/_write_end and    *)
(* bufmgr_read_begin/_read_end of common/buffer_manager.c, by the one      *)
(* producer thread and the one consumer thread every ring has.             *)
(*                                                                         *)
(* head and tail are two separate atomics and no lock relates them, so     *)
(* every atomic load and read-modify-write that the other thread can       *)
(* observe is a step of its own.  The consumer is the only thread that     *)
(* stores head, so its own loads of head are merged into the step that     *)
(* uses them.                                                              *)
(*                                                                         *)
(* The memory is mapped twice in a row: addresses a and a + BufferSize are *)
(* the same cell.  A byte is the number of its position in the stream the  *)
(* producer publishes, so a wrong, lost or repeated byte is visible.       *)
(***************************************************************************)
EXTENDS Integers, Sequences

CONSTANTS
    BufferSize,       \* rb->buffer_size
    WriteSizes,       \* the chunk lengths the producer writes
    ReadSizes,        \* the block lengths the consumer reads
    MaxWaitAttempts,  \* backpressure_policy_t.max_wait_attempts
    MaxBytes          \* bound: bytes handed to write_end, plus drops counted

ASSUME RingAssumption ==
    /\ BufferSize \in Nat \ {0}
    /\ WriteSizes \subseteq 1 .. BufferSize
    /\ ReadSizes \subseteq 1 .. BufferSize
    /\ MaxWaitAttempts \in Nat
    /\ MaxBytes \in Nat

VARIABLES
    head, tail,       \* the two atomics of ringbuffer_t
    buffer,           \* the cells: a stream position, or NoByte
    bytes_written,    \* stats.bytes_written
    write_drops,      \* stats.write_drops
    ppc,              \* where the producer is
    phead,            \* the head it loaded last
    psize,            \* the length of the chunk it is writing
    pptr,             \* the address write_begin returned
    attempts,         \* the attempts of the wait loop of write_begin
    loadedFull,       \* history: the ring was exactly full when phead was loaded
    misread,          \* history: such a head, beside the tail of a later wrap,
                      \* was taken for the head of an empty ring
    cpc,              \* where the consumer is
    csize,            \* the length of the block it is reading
    published,        \* history: bytes made visible by tail += size
    released,         \* history: bytes given back by head += size
    delivered         \* history: the bytes the consumer read, in order

producerVars == <<ppc, phead, psize, pptr, attempts, bytes_written, write_drops,
                  loadedFull, misread>>
consumerVars == <<cpc, csize, delivered>>
vars == <<head, tail, buffer, published, released, producerVars, consumerVars>>

NoByte == -1

-----------------------------------------------------------------------------
(* Address arithmetic.                                                     *)

Cell(a) == IF a >= BufferSize THEN a - BufferSize ELSE a

MapSize == 2 * BufferSize

(* Seeded faults (the names ending in _Fault): variants a bug in the code   *)
(* would give, which the properties must catch.                            *)

FitsIgnoresFill_Fault(h, t, size) ==
    t >= h /\ t < MapSize /\ size <= MapSize - t

FitsOffByOne_Fault(h, t, size) ==
    /\ t >= h
    /\ t - h > BufferSize \/ BufferSize - (t - h) + 1 >= size
    /\ t < MapSize
    /\ size <= MapSize - t

FitsIgnoresMap_Fault(h, t, size) ==
    t >= h /\ (t - h > BufferSize \/ BufferSize - (t - h) >= size)

(* The check rb_put, rb_write_ptr and rb_write_finished share, on the two  *)
(* values they loaded.  The subtractions are size_t: when t - h exceeds    *)
(* the buffer size the free space wraps to a huge number and the second    *)
(* test does not refuse; only the third one, against the end of the        *)
(* double mapping, can.                                                    *)
Fits(h, t, size) ==
    /\ t >= h
    /\ t - h > BufferSize \/ BufferSize - (t - h) >= size
    /\ t < MapSize
    /\ size <= MapSize - t

(* How many published bytes are not yet released.                          *)
Fill == published - released

-----------------------------------------------------------------------------
Init ==
    /\ head = 0
    /\ tail = 0
    /\ buffer = [x \in 0 .. BufferSize - 1 |-> NoByte]
    /\ bytes_written = 0
    /\ write_drops = 0
    /\ ppc = "idle"
    /\ phead = 0
    /\ psize = 0
    /\ pptr = 0
    /\ attempts = 0
    /\ loadedFull = FALSE
    /\ misread = FALSE
    /\ cpc = "idle"
    /\ csize = 0
    /\ published = 0
    /\ released = 0
    /\ delivered = <<>>

-----------------------------------------------------------------------------
(* The producer: bufmgr_write_begin, memcpy, bufmgr_write_end.             *)

(* bufmgr_write_begin calls rb_write_ptr, which loads head ...             *)
BeginWrite(size) ==
    /\ ppc = "idle"
    /\ bytes_written + write_drops + size <= MaxBytes
    /\ psize' = size
    /\ attempts' = 0
    /\ phead' = head
    /\ loadedFull' = (Fill = BufferSize)
    /\ ppc' = "write_ptr"
    /\ UNCHANGED <<head, tail, buffer, published, released, pptr, misread,
                   bytes_written, write_drops, consumerVars>>

(* ... and then tail, and grants the address of tail ...  A full ring and  *)
(* an empty one have indices that agree modulo the buffer size: the head   *)
(* of a full ring beside the tail of a wrap made since looks like the head *)
(* of an empty ring, and the grant covers cells not yet read.              *)
WritePtrGranted ==
    /\ ppc = "write_ptr"
    /\ Fits(phead, tail, psize)
    /\ pptr' = tail
    /\ misread' = (misread \/ (loadedFull /\ tail = phead))
    /\ ppc' = "copy"
    /\ UNCHANGED <<head, tail, buffer, published, released, phead, psize,
                   attempts, loadedFull, bytes_written, write_drops,
                   consumerVars>>

(* Seeded fault: the wait loop forgets to count its attempts.              *)
WritePtrRefused_Fault ==
    /\ ppc = "write_ptr"
    /\ ~Fits(phead, tail, psize)
    /\ ppc' = "wait"
    /\ UNCHANGED <<head, tail, buffer, published, released, phead, psize,
                   pptr, attempts, bytes_written, write_drops, loadedFull,
                   misread, consumerVars>>

(* ... or NULL.  The wait loop of write_begin then counts one attempt and  *)
(* either gives the chunk up as a counted drop (at once when the policy    *)
(* allows no attempt) or waits for the space event.                        *)
WritePtrRefused ==
    /\ ppc = "write_ptr"
    /\ ~Fits(phead, tail, psize)
    /\ attempts' = attempts + 1
    /\ IF attempts + 1 > MaxWaitAttempts
       THEN write_drops' = write_drops + 1 /\ ppc' = "idle"
       ELSE ppc' = "wait" /\ UNCHANGED write_drops
    /\ UNCHANGED <<head, tail, buffer, published, released, phead, psize,
                   pptr, bytes_written, loadedFull, misread,
                   consumerVars>>

(* rb_event_wait_timeout returns on the signal or on the timeout, and      *)
(* rb_write_ptr is tried again: it loads head.                             *)
WaitReturns ==
    /\ ppc = "wait"
    /\ phead' = head
    /\ loadedFull' = (Fill = BufferSize)
    /\ ppc' = "write_ptr"
    /\ UNCHANGED <<head, tail, buffer, published, released, psize, pptr,
                   attempts, misread, bytes_written, write_drops,
                   consumerVars>>

(* Which byte of the chunk at pptr lands in cell x, if any.                *)
ChunkOffset(x) == IF x >= pptr THEN x - pptr ELSE x + BufferSize - pptr

(* The caller fills the granted range; the first byte is the next one of   *)
(* the stream.                                                             *)
CopyIn ==
    /\ ppc = "copy"
    /\ buffer' = [x \in 0 .. BufferSize - 1 |->
                     IF ChunkOffset(x) \in 0 .. psize - 1
                     THEN published + ChunkOffset(x)
                     ELSE buffer[x]]
    /\ ppc' = "copied"
    /\ UNCHANGED <<head, tail, published, released, phead, psize, pptr,
                   attempts, bytes_written, write_drops, loadedFull,
                   misread, consumerVars>>

(* bufmgr_write_end calls rb_write_finished, which loads head again ...    *)
FinishLoadsHead ==
    /\ ppc = "copied"
    /\ phead' = head
    /\ ppc' = "write_finished"
    /\ UNCHANGED <<head, tail, buffer, published, released, psize, pptr,
                   attempts, bytes_written, write_drops, loadedFull,
                   misread, consumerVars>>

(* ... then tail, and repeats the check.  bufmgr_write_end ignores the     *)
(* answer: when the check refuses, the chunk is simply not published.      *)
FinishChecks ==
    /\ ppc = "write_finished"
    /\ ppc' = IF Fits(phead, tail, psize) THEN "publish" ELSE "count"
    /\ UNCHANGED <<head, tail, buffer, published, released, phead, psize,
                   pptr, attempts, bytes_written, write_drops, loadedFull,
                   misread, consumerVars>>

(* tail += size, an atomic read-modify-write on whatever tail is by now.   *)
Publish ==
    /\ ppc = "publish"
    /\ tail' = tail + psize
    /\ published' = published + psize
    /\ ppc' = "count"
    /\ UNCHANGED <<head, buffer, released, phead, psize, pptr, attempts,
                   bytes_written, write_drops, loadedFull, misread,
                   consumerVars>>

(* stats.bytes_written += bytes, whether or not the chunk was published.   *)
WriteEnd ==
    /\ ppc = "count"
    /\ bytes_written' = bytes_written + psize
    /\ ppc' = "idle"
    /\ UNCHANGED <<head, tail, buffer, published, released, phead, psize,
                   pptr, attempts, write_drops, loadedFull, misread,
                   consumerVars>>

ProducerStep ==
    \/ WritePtrGranted \/ WritePtrRefused \/ WaitReturns \/ CopyIn
    \/ FinishLoadsHead \/ FinishChecks \/ Publish \/ WriteEnd

-----------------------------------------------------------------------------
(* The consumer: bufmgr_read_begin, use of the block, bufmgr_read_end.     *)

(* Seeded fault: no test of the fill level.                                *)
ReadBeginEmpty_Fault(size) ==
    /\ cpc = "idle"
    /\ csize' = size
    /\ cpc' = "reading"
    /\ UNCHANGED <<head, tail, buffer, published, released, delivered,
                   producerVars>>

(* Seeded fault: one byte more than the block has to be there.             *)
ReadBeginStrict_Fault(size) ==
    /\ cpc = "idle"
    /\ tail > head
    /\ tail - head > size
    /\ csize' = size
    /\ cpc' = "reading"
    /\ UNCHANGED <<head, tail, buffer, published, released, delivered,
                   producerVars>>

(* rb_read_ptr grants the address of head when size bytes are there.       *)
ReadBegin(size) ==
    /\ cpc = "idle"
    /\ tail >= head
    /\ tail - head >= size
    /\ head < MapSize
    /\ size <= MapSize - head
    /\ csize' = size
    /\ cpc' = "reading"
    /\ UNCHANGED <<head, tail, buffer, published, released, delivered,
                   producerVars>>

(* The block is used in place (encoded, written to a file, sent).          *)
UseBlock ==
    /\ cpc = "reading"
    /\ delivered' = delivered \o [j \in 1 .. csize |-> buffer[Cell(head + j - 1)]]
    /\ cpc' = "used"
    /\ UNCHANGED <<head, tail, buffer, published, released, csize, producerVars>>

(* Seeded fault: the wrap is made whether or not head has reached the end.  *)
ReadFinishedWraps_Fault ==
    /\ cpc = "used"
    /\ tail - head >= csize
    /\ head' = head + csize
    /\ released' = released + csize
    /\ cpc' = "wrap_head"
    /\ UNCHANGED <<tail, buffer, published, csize, delivered, producerVars>>

(* rb_read_finished: the size check cannot fail after a granted read, then *)
(* head += size, and the wrap test.                                        *)
ReadFinished ==
    /\ cpc = "used"
    /\ tail - head >= csize
    /\ head' = head + csize
    /\ released' = released + csize
    /\ cpc' = IF head + csize >= BufferSize THEN "wrap_head" ELSE "idle"
    /\ UNCHANGED <<tail, buffer, published, csize, delivered, producerVars>>

(* The wrap is two more atomic steps: head -= buffer_size ...              *)
WrapHead ==
    /\ cpc = "wrap_head"
    /\ head' = head - BufferSize
    /\ cpc' = "wrap_tail"
    /\ UNCHANGED <<tail, buffer, published, released, csize, delivered,
                   producerVars>>

(* ... and tail -= buffer_size.                                            *)
WrapTail ==
    /\ cpc = "wrap_tail"
    /\ tail' = tail - BufferSize
    /\ cpc' = "idle"
    /\ UNCHANGED <<head, buffer, published, released, csize, delivered,
                   producerVars>>

ConsumerStep ==
    \/ \E size \in ReadSizes : ReadBegin(size)
    \/ UseBlock \/ ReadFinished \/ WrapHead \/ WrapTail

Next ==
    \/ \E size \in WriteSizes : BeginWrite(size)
    \/ ProducerStep
    \/ ConsumerStep

(* A thread that has started a call goes on with it: the calls do not      *)
(* block, their waits have timeouts.  Nothing obliges the device to        *)
(* deliver another chunk, so BeginWrite has no fairness.                   *)
Fairness == WF_vars(ProducerStep) /\ WF_vars(ConsumerStep)

Spec == Init /\ [][Next]_vars

FairSpec == Spec /\ Fairness

-----------------------------------------------------------------------------
(* Derived quantities.                                                     *)

(* How many stream positions the wraps have subtracted from tail so far:   *)
(* stream position i is at address i - Base while it is unread.            *)
Base == published - tail

(* The stream positions the consumer may still read.                       *)
Unread == released .. published - 1

(* The cells of the range the producer has been granted and is filling.    *)
GrantedCells == {Cell(a) : a \in pptr .. pptr + psize - 1}

UnreadCells == {Cell(i - Base) : i \in Unread}

-----------------------------------------------------------------------------
(* Properties.                                                             *)

(* Types and ranges: both indices stay inside the double mapping.          *)
TypeOK ==
    /\ head \in 0 .. MapSize
    /\ tail \in 0 .. MapSize
    /\ buffer \in [0 .. BufferSize - 1 -> Int]
    /\ bytes_written \in Nat
    /\ write_drops \in Nat
    /\ ppc \in {"idle", "write_ptr", "wait", "copy", "copied",
                "write_finished", "publish", "count"}
    /\ phead \in 0 .. MapSize
    /\ psize \in {0} \cup WriteSizes
    /\ pptr \in 0 .. MapSize - 1
    /\ attempts \in Nat
    /\ loadedFull \in BOOLEAN
    /\ misread \in BOOLEAN
    /\ cpc \in {"idle", "reading", "used", "wrap_head", "wrap_tail"}
    /\ csize \in {0} \cup ReadSizes
    /\ published \in Nat
    /\ released \in Nat
    /\ delivered \in Seq(Int)

(* No access leaves the double mapping and no index underflows, for any    *)
(* lengths and any interleaving: the range the producer fills and the      *)
(* block the consumer uses end inside it, and the wrap subtracts the       *)
(* buffer size only from indices that have reached it.                     *)
StaysMapped ==
    /\ ppc \in {"copy", "copied", "write_finished", "publish"}
           => pptr + psize <= MapSize
    /\ cpc \in {"reading", "used"} => head + csize <= tail
    /\ cpc = "wrap_head" => head >= BufferSize
    /\ cpc = "wrap_tail" => tail >= BufferSize

(* No cell of the range the producer holds is still to be read.            *)
GrantIsFree ==
    ppc \in {"copy", "copied", "write_finished", "publish"}
        => GrantedCells \cap UnreadCells = {}

(* The range bufmgr_write_begin hands out holds no byte the consumer still *)
(* has to read, whatever the lengths are and whatever the consumer does    *)
(* between the two loads of rb_write_ptr and until the range is published. *)
(* One pair of loads breaks it, and the property says that no other does:  *)
(* the head of an exactly full ring beside the tail of a later wrap.       *)
WindowIsFree == misread \/ GrantIsFree

(* Every unread byte is in its cell.                                       *)
CellsIntact == \A i \in Unread : buffer[Cell(i - Base)] = i

(* Every published byte stays where the consumer looks for it until it is  *)
(* released: the block rb_read_ptr returned can be used in place while the *)
(* producer goes on writing and the wrap moves both indices.  As above, a  *)
(* full ring taken for an empty one is the only way to lose a byte.        *)
UnreadIsIntact == misread \/ CellsIntact

(* bufmgr_write_end publishes the bytes it was given, so that the          *)
(* bytes_written statistic, which also positions the RF stream marks, is   *)
(* the number of bytes the consumer can see.                               *)
WrittenIsPublished == ppc = "idle" => bytes_written = published

(* A write call ends: the producer is a capture thread and the wait loop   *)
(* of bufmgr_write_begin is bounded by the policy.                         *)
WriteCallReturns == ppc = "write_ptr" ~> ppc = "idle"

(* Once enough is published for any length the consumer may ask for, it    *)
(* gets to release some of it; no interleaving of the wrap with the        *)
(* producer hides a block for ever.                                        *)
EveryBlockIsRead ==
    \A k \in 0 .. MaxBytes :
        (\A r \in ReadSizes : published >= k + r) ~> (released > k)
=============================================================================
