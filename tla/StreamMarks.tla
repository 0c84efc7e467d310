----------------------------- MODULE StreamMarks -----------------------------
(***************************************************************************)
(* The boundary marks beside the raw RF ring                               *)
(* (processing/gui_rf_stream_marks.c; their producer is observe_rf_write   *)
(* in processing/gui_extract.c).  The capture thread notes where rate or   *)
(* epoch change and which writes are ambiguous, in a bounded queue and,    *)
(* when that is full, in one snapshot it overwrites word by word.  The     *)
(* extraction thread asks of each block whether all of it has one stamp.   *)
(*                                                                         *)
(* Positions count sample pairs.  Writes and blocks are contiguous, so the *)
(* branches for skipped and repeated positions are not entered.  The       *)
(* consumer's loads of write_index are left out: marks queued after one    *)
(* lie behind the block and behind the snapshot.                           *)
(***************************************************************************)
EXTENDS Integers, Sequences

CONSTANTS
    Rates,       \* sample rates a capture may switch between
    WriteSizes,  \* pairs per ring write
    BlockSize,   \* BUFFER_READ_SIZE, pairs per block
    Capacity,    \* RF_MARK_CAPACITY
    MaxPairs     \* bound: pairs written

ASSUME MarksAssumption ==
    /\ WriteSizes \subseteq Nat \ {0}
    /\ {BlockSize, Capacity} \subseteq Nat \ {0}
    /\ MaxPairs \in Nat

VARIABLES
    queue,      \* marks from read_index up to write_index
    sequence,   \* recovery_sequence
    recovery,   \* the recovery snapshot
    producer,   \* the last mark observed
    epoch,      \* app->rf_stream_epoch
    wpc,        \* capture thread: what it does next, or the word it stores
    written,    \* history: what each pair was written under
    published,  \* pairs the ring has made readable
    consumer,   \* the consumer-owned state
    call,       \* gui_rf_stream_marks_read's place, locals and block
    result      \* its last answer, and whether the one before was safe

producerVars == <<recovery, producer, epoch, written>>
vars == <<queue, sequence, producerVars, wpc, published, consumer, call, result>>

Words == <<"position", "stamp", "unsafe">>

Mark(p, stamp, unsafe) == [position |-> p, stamp |-> stamp, unsafe |-> unsafe]

NoMark == Mark(0, <<0, 0>>, FALSE)

Idle(p) == [pc |-> "idle", position |-> p, safe |-> FALSE, sequence |-> 0, copy |-> NoMark]

Init ==
    /\ queue = <<>>
    /\ sequence = 0
    /\ recovery = NoMark /\ producer = NoMark
    /\ epoch = 1
    /\ wpc = "idle"
    /\ written = <<>> /\ published = 0
    /\ consumer = [mark |-> NoMark, seen |-> 0, minimum |-> 0, gap |-> TRUE]
    /\ call = Idle(0)
    /\ result = [position |-> -1, safe |-> FALSE, stamp |-> <<0, 0>>,
                 discontinuity |-> TRUE, before |-> FALSE]

-----------------------------------------------------------------------------
(* The capture thread.                                                     *)

Room == Len(queue) < Capacity

Changed_Fault(mark) == written = <<>> \/ producer.stamp # mark.stamp

(* The first write has no producer mark to equal.                          *)
Changed(mark) ==
    written = <<>> \/ producer.stamp # mark.stamp \/ producer.unsafe # mark.unsafe

(* A write that follows a parser error, a missed frame, a drop or a change *)
(* of channels opens an epoch and is ambiguous; so does the first one.     *)
Observe(size, rate, trouble) ==
    LET gap  == trouble \/ written = <<>>
        e    == IF gap THEN epoch + 1 ELSE epoch
        mark == Mark(Len(written), <<rate, e>>, gap)
    IN  /\ wpc = "idle"
        /\ Len(written) + size <= MaxPairs
        /\ epoch' = e
        /\ producer' = mark
        /\ written' = written \o [i \in 1..size |-> <<mark.stamp, gap>>]
        /\ queue' = IF Changed(mark) /\ Room THEN Append(queue, mark) ELSE queue
        /\ wpc' = IF Changed(mark) /\ ~Room THEN "odd" ELSE "publish"
        /\ UNCHANGED <<sequence, recovery, published, consumer, call, result>>

(* rf_publish_recovery: the sequence is odd while the words change.        *)
Turn(from, to) ==
    /\ wpc = from
    /\ wpc' = to
    /\ sequence' = sequence + 1
    /\ UNCHANGED <<queue, producerVars, published, consumer, call, result>>

StoreWord(i) ==
    /\ wpc = Words[i]
    /\ wpc' = IF i < Len(Words) THEN Words[i + 1] ELSE "even"
    /\ recovery' = [recovery EXCEPT ![Words[i]] = producer[Words[i]]]
    /\ UNCHANGED <<queue, sequence, producer, epoch, written, published, consumer, call, result>>

(* bufmgr_write_end makes the bytes readable after the observer returned.  *)
Publish ==
    /\ wpc = "publish"
    /\ wpc' = "idle"
    /\ published' = Len(written)
    /\ UNCHANGED <<queue, sequence, producerVars, consumer, call, result>>

-----------------------------------------------------------------------------
(* The extraction thread: gui_rf_stream_marks_read on one block.           *)

BlockEnd == call.position + BlockSize

(* The next mark lies before a position.                                   *)
Due(end) == queue # <<>> /\ Head(queue).position < end

At(place) == call.pc = place /\ UNCHANGED <<sequence, producerVars, wpc, published>>

(* rf_recover: nothing new, a store under way, or a snapshot to copy.      *)
LoadSequence ==
    /\ At("idle")
    /\ BlockEnd <= published
    /\ call' = [call EXCEPT
                  !.pc = IF sequence = consumer.seen \/ sequence % 2 = 1 THEN "walk" ELSE "position",
                  !.safe = sequence = consumer.seen /\ call.position >= consumer.minimum,
                  !.sequence = sequence]
    /\ UNCHANGED <<queue, consumer, result>>

(* The consumer's order: position, then unsafe, then the stamp.            *)
CopyWord(word, next) ==
    /\ At(word)
    /\ call' = [call EXCEPT !.pc = next, !.copy[word] = recovery[word]]
    /\ UNCHANGED <<queue, consumer, result>>

(* A sequence that moved means a torn copy, which is not used.             *)
Recheck ==
    /\ At("recheck")
    /\ call' = [call EXCEPT !.pc = IF call.sequence = sequence THEN "drop" ELSE "walk"]
    /\ UNCHANGED <<queue, consumer, result>>

Superseded_Fault == queue # <<>>

(* Marks up to the snapshot's position go; newer ones stay.                *)
Superseded == Due(call.copy.position + 1)

DropMark ==
    /\ At("drop")
    /\ Superseded
    /\ queue' = Tail(queue)
    /\ UNCHANGED <<consumer, call, result>>

Adopt ==
    /\ At("drop")
    /\ ~Superseded
    /\ consumer' = [mark |-> call.copy, seen |-> call.sequence,
                    minimum |-> call.copy.position, gap |-> TRUE]
    /\ call' = [call EXCEPT !.pc = "walk",
                            !.safe = call.sequence = sequence /\ call.position >= call.copy.position]
    /\ UNCHANGED <<queue, result>>

(* Every mark in front of the block's end takes force; one inside the      *)
(* block makes it unsafe.                                                  *)
Walk ==
    /\ At("walk")
    /\ Due(BlockEnd)
    /\ consumer' = [consumer EXCEPT !.mark = Head(queue), !.gap = TRUE]
    /\ call' = [call EXCEPT !.safe = @ /\ Head(queue).position <= call.position]
    /\ queue' = Tail(queue)
    /\ UNCHANGED result

Pending_Fault(ok) == FALSE

(* gap_pending for the next block.                                         *)
Pending(ok) == ~ok

Finish ==
    LET mark == consumer.mark
        ok   == call.safe /\ mark # NoMark /\ ~mark.unsafe /\ consumer.seen = sequence
    IN  /\ At("walk")
        /\ ~Due(BlockEnd)
        /\ result' = [position |-> call.position, safe |-> ok, stamp |-> mark.stamp,
                      discontinuity |-> consumer.gap \/ ~ok, before |-> result.safe]
        /\ consumer' = [consumer EXCEPT !.gap = Pending(ok)]
        /\ call' = Idle(BlockEnd)
        /\ UNCHANGED queue

-----------------------------------------------------------------------------
Next ==
    \/ \E size \in WriteSizes, rate \in Rates, trouble \in BOOLEAN : Observe(size, rate, trouble)
    \/ Turn("odd", "position") \/ Turn("even", "publish")
    \/ \E i \in DOMAIN Words : StoreWord(i)
    \/ Publish
    \/ LoadSequence
    \/ CopyWord("position", "unsafe") \/ CopyWord("unsafe", "stamp") \/ CopyWord("stamp", "recheck")
    \/ Recheck \/ DropMark \/ Adopt \/ Walk \/ Finish

Spec == Init /\ [][Next]_vars

-----------------------------------------------------------------------------
(* Types, and the queue's order: positions grow and lie in the stream      *)
(* (gui_rf_stream_marks.c:114-123).                                        *)
TypeOK ==
    /\ Len(queue) <= Capacity
    /\ \A i \in DOMAIN queue : queue[i].position \in 0 .. MaxPairs
    /\ \A i, j \in DOMAIN queue : i < j => queue[i].position < queue[j].position
    /\ sequence \in Nat
    /\ consumer.seen \in 0 .. sequence
    /\ published \in 0 .. Len(written)
    /\ call.position \in 0 .. published
    /\ {consumer.gap, call.safe, result.safe, result.discontinuity} \subseteq BOOLEAN

(* The pairs in [first, last) were all written clean under one stamp.      *)
Uniform(first, last, stamp) ==
    \A i \in first + 1 .. last : written[i] = <<stamp, FALSE>>

Answered == result.position >= 0
ResultEnd == result.position + BlockSize

(* A block reported safe was written clean, all of it under the rate and   *)
(* epoch reported (gui_rf_stream_marks.c:126-192), however the producer's  *)
(* stores and the consumer's recovery interleave.                          *)
SafeIsUniform ==
    Answered /\ result.safe => Uniform(result.position, ResultEnd, result.stamp)

(* Nothing is refused without cause: while the queue has never overflowed  *)
(* a clean block under one stamp is safe (gui_rf_stream_marks.c:76-124).   *)
UniformIsSafe ==
    Answered /\ sequence = 0
        /\ Uniform(result.position, ResultEnd, written[result.position + 1][1])
        => result.safe

(* A safe block without the discontinuity flag continues the one before    *)
(* it: that one was safe and both carry one stamp                          *)
(* (gui_rf_stream_marks.c:163-190); the preview decoder joins the two.     *)
UnmarkedIsContinuous ==
    Answered /\ result.safe /\ ~result.discontinuity
        => result.before /\ Uniform(result.position - BlockSize, ResultEnd, result.stamp)
=============================================================================
