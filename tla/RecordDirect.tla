---------------------------- MODULE RecordDirect ----------------------------
(***************************************************************************)
(* The direct RAW record path of one channel (output/gui_record_direct.c): *)
(* the capture thread pushes each chunk it has read into the record ring,  *)
(* or into the spill file while the spill file holds older data; the       *)
(* writer thread drains the ring, then the spill file, into the output     *)
(* file, and holds a block it could not write until the file recovers.     *)
(* exit_flag is left out: the program sets it once every recording has     *)
(* been finalized (core/misrc_gui.c:1681).                                 *)
(*                                                                         *)
(* The unit is a chunk; every push is one.  RingBuffer and SpillFile model *)
(* the two queues byte by byte; here the ring is an array of slots between *)
(* two counters and the spill file is the queue it is meant to be.  A full *)
(* ring that RingBuffer's producer takes for an empty one has just been    *)
(* given a block back, so the one slot granted is free.  The output file   *)
(* may fail at any write (locked by another program, disk full), the spill *)
(* file at any read.                                                       *)
(*                                                                         *)
(* mishaps records the five things that happen on this path and that its   *)
(* ordering contract does not survive:                                     *)
(*   gap          the writer takes a spill block past older chunks in the  *)
(*                ring, which the producer has filled since the writer     *)
(*                found it empty;                                          *)
(*   reuse        the producer copies into a slot of a block the writer    *)
(*                has released and has yet to copy aside;                  *)
(*   partial      a failed fwrite has written a part of the block;         *)
(*   unread       a read of the spill file fails in the drain at the stop; *)
(*   unpublished  rb_write_finished refuses a chunk beside a wrap, and     *)
(*                bufmgr_write_end does not look.                          *)
(***************************************************************************)
EXTENDS Integers, Sequences

CONSTANTS
    RingSlots,        \* chunks the record ring holds
    MaxBlock,         \* GUI_RECORD_DIRECT_MAX_BLOCK_BYTES, in chunks
    MaxPushes,        \* bound: chunks pushed
    MaxFileFailures   \* bound: failed file operations of the writer

ASSUME DirectAssumption ==
    /\ RingSlots \in Nat \ {0}
    /\ MaxBlock \in Nat \ {0}
    /\ MaxPushes \in Nat
    /\ MaxFileFailures \in Nat

VARIABLES
    ring,            \* the slots of BUF_RECORD_A/B
    rhead, rtail,    \* chunks released and chunks published
    spill,           \* the spill file's unread chunks
    tap,             \* on, disabled, stopped (is_recording cleared)
    ppc,             \* where the push is
    wpc,             \* where the writer is
    stopping,        \* the writer's local of that name
    from_ring,       \* its source of the block at hand
    len,             \* and its length
    write_ok,        \* outcome of the fwrite of the block at hand
    block,           \* its private buffer: a spill block, or the held block
    have_pending,
    file,            \* the output file
    pushes,          \* history: chunks pushed
    accepted,        \* history: chunks accepted (pushed and not dropped)
    failures,        \* history: failed writes and reads
    mishaps          \* history: see above

queueVars == <<ring, rhead, rtail, spill>>
producerVars == <<ppc, pushes, accepted>>
writerVars == <<wpc, stopping, from_ring, len, write_ok, block, have_pending,
                file, failures>>
vars == <<queueVars, tap, producerVars, writerVars, mishaps>>

(* An empty slot of the ring; in the output file, a piece of a chunk.      *)
NoChunk == -1

Smaller(a, b) == IF a < b THEN a ELSE b

RingFill == rtail - rhead

(* The n chunks of the ring from counter value c on.                       *)
RingFrom(c, n) == [j \in 1 .. n |-> ring[(c + j - 1) % RingSlots]]

Init ==
    /\ ring = [x \in 0 .. RingSlots - 1 |-> NoChunk]
    /\ rhead = 0
    /\ rtail = 0
    /\ spill = <<>>
    /\ tap = "on"
    /\ ppc = "idle"
    /\ wpc = "top"
    /\ stopping = FALSE
    /\ from_ring = FALSE
    /\ len = 0
    /\ write_ok = TRUE
    /\ block = <<>>
    /\ have_pending = FALSE
    /\ file = <<>>
    /\ pushes = 0
    /\ accepted = 0
    /\ failures = 0
    /\ mishaps = {}

-----------------------------------------------------------------------------
(* The producer: gui_record_direct_push_inner.                             *)

(* Seeded fault: the ring is tried first although the spill file holds     *)
(* older data.                                                             *)
PushBegin_Fault ==
    /\ tap = "on"
    /\ ppc = "idle"
    /\ pushes < MaxPushes
    /\ pushes' = pushes + 1
    /\ ppc' = "ring"
    /\ UNCHANGED <<queueVars, tap, accepted, writerVars, mishaps>>

(* The spill backlog decides where the chunk may go.                       *)
PushBegin ==
    /\ tap = "on"
    /\ ppc = "idle"
    /\ pushes < MaxPushes
    /\ pushes' = pushes + 1
    /\ ppc' = IF spill # <<>> THEN "spill" ELSE "ring"
    /\ UNCHANGED <<queueVars, tap, accepted, writerVars, mishaps>>

(* The slots of the block the writer has released and not yet copied.      *)
ReleasedUncopied == IF wpc = "hold" /\ from_ring THEN len ELSE 0

(* bufmgr_write_begin succeeds within its attempts, and the chunk is copied*)
(* to the slot it returned.                                                *)
PushCopies ==
    /\ ppc = "ring"
    /\ RingFill < RingSlots
    /\ ring' = [ring EXCEPT ![rtail % RingSlots] = accepted]
    /\ mishaps' = IF RingFill + ReleasedUncopied < RingSlots THEN mishaps
                  ELSE mishaps \cup {"reuse"}
    /\ ppc' = "publish"
    /\ UNCHANGED <<rhead, rtail, spill, tap, pushes, accepted, writerVars>>

(* bufmgr_write_end.                                                       *)
PushRing ==
    /\ ppc = "publish"
    /\ rtail' = rtail + 1
    /\ accepted' = accepted + 1
    /\ ppc' = "idle"
    /\ UNCHANGED <<ring, rhead, spill, tap, pushes, writerVars, mishaps>>

(* The release under way moves both indices back by the ring's size, which *)
(* the producer sees in several steps.                                     *)
Wrapping ==
    wpc = "release" /\ from_ring /\ (rhead % RingSlots) + len >= RingSlots

(* bufmgr_write_end again, but rb_write_finished has loaded head before    *)
(* and tail after the wrap and refuses.  The push counts as accepted.      *)
PushUnpublished ==
    /\ ppc = "publish"
    /\ Wrapping
    /\ mishaps' = mishaps \cup {"unpublished"}
    /\ accepted' = accepted + 1
    /\ ppc' = "idle"
    /\ UNCHANGED <<queueVars, tap, pushes, writerVars>>

(* The ring is full at the last attempt, or seems to be: the chunk goes to *)
(* the spill file.                                                         *)
PushRefused ==
    /\ ppc = "ring"
    /\ RingFill = RingSlots \/ Wrapping
    /\ ppc' = "spill"
    /\ UNCHANGED <<queueVars, tap, pushes, accepted, writerVars, mishaps>>

PushSpill ==
    /\ ppc = "spill"
    /\ spill' = Append(spill, accepted)
    /\ accepted' = accepted + 1
    /\ ppc' = "idle"
    /\ UNCHANGED <<ring, rhead, rtail, tap, pushes, writerVars, mishaps>>

(* gui_record_spill_enqueue failed: GUI_RECORD_DIRECT_PUSH_DROPPED.  The   *)
(* chunk never goes to the ring ahead of older spill data.                 *)
PushDropped ==
    /\ ppc = "spill"
    /\ ppc' = "idle"
    /\ UNCHANGED <<queueVars, tap, pushes, accepted, writerVars, mishaps>>

PushStep ==
    \/ PushCopies \/ PushRing \/ PushUnpublished
    \/ PushRefused \/ PushSpill \/ PushDropped

-----------------------------------------------------------------------------
(* gui_record_stop: disable the tap, wait until no push is in flight, and  *)
(* only then clear is_recording.  RecordTaps models this handshake.        *)

StopDisables ==
    /\ tap = "on"
    /\ tap' = "disabled"
    /\ UNCHANGED <<queueVars, producerVars, writerVars, mishaps>>

StopClearsRecording ==
    /\ tap = "disabled"
    /\ ppc = "idle"
    /\ tap' = "stopped"
    /\ UNCHANGED <<queueVars, producerVars, writerVars, mishaps>>

-----------------------------------------------------------------------------
(* The writer: gui_record_direct_writer_thread.                            *)

(* Top of the loop: sample is_recording, then go to the held block, if any.*)
WriterTop ==
    /\ wpc = "top"
    /\ stopping' = (tap = "stopped")
    /\ wpc' = IF have_pending THEN "retry" ELSE "fill"
    /\ UNCHANGED <<queueVars, tap, producerVars, from_ring, len, write_ok,
                   block, have_pending, file, failures, mishaps>>

(* After the one attempt made at stop the loop ends, whatever its outcome. *)
AfterRetry == IF stopping THEN "gave_up" ELSE "top"

(* The held block is written at last.                                      *)
RetryWrites ==
    /\ wpc = "retry"
    /\ file' = file \o block
    /\ block' = <<>>
    /\ have_pending' = FALSE
    /\ wpc' = AfterRetry
    /\ UNCHANGED <<queueVars, tap, producerVars, stopping, from_ring, len,
                   write_ok, failures, mishaps>>

(* What a failed fwrite of a block has left in the file: some chunks, and  *)
(* perhaps a piece of the next one.                                        *)
FailedWrite(bytes) ==
    /\ \E k \in 0 .. Len(bytes) - 1, piece \in {<<>>, <<NoChunk>>} :
           file' = file \o SubSeq(bytes, 1, k) \o piece
    /\ mishaps' = IF file' = file THEN mishaps ELSE mishaps \cup {"partial"}

RetryFails ==
    /\ wpc = "retry"
    /\ failures < MaxFileFailures
    /\ failures' = failures + 1
    /\ FailedWrite(block)
    /\ wpc' = AfterRetry
    /\ UNCHANGED <<queueVars, tap, producerVars, stopping, from_ring, len,
                   write_ok, block, have_pending>>

(* Less than two seconds since the last attempt, and not stopping.         *)
RetryNotDue ==
    /\ wpc = "retry"
    /\ ~stopping
    /\ wpc' = "top"
    /\ UNCHANGED <<queueVars, tap, producerVars, stopping, from_ring, len,
                   write_ok, block, have_pending, file, failures, mishaps>>

(* Seeded fault: only whole blocks are taken.                              *)
TakeFromRingFixed_Fault ==
    /\ wpc = "fill"
    /\ IF RingFill >= MaxBlock
       THEN from_ring' = TRUE /\ len' = MaxBlock /\ wpc' = "write"
       ELSE wpc' = "backlog" /\ UNCHANGED <<from_ring, len>>
    /\ UNCHANGED <<queueVars, tap, producerVars, stopping, write_ok, block,
                   have_pending, file, failures, mishaps>>

(* Seeded fault: an empty ring is enough to leave at stop.                 *)
TakeFromRingExit_Fault ==
    /\ wpc = "fill"
    /\ IF RingFill > 0
       THEN from_ring' = TRUE /\ len' = Smaller(RingFill, MaxBlock) /\ wpc' = "write"
       ELSE /\ wpc' = IF stopping THEN "exit" ELSE "backlog"
            /\ UNCHANGED <<from_ring, len>>
    /\ UNCHANGED <<queueVars, tap, producerVars, stopping, write_ok, block,
                   have_pending, file, failures, mishaps>>

(* The ring first: as much as there is, up to MaxBlock, used in place.     *)
TakeFromRing ==
    /\ wpc = "fill"
    /\ IF RingFill > 0
       THEN /\ from_ring' = TRUE
            /\ len' = Smaller(RingFill, MaxBlock)
            /\ wpc' = "write"
       ELSE /\ wpc' = "backlog"
            /\ UNCHANGED <<from_ring, len>>
    /\ UNCHANGED <<queueVars, tap, producerVars, stopping, write_ok, block,
                   have_pending, file, failures, mishaps>>

(* The ring was empty a moment ago: the spill file, copied into the private*)
(* buffer.                                                                 *)
TakeFromSpill ==
    /\ wpc = "backlog"
    /\ spill # <<>>
    /\ from_ring' = FALSE
    /\ len' = Smaller(Len(spill), MaxBlock)
    /\ block' = SubSeq(spill, 1, len')
    /\ spill' = SubSeq(spill, len' + 1, Len(spill))
    /\ mishaps' = IF RingFill = 0 THEN mishaps ELSE mishaps \cup {"gap"}
    /\ wpc' = "write"
    /\ UNCHANGED <<ring, rhead, rtail, tap, producerVars, stopping, write_ok,
                   have_pending, file, failures>>

(* spill_read returned false: the writer goes on as if there were no       *)
(* backlog, and at the stop it leaves.                                     *)
SpillReadFails ==
    /\ wpc = "backlog"
    /\ spill # <<>>
    /\ failures < MaxFileFailures
    /\ failures' = failures + 1
    /\ mishaps' = IF stopping THEN mishaps \cup {"unread"} ELSE mishaps
    /\ wpc' = IF stopping THEN "exit" ELSE "top"
    /\ UNCHANGED <<queueVars, tap, producerVars, stopping, from_ring, len,
                   write_ok, block, have_pending, file>>

(* Seeded fault: the stop is not looked at.                                *)
NothingToTake_Fault ==
    /\ wpc = "backlog"
    /\ spill = <<>>
    /\ wpc' = "top"
    /\ UNCHANGED <<queueVars, tap, producerVars, stopping, from_ring, len,
                   write_ok, block, have_pending, file, failures, mishaps>>

(* Nothing at all: leave when stopping, else wait for the data event.      *)
NothingToTake ==
    /\ wpc = "backlog"
    /\ spill = <<>>
    /\ wpc' = IF stopping THEN "exit" ELSE "top"
    /\ UNCHANGED <<queueVars, tap, producerVars, stopping, from_ring, len,
                   write_ok, block, have_pending, file, failures, mishaps>>

(* The block at hand, read where it is.                                    *)
Data == IF from_ring THEN RingFrom(rhead, len) ELSE block

WriteSucceeds ==
    /\ wpc = "write"
    /\ file' = file \o Data
    /\ block' = <<>>
    /\ write_ok' = TRUE
    /\ wpc' = "release"
    /\ UNCHANGED <<queueVars, tap, producerVars, stopping, from_ring, len,
                   have_pending, failures, mishaps>>

WriteFails ==
    /\ wpc = "write"
    /\ failures < MaxFileFailures
    /\ failures' = failures + 1
    /\ FailedWrite(Data)
    /\ write_ok' = FALSE
    /\ wpc' = "release"
    /\ UNCHANGED <<queueVars, tap, producerVars, stopping, from_ring, len,
                   block, have_pending>>

(* Seeded fault: a failed block is not held.                               *)
ReleaseLoses_Fault ==
    /\ wpc = "release"
    /\ rhead' = IF from_ring THEN rhead + len ELSE rhead
    /\ wpc' = "top"
    /\ UNCHANGED <<ring, rtail, spill, tap, producerVars, stopping, from_ring,
                   len, write_ok, block, have_pending, file, failures, mishaps>>

(* bufmgr_read_end comes first, whether or not the write succeeded.        *)
Release ==
    /\ wpc = "release"
    /\ rhead' = IF from_ring THEN rhead + len ELSE rhead
    /\ wpc' = IF write_ok THEN "top" ELSE "hold"
    /\ UNCHANGED <<ring, rtail, spill, tap, producerVars, stopping, from_ring,
                   len, write_ok, block, have_pending, file, failures, mishaps>>

(* The block as the writer finds it at the address it was read from.       *)
ReleasedData == IF from_ring THEN RingFrom(rhead - len, len) ELSE block

(* The failed block is copied aside and held; write_error is raised.       *)
Hold ==
    /\ wpc = "hold"
    /\ block' = ReleasedData
    /\ have_pending' = TRUE
    /\ wpc' = "top"
    /\ UNCHANGED <<queueVars, tap, producerVars, stopping, from_ring, len,
                   write_ok, file, failures, mishaps>>

RetryAttempt == RetryWrites \/ RetryFails

WriterStep ==
    \/ WriterTop \/ RetryAttempt \/ RetryNotDue
    \/ TakeFromRing \/ TakeFromSpill \/ SpillReadFails \/ NothingToTake
    \/ WriteSucceeds \/ WriteFails \/ Release \/ Hold

Next ==
    \/ PushBegin \/ PushStep
    \/ StopDisables \/ StopClearsRecording
    \/ WriterStep

(* The writer thread runs, a push that has begun ends (its waits have      *)
(* timeouts), the stopper's wait ends when the tap is idle, and the retry  *)
(* timer comes due again and again.  Nobody has to push or to stop.        *)
Fairness ==
    /\ WF_vars(WriterStep)
    /\ SF_vars(RetryAttempt)
    /\ WF_vars(PushStep)
    /\ WF_vars(StopClearsRecording)

Spec == Init /\ [][Next]_vars

FairSpec == Spec /\ Fairness

-----------------------------------------------------------------------------
(* Properties.                                                             *)

(* A taken block that is neither in the file nor in a queue any more.      *)
InFlight ==
    IF wpc = "hold" THEN ReleasedData
    ELSE IF have_pending \/ ~from_ring THEN block
    ELSE <<>>

(* The ring without the block the writer has written but not yet released. *)
RingUnwritten ==
    IF wpc = "release" /\ from_ring /\ write_ok
    THEN RingFrom(rhead + len, RingFill - len)
    ELSE RingFrom(rhead, RingFill)

Outstanding == InFlight \o RingUnwritten \o spill

TypeOK ==
    /\ ring \in [0 .. RingSlots - 1 -> Nat \cup {NoChunk}]
    /\ rhead \in Nat
    /\ rtail \in rhead .. rhead + RingSlots
    /\ spill \in Seq(Nat)
    /\ tap \in {"on", "disabled", "stopped"}
    /\ ppc \in {"idle", "ring", "publish", "spill"}
    /\ wpc \in {"top", "retry", "fill", "backlog", "write", "release", "hold",
                "exit", "gave_up"}
    /\ stopping \in BOOLEAN
    /\ from_ring \in BOOLEAN
    /\ len \in 0 .. MaxBlock
    /\ write_ok \in BOOLEAN
    /\ block \in Seq(Nat \cup {NoChunk})
    /\ have_pending \in BOOLEAN
    /\ file \in Seq(Nat \cup {NoChunk})
    /\ pushes \in 0 .. MaxPushes
    /\ accepted \in 0 .. pushes
    /\ failures \in 0 .. MaxFileFailures
    /\ mishaps \subseteq {"gap", "reuse", "partial", "unread", "unpublished"}

(* Nothing has happened yet that breaks the order or loses a chunk between *)
(* the push and the file.  (A failed read leaves the chunks in the spill   *)
(* file.)                                                                  *)
Undamaged == mishaps \subseteq {"unread"}

(* The output file, then what the writer has in hand, then the ring, then  *)
(* the spill file are the accepted chunks, each once, in the order they    *)
(* were pushed.                                                            *)
Straight == file \o Outstanding = [i \in 1 .. accepted |-> i - 1]

(* The ordering contract of gui_record_direct.h:12-18, in every schedule   *)
(* and through every failure.  Four events break it, and the property says *)
(* that nothing else does, however the pushes, the switches between the    *)
(* queues, the failed writes, the held block and the stop fall together.   *)
InOrder == Undamaged => Straight

(* Tail drain (gui_record_direct.h:20-23), in every schedule: a writer that*)
(* leaves with no block in hand has left nothing behind in the ring, and   *)
(* nothing in the spill file that it could still read.  This is the exit of*)
(* the drain loop; DrainedAfterRecovery is about the other exit.           *)
DrainedAtExit ==
    wpc = "exit" => /\ tap = "stopped" /\ InFlight = <<>> /\ RingUnwritten = <<>>
                    /\ spill = <<>> \/ "unread" \in mishaps

(* The same for the exit after the one attempt at stop: when it succeeded, *)
(* nothing is held and everything accepted is in the file.                 *)
DrainedAfterRecovery == wpc = "gave_up" /\ ~have_pending => Outstanding = <<>>

(* The writer ends after a stop, with a failing output file too: the stop  *)
(* joins it.                                                               *)
WriterEnds == tap = "stopped" ~> wpc \in {"exit", "gave_up"}

(* Whatever was accepted reaches the file, through any sequence of spills  *)
(* and failed writes, unless a stop found a held block.  A block written   *)
(* in pieces or out of its order is written still; the other three mishaps *)
(* lose a chunk.                                                           *)
AcceptedIsWritten ==
    \A c \in 0 .. MaxPushes - 1 :
        accepted > c ~>
            \/ \E i \in DOMAIN file : file[i] = c
            \/ wpc = "gave_up"
            \/ mishaps \cap {"reuse", "unread", "unpublished"} # {}
=============================================================================
