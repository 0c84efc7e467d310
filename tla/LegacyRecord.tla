---------------------------- MODULE LegacyRecord ----------------------------
(***************************************************************************)
(* One channel of a converted recording: the extraction thread hands       *)
(* blocks over (processing/gui_extract.c), a FLAC or RAW writer thread     *)
(* takes them (output/gui_record.c), and the user interface starts, stops  *)
(* and finalizes.  Blocks wait in the record ring or, when it is full or a *)
(* write failed, in the spill file.                                        *)
(*                                                                         *)
(* The unit is a block.  The ring is its cells and two counters, the spill *)
(* file its content and two offsets, which both threads use without a lock *)
(* around them; RingBuffer and SpillFile have the single accesses.  Sample *)
(* conversion, resampling, logs and counters are left out; part of a       *)
(* failed write may reach the file and is not counted.                     *)
(***************************************************************************)
EXTENDS Integers, Sequences, FiniteSets, Functions

CONSTANTS
    Formats,       \* of the output: "flac" and "raw"
    RingSize,      \* blocks the record ring holds
    MaxBlocks,     \* bound: blocks extracted
    MaxSessions    \* bound: recordings

ASSUME LegacyAssumption ==
    /\ Formats \subseteq {"flac", "raw"}
    /\ RingSize \in Nat \ {0}
    /\ {MaxBlocks, MaxSessions} \subseteq Nat

VARIABLES
    ctl,    \* the user interface's place and the flags threads share
    ext,    \* the extraction thread
    ring,   \* the record ring: its cells and its two counters
    spill,  \* the spill file
    wr,     \* the writer thread
    file,   \* blocks in the output file
    hist    \* history of the session

vars == <<ctl, ext, ring, spill, wr, file, hist>>

NoBlock == <<0, 0>>

EmptyRing == [cells |-> [i \in 0 .. RingSize - 1 |-> NoBlock], w |-> 0, r |-> 0]

(* A channel that is closed, or opened and empty.                          *)
EmptySpill(opened) == [opened |-> opened, data |-> <<>>, w |-> 0, r |-> 0]

(* late: what a reset caught half handed over.  mishaps: "raced", another  *)
(* thread changed the spill file or reset the ring inside a hand-over;     *)
(* "unread", a failing spill read ended the writer; "unpublished",         *)
(* bufmgr_write_end published nothing.                                     *)
NoHistory == [inTime |-> {}, failed |-> {}, late |-> {}, spilled |-> FALSE, refused |-> FALSE,
              mishaps |-> {}]

Init ==
    /\ ctl = [phase |-> "idle", session |-> 0, format |-> "raw", local |-> FALSE,
              recording |-> FALSE, enabled |-> FALSE, stopRequested |-> FALSE, app |-> FALSE]
    /\ ext = [pc |-> "idle", block |-> NoBlock, taken |-> 0, at |-> 0]
    /\ ring = EmptyRing /\ spill = EmptySpill(FALSE) /\ file = <<>>
    /\ wr = [pc |-> "exited", last |-> FALSE, error |-> FALSE, cell |-> -1, copy |-> NoBlock,
             at |-> 0]
    /\ hist = NoHistory

-----------------------------------------------------------------------------
(* Ring and spill file.                                                    *)

Waiting == {ring.cells[i % RingSize] : i \in ring.r .. ring.w - 1}

Full == ring.w - ring.r = RingSize

Release == ring' = [ring EXCEPT !.r = @ + 1]

FromRing == wr.cell >= 0

(* The release of the ring's last block moves both of its indices back,    *)
(* which the extraction thread sees in several steps.                      *)
Wrapping ==
    wr.pc \in {"write", "respill"} /\ FromRing /\ ring.r % RingSize = RingSize - 1

(* The block the extraction thread holds.                                  *)
Extracted == IF ext.pc = "idle" THEN {} ELSE {ext.block}

Mishap(kind) == hist.mishaps \cup {kind}

(* A thread inside gui_record_spill_enqueue has loaded the write offset    *)
(* and not stored it yet.                                                  *)
ExtractionInside == ext.pc = "spill"
WriterInside == wr.pc \in {"respill", "rescue"}

RacedIf(inside, past) ==
    IF inside THEN [past EXCEPT !.mishaps = Mishap("raced")] ELSE past

(* The channel is opened if it was not, and the write offset loaded.       *)
OpenSpill == spill' = IF spill.opened THEN spill ELSE EmptySpill(TRUE)

(* The file with a block written at an offset; a gap reads as zeros.       *)
Written(block, at) ==
    [i \in 1 .. IF Len(spill.data) > at THEN Len(spill.data) ELSE at + 1 |->
        IF i = at + 1 THEN block ELSE IF i <= Len(spill.data) THEN spill.data[i] ELSE NoBlock]

(* The block is written and the offset stored.  When another thread has    *)
(* moved the offset since, its truncation or its write may have come after *)
(* this one.  In a channel closed meanwhile the block is lost.             *)
Spilled(block, at) ==
    IF spill.opened
    THEN \/ spill' = [spill EXCEPT !.data = Written(block, at), !.w = at + 1]
         \/ spill.w # at /\ spill' = [spill EXCEPT !.w = at + 1]
    ELSE UNCHANGED spill

InTime(block) == hist.inTime \cup IF ctl.recording THEN {block} ELSE {}

Refused(block) ==
    /\ hist' = [hist EXCEPT !.refused = TRUE, !.failed = @ \ {block}]
    /\ UNCHANGED spill

-----------------------------------------------------------------------------
(* The extraction thread.                                                  *)

(* It reads s_recording_enabled once for each block.                       *)
TakeBlock ==
    /\ ext.pc = "idle" /\ ctl.enabled
    /\ ext.taken < MaxBlocks
    /\ ext' = [ext EXCEPT !.pc = "have", !.block = <<ctl.session, ext.taken + 1>>, !.taken = @ + 1]
    /\ UNCHANGED <<ctl, ring, spill, wr, file, hist>>

(* The disk-space guard: recording is disabled and a stop requested.       *)
GuardTrips ==
    /\ ext.pc = "idle" /\ ctl.enabled
    /\ ctl.recording /\ ~ctl.local
    /\ ctl' = [ctl EXCEPT !.enabled = FALSE, !.stopRequested = TRUE]
    /\ UNCHANGED <<ext, ring, spill, wr, file, hist>>

HandedOver == [ext EXCEPT !.pc = "idle", !.block = NoBlock, !.at = 0]

(* bufmgr_write_begin grants the next cell of the ring.                    *)
BeginWrite ==
    /\ ext.pc = "have" /\ ~Full
    /\ ext' = [ext EXCEPT !.pc = "granted", !.at = ring.w % RingSize]
    /\ UNCHANGED <<ctl, ring, spill, wr, file, hist>>

(* The ring is full, or seems to be: the block goes to the spill file,     *)
(* unless a local save has none.                                           *)
BeginSpill ==
    /\ ext.pc = "have" /\ ~ctl.local
    /\ Full \/ Wrapping
    /\ OpenSpill
    /\ hist' = RacedIf(WriterInside, hist)
    /\ ext' = [ext EXCEPT !.pc = "spill", !.at = spill'.w]
    /\ UNCHANGED <<ctl, ring, wr, file>>

(* The spill file refuses the block: a local save, or an I/O error.        *)
Dropped ==
    /\ \/ ext.pc = "have" /\ ctl.local /\ (Full \/ Wrapping)
       \/ ext.pc = "spill"
    /\ ext' = HandedOver
    /\ Refused(ext.block)
    /\ ctl' \in {ctl, [ctl EXCEPT !.stopRequested = TRUE]}
    /\ UNCHANGED <<ring, wr, file>>

Copied == [ring.cells EXCEPT ![ext.at] = ext.block]

(* The samples are copied to the granted cell, and bufmgr_write_end        *)
(* publishes the next one: the same unless the ring was reset in between.  *)
EndWrite ==
    /\ ext.pc = "granted"
    /\ ext' = HandedOver
    /\ ring' = [ring EXCEPT !.cells = Copied, !.w = @ + 1]
    /\ hist' = [hist EXCEPT !.inTime = InTime(ext.block)]
    /\ UNCHANGED <<ctl, spill, wr, file>>

(* It ignores that rb_write_finished refused beside a release.             *)
EndWriteRefused ==
    /\ ext.pc = "granted" /\ Wrapping
    /\ ext' = HandedOver
    /\ ring' = [ring EXCEPT !.cells = Copied]
    /\ hist' = [hist EXCEPT !.inTime = InTime(ext.block), !.mishaps = Mishap("unpublished")]
    /\ UNCHANGED <<ctl, spill, wr, file>>

EndSpill ==
    /\ ext.pc = "spill"
    /\ ext' = HandedOver
    /\ Spilled(ext.block, ext.at)
    /\ hist' = [hist EXCEPT !.spilled = TRUE, !.inTime = InTime(ext.block)]
    /\ UNCHANGED <<ctl, ring, wr, file>>

-----------------------------------------------------------------------------
(* The writer thread.                                                      *)

(* Only the RAW writer stays in its error state, where it drains the ring. *)
Draining == ctl.format = "raw" /\ wr.error

Held == IF FromRing THEN ring.cells[wr.cell] ELSE wr.copy

(* Leaving the block: the local pointer and copy are dead.                 *)
Leave(pc) == [wr EXCEPT !.pc = pc, !.cell = -1, !.copy = NoBlock, !.at = 0]

(* It reads is_recording before it looks for a block.                      *)
WriterTop ==
    /\ wr.pc = "top"
    /\ IF Draining /\ ctl.local
       THEN /\ wr' = [wr EXCEPT !.pc = "exited"]
            /\ ctl' = [ctl EXCEPT !.stopRequested = TRUE]
       ELSE /\ wr' = [wr EXCEPT !.pc = "ring", !.last = ~ctl.recording]
            /\ UNCHANGED ctl
    /\ UNCHANGED <<ext, ring, spill, file, hist>>

Nothing_Fault == [wr EXCEPT !.pc = "top"]

(* Nothing to read: the thread ends if recording had stopped.              *)
Nothing == [wr EXCEPT !.pc = IF wr.last THEN "exited" ELSE "top"]

ReadRing_Fault ==
    /\ wr.pc = "ring"
    /\ wr' = IF ring.r < ring.w THEN [wr EXCEPT !.pc = "write", !.cell = ring.r % RingSize]
             ELSE IF Draining \/ wr.last THEN Nothing
             ELSE [wr EXCEPT !.pc = "spill"]
    /\ UNCHANGED <<ctl, ext, ring, spill, file, hist>>

ReadRing ==
    /\ wr.pc = "ring"
    /\ wr' = IF ring.r < ring.w THEN [wr EXCEPT !.pc = "write", !.cell = ring.r % RingSize]
             ELSE IF Draining THEN Nothing
             ELSE [wr EXCEPT !.pc = "spill"]
    /\ UNCHANGED <<ctl, ext, ring, spill, file, hist>>

Unread == spill.r + 1 .. spill.w

ReadSpill ==
    /\ wr.pc = "spill"
    /\ Unread # {} /\ spill.r < Len(spill.data)
    /\ wr' = [wr EXCEPT !.pc = "recycle", !.cell = -1, !.copy = spill.data[spill.r + 1]]
    /\ spill' = [spill EXCEPT !.r = @ + 1]
    /\ UNCHANGED <<ctl, ext, ring, file, hist>>

(* Nothing is unread, or reading it fails, which looks the same.           *)
ReadNothing ==
    /\ wr.pc = "spill"
    /\ wr' = Nothing
    /\ hist' = IF Unread # {} /\ spill.r < Len(spill.data) /\ wr.last
               THEN [hist EXCEPT !.mishaps = Mishap("unread")] ELSE hist
    /\ UNCHANGED <<ctl, ext, ring, spill, file>>

(* A drained file is truncated, whoever is inside an enqueue.              *)
Recycle ==
    /\ wr.pc = "recycle"
    /\ wr' = [wr EXCEPT !.pc = "write"]
    /\ IF spill.w = spill.r
       THEN /\ spill' = EmptySpill(TRUE)
            /\ hist' = RacedIf(ExtractionInside, hist)
       ELSE UNCHANGED <<spill, hist>>
    /\ UNCHANGED <<ctl, ext, ring, file>>

(* The block is written, or a retry in the error state succeeds.           *)
WriteBlock ==
    /\ wr.pc = "write"
    /\ file' = Append(file, Held)
    /\ wr' = [Leave("top") EXCEPT !.error = FALSE]
    /\ IF FromRing THEN Release ELSE UNCHANGED ring
    /\ UNCHANGED <<ctl, ext, spill, hist>>

WriteFails == wr.pc = "write" /\ UNCHANGED <<ext, file>>

Failing == [hist EXCEPT !.failed = @ \cup {Held}]

(* A local save gives up and requests a stop.                              *)
FlacLocalFails ==
    /\ WriteFails /\ ctl.format = "flac" /\ ctl.local
    /\ wr' = [Leave("exited") EXCEPT !.error = TRUE]
    /\ ctl' = [ctl EXCEPT !.stopRequested = TRUE]
    /\ hist' = [hist EXCEPT !.refused = TRUE]
    /\ IF FromRing THEN Release ELSE UNCHANGED ring
    /\ UNCHANGED spill

KeepRingBlock_Fault == UNCHANGED ring

KeepRingBlock == Release

(* A ring block goes to the spill file before it is released: the FLAC     *)
(* writer's failures, and the RAW writer's while it drains.                *)
SpillBeforeRelease ==
    /\ WriteFails /\ FromRing
    /\ ctl.format = "flac" \/ Draining
    /\ ~ctl.local
    /\ OpenSpill
    /\ hist' = RacedIf(ExtractionInside, Failing)
    /\ wr' = [wr EXCEPT !.pc = "respill", !.error = TRUE, !.at = spill'.w]
    /\ UNCHANGED <<ctl, ring>>

RespillEnds ==
    /\ wr.pc = "respill"
    /\ wr' = Leave("top")
    /\ \/ Spilled(Held, wr.at) /\ hist' = [hist EXCEPT !.spilled = TRUE]
       \/ Refused(Held)
    /\ KeepRingBlock
    /\ UNCHANGED <<ctl, ext, file>>

(* A block that came from the spill file is not spilled again.             *)
SpilledBlockFails ==
    /\ WriteFails /\ ~FromRing
    /\ (ctl.format = "raw" \/ ~ctl.local)
    /\ wr' = [Leave("top") EXCEPT !.error = TRUE]
    /\ hist' = Failing
    /\ UNCHANGED <<ctl, ring, spill>>

(* RAW: the ring block is released, then spilled from the released cell,   *)
(* if the writer knows the app.                                            *)
RawReleases ==
    /\ WriteFails /\ FromRing
    /\ ctl.format = "raw" /\ ~wr.error
    /\ wr' = [IF ctl.app THEN [wr EXCEPT !.pc = "preserve"] ELSE Leave("top") EXCEPT !.error = TRUE]
    /\ hist' = Failing
    /\ Release
    /\ UNCHANGED <<ctl, spill>>

RawPreserves ==
    /\ wr.pc = "preserve" /\ ~ctl.local
    /\ OpenSpill
    /\ hist' = RacedIf(ExtractionInside, hist)
    /\ wr' = [wr EXCEPT !.pc = "rescue", !.at = spill'.w]
    /\ UNCHANGED <<ctl, ext, ring, file>>

RawPreserved ==
    /\ wr.pc = "rescue"
    /\ wr' = Leave("top")
    /\ Spilled(Held, wr.at)
    /\ hist' = [hist EXCEPT !.spilled = TRUE]
    /\ UNCHANGED <<ctl, ext, ring, file>>

(* The spill file refuses the block: a local save, or an I/O error.        *)
RawNotPreserved ==
    /\ wr.pc = "rescue" \/ (wr.pc = "preserve" /\ ctl.local)
    /\ wr' = Leave("top")
    /\ Refused(Held)
    /\ UNCHANGED <<ctl, ext, ring, file>>

-----------------------------------------------------------------------------
(* The user interface.                                                     *)

ResetRing_Fault == UNCHANGED ring

(* bufmgr_reset moves the two counters; the cells keep what they hold.     *)
ResetRing == ring' = [ring EXCEPT !.w = 0, !.r = 0]

(* Nothing keeps the extraction thread from being half through a hand-over *)
(* meanwhile: its block is late, or the first cell's is in its place.      *)
Reset(past) ==
    /\ spill' = EmptySpill(FALSE) /\ ResetRing
    /\ hist' = [past EXCEPT
         !.late = @ \cup Extracted \cup IF ext.pc = "granted" THEN {ring.cells[0]} ELSE {},
         !.mishaps = @ \cup IF ExtractionInside \/ (ext.pc = "granted" /\ ext.at # 0)
                           THEN {"raced"} ELSE {}]

(* gui_record_start, once the last finalization has been collected;        *)
(* s_ctx_a.app is set by a FLAC start only, and kept.                      *)
Start ==
    /\ ctl.phase \in {"idle", "finalized"}
    /\ ctl.session < MaxSessions
    /\ Reset(NoHistory)
    /\ file' = <<>>
    /\ \E format \in Formats, local \in BOOLEAN :
         ctl' = [phase |-> "starting", session |-> ctl.session + 1, format |-> format,
                 local |-> local, recording |-> TRUE, enabled |-> FALSE,
                 stopRequested |-> ctl.stopRequested, app |-> ctl.app \/ format = "flac"]
    /\ wr' = [wr EXCEPT !.pc = "top", !.error = FALSE]
    /\ UNCHANGED ext

(* Files or encoders cannot be opened: only the buffers were reset.        *)
StartFails ==
    /\ ctl.phase \in {"idle", "finalized"}
    /\ Reset(hist)
    /\ UNCHANGED <<ctl, ext, wr, file>>

EnableExtraction ==
    /\ ctl.phase = "starting"
    /\ ctl' = [ctl EXCEPT !.phase = "recording", !.enabled = TRUE]
    /\ UNCHANGED <<ext, ring, spill, wr, file, hist>>

(* gui_record_stop: extraction first, then the writers.                    *)
StopExtraction ==
    /\ ctl.phase = "recording"
    /\ ctl' = [ctl EXCEPT !.phase = "stopping", !.enabled = FALSE]
    /\ UNCHANGED <<ext, ring, spill, wr, file, hist>>

(* The user-interface loop takes a requested stop and stops the capture,   *)
(* the recording with it when there is one.                                *)
HonourRequest ==
    /\ ctl.stopRequested /\ ctl.phase \notin {"starting", "stopping"}
    /\ ctl' = [ctl EXCEPT !.stopRequested = FALSE, !.enabled = FALSE,
                          !.phase = IF @ = "recording" THEN "stopping" ELSE @]
    /\ UNCHANGED <<ext, ring, spill, wr, file, hist>>

StopWriter ==
    /\ ctl.phase = "stopping"
    /\ ctl' = [ctl EXCEPT !.phase = "finalizing", !.recording = FALSE]
    /\ UNCHANGED <<ext, ring, spill, wr, file, hist>>

(* The finalize thread joins the writer; what is left in the spill file is *)
(* thrown away and the file closed.                                        *)
Finalize ==
    /\ ctl.phase = "finalizing" /\ wr.pc = "exited"
    /\ ctl' = [ctl EXCEPT !.phase = "finalized"]
    /\ spill' = EmptySpill(FALSE)
    /\ UNCHANGED <<ext, ring, wr, file, hist>>

-----------------------------------------------------------------------------
HandOver == BeginWrite \/ BeginSpill \/ Dropped \/ EndWrite \/ EndWriteRefused \/ EndSpill

Extraction == TakeBlock \/ GuardTrips \/ HandOver

Writer ==
    \/ WriterTop \/ ReadRing \/ ReadSpill \/ ReadNothing \/ Recycle
    \/ WriteBlock \/ FlacLocalFails \/ SpillBeforeRelease \/ RespillEnds \/ SpilledBlockFails
    \/ RawReleases \/ RawPreserves \/ RawPreserved \/ RawNotPreserved

Control ==
    \/ Start \/ StartFails \/ EnableExtraction
    \/ StopExtraction \/ HonourRequest \/ StopWriter \/ Finalize

Next == Extraction \/ Writer \/ Control

(* The threads run; a stop once begun is carried through, and a requested  *)
(* one is begun by the user-interface loop.                                *)
Fairness ==
    /\ WF_vars(Writer)
    /\ WF_vars(HandOver)
    /\ WF_vars(EnableExtraction \/ StopWriter \/ Finalize)
    /\ WF_vars(HonourRequest)

Spec == Init /\ [][Next]_vars /\ Fairness

-----------------------------------------------------------------------------
InSpill == {spill.data[i] : i \in Unread \cap DOMAIN spill.data}
InFile == Range(file)
InHand ==
    IF \/ wr.pc \in {"recycle", "preserve", "rescue"}
       \/ wr.pc = "write" /\ ~FromRing
    THEN {Held} ELSE {}

Raced == "raced" \in hist.mishaps

(* Types; the ring never holds more than it can.                           *)
TypeOK ==
    /\ ring.r \in 0 .. ring.w /\ ring.w - ring.r \in 0 .. RingSize
    /\ wr.pc \in {"top", "ring", "spill", "recycle", "write", "respill", "preserve", "rescue",
                  "exited"}
    /\ wr.cell \in -1 .. RingSize - 1
    /\ ctl.enabled => ctl.recording
    /\ (wr.pc \in {"write", "respill"} /\ FromRing) =>
         (wr.cell = ring.r % RingSize /\ ring.r < ring.w)

(* A file holds blocks of its own recording: what the one before left in   *)
(* the ring and the spill file, or handed over after its stop, does not    *)
(* reach it (gui_record.c:2845-2853).  The exceptions are a block the      *)
(* extraction thread held from before that stop until after this start,    *)
(* and zeros once the two threads have disturbed an enqueue.               *)
OwnSession ==
    \A block \in InFile \ hist.late :
        block[1] = ctl.session \/ (block = NoBlock /\ Raced)

(* While the writer encodes FLAC a block is in one place: the ring, the    *)
(* spill file, the writer's hands or the output, and there once, until the *)
(* threads disturb an enqueue (gui_record.c:1245-1340).                    *)
NothingTwice ==
    ctl.format = "flac" /\ ~Raced =>
        /\ Cardinality(Unread) = Cardinality(InSpill) /\ Len(file) = Cardinality(InFile)
        /\ ring.w - ring.r = Cardinality(Waiting)
        /\ Cardinality(Waiting) + Cardinality(InSpill) + Cardinality(InFile) + Cardinality(InHand)
             = Cardinality(Waiting \cup InSpill \cup InFile \cup InHand)

(* The finalized file holds each block handed over before is_recording was *)
(* cleared, and in order when none was spilled.                            *)
Complete ==
    /\ hist.inTime \subseteq InFile
    /\ ~hist.spilled =>
         \A i, j \in DOMAIN file :
           i < j /\ {file[i], file[j]} \cap hist.late = {} => file[i][2] < file[j][2]

Ended == ctl.phase = "finalized" /\ hist.failed = {} /\ ~hist.refused

(* When every write and every spill worked the file is complete, unless an *)
(* enqueue raced the writer's recycling, a publication was refused or the  *)
(* spill file could not be read at the end (gui_record.c:1157-1179,        *)
(* 3508-3565).                                                             *)
HealthyIsComplete == Ended /\ hist.mishaps = {} => Complete

(* What the code would do if each mishap did no harm; none of these holds. *)
RaceIsHarmless == Ended /\ hist.mishaps \subseteq {"raced"} => Complete
UnreadIsHarmless == Ended /\ hist.mishaps \subseteq {"unread"} => Complete
UnpublishedIsHarmless == Ended /\ hist.mishaps \subseteq {"unpublished"} => Complete

(* A stop is finalized, and so is one the disk guard or a failed local     *)
(* save asks for, whatever fails to be written (gui_record.c:1245-1254).   *)
StopFinishes ==
    ctl.phase = "stopping" \/ (ctl.stopRequested /\ ctl.recording) ~> ctl.phase = "finalized"

(* A block whose write failed is preserved until the recording stops,      *)
(* unless the spill file refuses it: "spill the block to the temp file to  *)
(* preserve the data" (gui_record.c:1571-1572), "Blocks that came from the *)
(* spill are not re-spilled (already preserved)" (gui_record.c:1324-1325). *)
FailedBlockIsKept ==
    ctl.phase = "recording" => hist.failed \subseteq Waiting \cup InSpill \cup InFile \cup InHand
=============================================================================
