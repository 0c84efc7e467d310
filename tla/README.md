# A TLA+ development of MISRC-GUI's capture and record paths

MISRC-GUI captures RF samples from several kinds of hardware, shows them, and
records them to disk. What it promises above all is that the recorded file is
the card's byte stream: nothing lost without being counted, nothing repeated,
nothing reordered, although capture, extraction, writers and user interface are
threads that share rings, atomics and a spill file without a common lock. Beside
that path stand the DdD's USB queue in front of it, the monitor's recording over
the network behind it, and the RF preview, which must never disturb it. The
modules here model these; all paths below are relative to
`src/misrc_tools/`.

## 1. Inventory

| Component | State | Operations | Interaction | What makes it correct |
|---|---|---|---|---|
| byte ring, `common/ringbuffer.c` | atomic `head`, `tail`; buffer mapped twice | `rb_write_ptr`, `rb_write_finished`, `rb_read_ptr`, `rb_read_finished` | one producer, one consumer; each loads the other's index | granted cells are free; unread bytes intact; FIFO; no access outside the mapping |
| buffer manager, `common/buffer_manager.c` | one ring, events and statistics per `buffer_id_t` | `bufmgr_write_begin/end`, `bufmgr_read_begin/end`, waits, reset | capture, extraction, writers, display | bounded waits; statistics that match the ring |
| buffer events, `common/rb_event.c` | pending flag, condition variable | signal, wait, timed wait | the waits of the buffer manager | no lost wakeup |
| record spill file, `misrc_gui/output/gui_record.c` 540-986 | file, atomic offsets, `io_lock` | open, enqueue, read_block, recycle, close | producer and writer of one channel | lossless FIFO of what it accepted |
| direct record path, `misrc_gui/output/gui_record_direct.c` | context per channel, held block | push, writer thread, tap enable/disable/wait | capture thread, writer thread, stop | order across ring, spill file and file; drain; the stop joins |
| record session, `gui_record.c` 2100-3570 | `is_recording`, active flags, threads, stop worker | prepare, confirm, stop, finalize | UI, capture taps, writers | starts and stops once; no push after the final drain |
| legacy record writers, `gui_record.c` 1040-2100, `common/flac_writer.c` | per-channel context, encoder | FLAC and raw writer threads | extraction, spill file | every accepted block written in order |
| CXADC capture, `misrc_gui/input/gui_cxadc.c` | card handles, latches | read loop, taps | capture ring, direct taps | both channels start and stop on the same chunk |
| extraction, `misrc_gui/processing/gui_extract.c` | flags of the recording | unpack, write record rings, display | capture ring, record rings, spill | a block belongs to one session |
| capture control, `misrc_gui/input/gui_capture.c`, `common/frame_parser.c` | capture state, watchdog, frame counters | start, stop, callback | everything | dropouts detected; no callback after stop |
| DDD asynchronous queue, `misrc_gui/input/gui_ddd_async.c` | 96 transfer slots, order ids | submit, callback, consume, cancel, reap | libusb | consumed in submission order; no slot freed while in flight |
| other inputs (DDD v1, clock generator, FX3, RTL-SDR, simulated, Android) | device handles | open, read, close | capture ring | mostly I/O |
| playback, `misrc_gui/input/gui_playback.c` | file position, seek request, length cache | play, seek, scan | capture ring | seek and read do not mix positions |
| audio, `misrc_gui/output/gui_audio.c` | monitor queue, WAV files | feed, monitor, record | capture, UI | buffers not reused while playing |
| RF stream marks, `misrc_gui/processing/gui_rf_stream_marks.c` | queue of marks, recovery snapshot | observe, read | capture and extraction | RF data never labelled with another block's rate |
| RF preview, `misrc_gui/processing/gui_rf_preview_*.c` | slots, policy, pressure level | submit, take, adapt | extraction, preview worker | newest wins; recording never waits |
| display thread, `misrc_gui/processing/gui_display_thread.c` | snapshot buffers | copy, present | display rings, UI | no torn snapshot |
| ring-to-file writer, `common/ringbuffer_writer.c` | ring, file | drain loop | the command line program | drains at exit |
| command line capture, `misrc_capture/` | threads over the same rings | capture, extract, write | buffer manager | drains at exit |
| monitor network, `misrc_gui/net/gui_net.c`, `gui_monitor_transport.c`, `gui_monitor_session_state.h` | clients, bounded queues, session state | accept, fan out, drop, reconnect | UI, extraction | a slow client never blocks capture |
| monitor video, `misrc_gui/net/gui_monitor_video_*.c` | frame box, encoder, wire state | publish, take, encode, send | preview worker | no torn frame; newest wins |
| monitor local save, `misrc_gui/net/*local_save*.c` | partial files, transfer state | start, chunk, commit, abort | client, server | a committed copy is complete |
| RF routes, `misrc_gui/signal/gui_cvbs.c` 5289-5448 | worker per channel and profile, count of readers | attach, detach, submit | extraction, UI | a worker is freed only when nobody is in it |
| signal processing, rest of `misrc_gui/signal/` | filters on floating point | decode, demodulate | preview, display | numerical: out of TLC's reach |
| user interface, visualization, settings, updater | widgets, settings file, update phases | draw, save, update | everything | the updater's phases are protocol state, the rest is drawing |

Vendored and generated code (`third_party`, `clay.h`, `getopt`, fonts, icons,
the Android shell, the scripts) is left aside. `PROJECT.json` lists every
component with its status, and under `hazards` what is hard to test, each at
its line.

## 2. Modules

| Module | Models | Relation to the others |
|---|---|---|
| `ByteFifo` | a bounded FIFO: an abstract queue | specification of the three below |
| `RingBuffer` | `ringbuffer.c` with `bufmgr_write_begin/end`, `bufmgr_read_begin/end` | `RingBufferFifo` maps it to `ByteFifo` |
| `RingBufferProofs` | theorems about `RingBuffer` | extends `RingBufferFifo` |
| `SpillFile` | the spill file of one channel | `MCSpillFile` maps it to `ByteFifo` |
| `SpillProofs` | theorems about `SpillFile` | extends `MCSpillFile` |
| `RecordDirect` | the direct path of one channel: push, ring, spill file, writer, output file, stop | uses the two queues at the level `ByteFifo` gives them; `MCRecordDirect` maps the whole to `ByteFifo` |
| `RecordTaps` | both channels' tap handshake: start, enable, gated iteration, stop, wait, finalize | `RecordTapsDirect` maps each channel to the producer and the stop of `RecordDirect` |
| `RecordDirectProofs` | theorems about `RecordDirect` and `RecordTaps` | extends `MCRecordDirect` and `RecordTapsDirect` |
| `LegacyRecord` | one channel of a converted recording: extraction's hand-over, FLAC or RAW writer, the session's start, stop and finalization | keeps the ring's cells and counters and the spill file's content and offsets, in steps coarser than those of `RingBuffer` and `SpillFile` |
| `LegacyProofs` | theorems about `LegacyRecord` | extends `LegacyRecord` |
| `StreamMarks` | the boundary marks beside the raw RF ring | `MCStreamMarks` adds the symmetry |
| `StreamMarksProofs` | theorems about `StreamMarks` | extends `StreamMarks` |
| `DddAsync` | the DdD's USB queue | composed by the next |
| `DddCapture` | a DdD capture around one run of the queue | extends `DddAsync` |
| `DddProofs` | theorems about `DddCapture` and its queue | extends `DddCapture` |
| `LocalSave` | a recording made on the monitor client, both ends and the link | - |
| `LocalSaveProofs` | theorems about `LocalSave` | extends `LocalSave` |
| `PreviewWorker` | the RF preview of one channel and profile | - |
| `PreviewWorkerProofs` | theorems about `PreviewWorker` | extends `PreviewWorker` |

### RingBuffer
One action per atomic step of the code. The producer is
`bufmgr_write_begin` (`BeginWrite` loads `head`; `WritePtrGranted` or
`WritePtrRefused` loads `tail` and checks; `WaitReturns` is the wait between two
attempts, a wakeup or a timeout), the memory copy (`CopyIn`), and
`bufmgr_write_end` (`FinishLoadsHead`, `FinishChecks`, `Publish`, `WriteEnd`):
the check is made again on fresh loads and its refusal ignored. The consumer is
`ReadBegin`, `UseBlock`, `ReadFinished`, `WrapHead`, `WrapTail`: once `head` has
reached the buffer size the size is subtracted first from `head`, then from
`tail`, so for a moment the fill level seems to exceed the ring. Subtractions
are `size_t`: a stale pair with `tail - head` beyond the size passes the check
for free space, which `Fits` models as such. The data are positions of the
stream, enough to tell any two bytes apart. `published`, `released` and
`delivered` are history. `misread` is history too: the producer loaded `head` while
the ring was exactly full, loaded `tail` after a wrap, and took the pair for that of
an empty ring. Nothing keeps it from doing so; the properties that this breaks hold
until then.

### SpillFile
Every thread of `Producers` calls `gui_record_spill_enqueue`, and one of them, the
legacy writer, is also the one that reads. The call looks whether the file is there
(`OpenChannel`), creates it (`OpenCreates`, `OpenFails`), loads `write_offset` before
it takes `io_lock` (`EnqueueLoad`), writes under the lock (`EnqueueWrite`, or
`EnqueueFails` with a part of the data in the file), and stores the new offset after
releasing it (`EnqueuePublish`). `gui_record_spill_read_block` computes what it may
read, reads under the lock (`ReadBlock`), stores (`ReadStore`) and recycles
(`RecycleCheck`, `RecycleLock`, `RecycleTruncate`, which may fail,
`RecycleResetsWrite`, `RecycleResetsRead`). None of these waits for anything but
`io_lock`, so an enqueue may fall inside a recycle or inside another enqueue. `raced`
is history: two threads have held `write_offset`, loaded and not yet stored, at once,
or both have created the file. What the file holds beyond its end is `Hole`. A chunk
is written by position, so that lost, repeated and exchanged bytes differ.

### RecordDirect
`PushBegin` looks at the backlog; the chunk goes to the ring (`PushCopies` and then
`PushRing`, or `PushUnpublished` when `rb_write_finished` refuses beside a wrap and
`bufmgr_write_end` does not look), or to the spill file when the backlog is not zero
or the ring refuses (`PushRefused`, `PushSpill`), or is dropped (`PushDropped`). The
writer's loop is `WriterTop` (sample the flag), the held block (`RetryWrites`,
`RetryFails`, `RetryNotDue`), the source of the next block (`TakeFromRing`,
`TakeFromSpill`, `SpillReadFails`, `NothingToTake`), the write (`WriteSucceeds`,
`WriteFails`, with any part of the block in the file), `bufmgr_read_end` (`Release`)
and the copy aside (`Hold`), in that order. The unit is a chunk. `recording_active`
is `tap = "stopped"`, cleared only after the tap is disabled and idle:
`ImplementsDirect`, below, says that the handshake does it in that order.

Every step is possible whenever the code allows it. `mishaps` is history and names
five events: `gap` (the writer takes a spill block past older chunks that have filled
the ring since it looked there), `reuse` (the producer copies into a slot of a block
that is released and not yet copied aside), `partial` (a failed `fwrite` has left a
part of the block), `unread` (a read of the spill file fails in the drain at the
stop) and `unpublished`.

### RecordTaps
One step per atomic: the start clears the context, activates each channel,
resets the counter and enables the tap; an iteration loads the active flags,
enters (increment) and latches each tap, pushes on what it latched, and leaves
(decrement); the stop disables each tap, waits until its counter is zero, clears
the recording flag, and finalization deactivates the channels. Sessions and
iterations follow each other within the bounds. `straddled` is history: an iteration
was under way, in a state in which it does harm, when `tap_enable` reset the counter;
nothing but ten milliseconds of sleep keeps it from being so. Its specification has names of its
own (`TapsInit`, `TapsNext`, `TapsSpec`), so that one module can extend it together
with `RecordDirect`.

`RecordTapsDirect` maps each channel to `RecordDirect`: the tap is on until the stop
has disabled both channels and stopped once the recording flag is cleared, a push is
under way from the last latch to the queue, the writer has not run, and the spill file
holds a chunk already, so that each push is `RecordDirect`'s one step to the spill file. The start of
the next recording is the one step `RecordDirect`, which models a single recording,
does not have (`NextRecording`).

### LegacyRecord
The extraction thread looks at the recording flag (`TakeBlock`), may find the
disk full (`GuardTrips`, which asks for a stop), and only later hands the block over:
a stop, and even the next start, may come in between and inside. It is granted a cell
of the ring (`BeginWrite`), copies and publishes (`EndWrite`), or is refused the
publication without noticing (`EndWriteRefused`); or the ring is full, or seems to be
beside a wrap, and it loads the spill file's offset (`BeginSpill`), writes there and
stores the offset (`EndSpill`), or loses the block (`Dropped`). The writer thread is
`WriterTop` (sample the flag), `ReadRing`, `ReadSpill` or `ReadNothing` (nothing is
there, or the read fails), `Recycle`, the write, and per format what a failed write
leads to: FLAC spills a ring block before it releases it (`SpillBeforeRelease`,
`RespillEnds`), gives up when it is a local save (`FlacLocalFails`) and loses a block
it had read from the spill file (`SpilledBlockFails`); RAW releases first
(`RawReleases`) and then spills from the released cell (`RawPreserves`,
`RawPreserved`, `RawNotPreserved`). The user interface is `Start`, `StartFails`,
`EnableExtraction`, `StopExtraction`, `HonourRequest`, `StopWriter`, `Finalize`.

A block is a pair of session and number. Both threads load and store the spill file's
offset without a lock, so that a recycle or another enqueue may fall inside an
enqueue; `Spilled` is then whichever of the truncation and the write came last, and a
gap reads as zeros (`NoBlock`). Coarser than in `SpillFile` are the write with the
store that follows it, the creation of a file and the recycle, one step each. `hist`
is history: which blocks were handed over in time, failed, were caught half handed
over by a reset (`late`), and the mishaps: an enqueue or a grant was disturbed
(`raced`), a failing read ended the writer (`unread`), a publication was refused
(`unpublished`).

### StreamMarks
The capture thread observes a write (`Observe`: queue a mark when rate, epoch or
ambiguity change, or, with the queue full, publish the recovery snapshot by `Turn`,
`StoreWord`, `Turn` around a sequence number) and then publishes the bytes
(`Publish`). The extraction thread's `gui_rf_stream_marks_read` copies the snapshot
word by word (`LoadSequence`, `CopyWord`, `Recheck`), adopts it when no queued mark
supersedes it (`DropMark`, `Adopt`), walks the marks that lie in the block
(`Walk`) and answers (`Finish`). Positions count sample pairs. Its only caller
reads and writes contiguously, so the branches for skipped and repeated positions
are not entered. `written` is history: the stamp of each pair.

### DddAsync, DddCapture
`DddAsync` is one `gui_ddd_async_run`. USB calls back only inside the thread's
event pump, so one step is what the thread does between two reads of
`ddd_running` or of the clock: initial submission, loop top, `TransferCallback` and
`TelemetryCallback` in the pump, ordered consumption (`NothingReady`, `OrderLost`,
`ConsumeBlock`, `RejectBlock`, `Resubmit`), the decisions at the end of an iteration
(`Decide`), and `EndThread`, which frees the queue or leaves it to an orphan when
USB still holds transfers at the reap deadline. `DddCapture` puts `gui_ddd_v1.c`
around it: `Open`, `Start` with its rollback, `StreamReady`, `GiveUp`, `StopDevice`,
`Close`, the lock on a device whose stop could not be verified and the quarantine
after an orphan. The device, its plug and its answers are the environment.

### LocalSave
On the server each file of the recording has a proxy (`OpenFile`, `Put`, `Flush`,
`Rewrite`, `CloseFile`, `AbortFile`) that enqueues jobs; the sender thread
(`TakeJob`, `StreamChunk`, `Request`, `SendFails`, `Acknowledged`,
`NotAcknowledged`, `FinishJob`) sends writes without waiting for each answer, at
most `Window` of them, and waits for the answer of every other request. The client
(`Receive`, `ReceiveFails`, `ReceiverEnds`) appends to `.partial` files and renames
them all on COMMIT. The link loses its connection at any time, requests and answers
under way included, the client may hang, and its disk may fail. `Begin`,
`StartRecording`, `StopRecording`, `EndRecording`, `EndAnswered` and `JoinSender`
are the recording's own steps on the server. Whether the end commits (`Good`) rests on
the write-error flag that the writer threads set while the recording runs: a proxy
that goes bad in the final flush does not set it, and it is `CloseFile` and the
client's own check that keep such a file from its final name.

### PreviewWorker
The extraction thread registers as a reader, loads the route and submits (`Offer`,
`Recheck`, `LoadIndexes`, `Reject`, `Accept`, `Publish`, one step per atomic that
matters). Two controls reach the worker beside the queue: `SetPaused` with
`PauseLeavesGap`, and `Reset` (a change of profile too). The worker's loop is `Top`
(apply a reset), `LoadPause`, `ReleasePaused` and `ApplyPause` (apply a pause),
`TakeFlush` and `Discard`, `TakeBlock`, `AcquireBudget`, `BeginBlock`, `Decode`, the
callback that looks at the controls and copies the picture (`Look`, `CopyPicture`)
and `FreeSlot`; a block that is too old empties the queue (`TooOld`). `Detach`,
`StopWorker` and `Join` are the end of its life. The decoder is the sequence of
blocks it has joined since its reset, and a picture remembers that sequence.

## 3. Runs

| Run | Expectation | Question |
|---|---|---|
| `ring` | pass | Do all interleavings of loads, copy and wrap, exactly full rings included, keep granted cells free and unread bytes intact and make the ring a FIFO, until a full ring is taken for an empty one? Without exception: are accesses inside the mapping, does every write call end and every block get read? |
| `spill` | pass | Two threads that enqueue, one of which reads: is the spill file a lossless FIFO through failed writes, failed truncations and recycles, and does it drain, until two threads have held the write offset at once? |
| `direct` | pass | In every schedule: is the output file the accepted stream in order unless one of four mishaps happened, is everything that can be read drained at the stop, does the writer end, is everything accepted written unless a mishap lost it? |
| `direct_stop_held` | violation of `DrainedAfterRecovery` | a stop while a failed block is held |
| `taps` | pass | In every schedule, until an iteration straddles an enable: no push after the wait, both channels in lockstep, each channel makes only the steps `RecordDirect` takes from the handshake, the stop returns; over several sessions |
| `legacy` | pass | With the hand-over, the enqueue, the read and the recycle interleaving: does the file hold only blocks of its session, each once, and all of them when nothing failed and no mishap happened; does a stop finish? |
| `legacy_flac_lost` | violation of `FailedBlockIsKept` | a block from the spill file whose encoding fails |
| `marks` | pass | With torn snapshots and a full queue: is a block reported safe only when all of it has one stamp, and then with that stamp; is a uniform, unambiguous block reported safe? |
| `ddd` | pass | Are blocks consumed in order, is a run that ends well complete, is nothing freed that USB holds, is an unverified device never opened, does a stop and does a failure end the capture? |
| `ddd_stop_race` | violation of `StopIsNoOrderFailure` | an ordinary stop between two reads of the running flag |
| `local_save` | pass | Is a file under its final name whole, is a recording reported committed only when all its files are final, does every recording end though link and client fail? |
| `preview` | pass | Is a picture decoded from one uninterrupted piece of the stream, is the one handed out after a reset free of what came before it, is the worker freed only when nobody is in it, does its queue keep moving? |

Beside these, configurations that reproduce a single behaviour are kept for
whoever works on the code in question; TLC finds each within a minute.

| Configuration | Module | Violates | Shows |
|---|---|---|---|
| `ring_full` | `RingBuffer` | `GrantIsFree` | a full ring taken for an empty one: the range granted holds unread bytes |
| `ring_lost_write` | `RingBuffer` | `WrittenIsPublished` | `bufmgr_write_end` ignores that `rb_write_finished` may refuse on fresh loads; the chunk is counted and signalled but not published |
| `spill_recycle` | `MCSpillFile` | `Intact` | a recycle between an enqueue's load and store |
| `spill_two_producers` | `MCSpillFile` | `Intact` | extraction and legacy writer enqueuing |
| `direct_gap`, `direct_reuse`, `direct_partial`, `direct_unpublished` | `MCRecordDirect` | `GapIsHarmless`, `ReuseIsHarmless`, `PartialIsHarmless`, `UnpublishedIsHarmless` | each of the four mishaps by itself breaks the order |
| `taps_straddle` | `RecordTaps` | `Quiet` | an iteration under way when a tap is enabled |
| `legacy_raced`, `legacy_unread`, `legacy_unpublished` | `LegacyRecord` | `RaceIsHarmless`, `UnreadIsHarmless`, `UnpublishedIsHarmless` | each mishap by itself loses a block of a recording in which every write and spill worked |
| `legacy_raw_lost` | `LegacyRecord` | `FailedBlockIsKept` | the RAW writer spills a failed block from the cell it has released |
| `local_save_lost_ack` | `LocalSave` | `IncompleteStaysPartial` | the answer to COMMIT is lost: the client's files have their final names, the server does not report the recording as committed |
| `preview_frozen` | `PreviewWorker` | `FrozenIsTakeable` | a block refused beside a pause leaves the flush request set, and the frozen picture cannot be taken until the resume |

### What the properties except, and what the runs leave out
No action has a guard the code does not have: the passing runs contain every schedule
of the steps they model. Where the code does damage in some schedule, a history
variable records the event that does it, and the property says that nothing else
does: until the event, or unless it happened, the claim holds. For each event a
configuration of the table above shows the damage.

| Event | Recorded by | Excepted in |
|---|---|---|
| a full ring taken for an empty one by a stale pair of loads. 64 KiB chunks do fill a record ring exactly | `misread` | `WindowIsFree`, `UnreadIsIntact`, `ImplementsFifo` of `ring` |
| an enqueue beside a recycle, another enqueue or the creation of the file | `raced` | the properties of `spill` |
| gap, reuse, partial, unpublished | `mishaps` | `InOrder`, `ImplementsFifo` of `direct` |
| reuse, unread, unpublished | `mishaps` | `AcceptedIsWritten`; a gap or a partial write loses nothing |
| unread | `mishaps` | `DrainedAtExit`, for the spill file only |
| a harmful iteration under way at an enable | `straddled` | the properties of `taps` |
| raced, unread, unpublished | `hist.mishaps` | `HealthyIsComplete` |
| raced | `hist.mishaps` | `NothingTwice`, and the zeros in `OwnSession` |
| a hand-over under way across a stop and the next start | `hist.late` | `OwnSession`, for that block and for what the first cell holds, which such a thread publishes when it was granted another one |

In these places a model does less than the code. The queues of `RecordDirect` are
those of `ByteFifo`, with the refusals and the missing publication that `RingBuffer`
shows; the race of a recycle with an enqueue is not among its steps, it is
`SpillFile`'s, and `spill_recycle` has the direct path's one producer. The rings of
`RecordDirect` and `LegacyRecord` refuse beside a wrap, but never grant an unread
block: a full ring taken for an empty one is `RingBuffer`'s. `LegacyRecord` closes a spill file only when
nobody is inside it, or loses the block of whoever is; that such a thread uses a closed
`FILE` is not modelled. `StreamMarks` publishes every write: a publication refused by
`rb_write_finished`, which `ring_lost_write` shows, would shift all later positions.
`LocalSave` in its run has files of a header only. The other bounds are those below.

### Bounds
`ring`: 6 cells, writes of 2, 3 and 5, reads of 3, 18 bytes, three times round the
buffer, so that the wrap meets every phase of a write call at every fill level, the
exactly full ring included; writes of 2 let blocks lie across its end, and a write of
5 is refused while the ring holds too little to read, so that only the attempts
bound ends the call.
`spill`: two threads, 5 units offered in chunks of 1 and 2, blocks of 2: recycles with
data queued between them, and enqueues inside recycles and inside each other.
`direct`: 3 ring slots, blocks of 2, 5 pushes, 2 failures: fills the ring, spills,
drains both, fails twice in a row, in part or as a whole.
`taps`: 4 iterations over 2 sessions, so that an iteration can meet the second
start and the second stop. `legacy`: a ring of two blocks (with one, the wrap that
refuses a publication beside a release would never find a free cell), 3 blocks, 2
recordings, both formats: blocks meet a full ring, a backlog, a failing write, a stop
and the next start. `marks`: two rates (symmetric), writes of 1 and 2 pairs, blocks of
2, a queue of one mark, 6 pairs: blocks lie across writes, the queue overflows while
a snapshot is being copied, and marks follow the snapshot before it is adopted.
`ddd`: 2 transfers, one discarded block, one tolerated telemetry failure, 4 blocks:
every slot is used twice, completions are exchanged, a stop and a failure come at
every place. `local_save`: 2 files of a header each, a window of 2 writes, a queue
of 2 and 2 recordings, so that the first file waits behind the second and what the
first recording leaves meets the second; with `Chunks = 1` and one recording it
passes as well. `preview`: 2 slots, 4 blocks, a reset, a pause and its resume: the
queue overflows and each control meets blocks queued, in decoding, and in a picture.

`legacy` and `ddd` keep the deadlock check: once a recording is finalized the user
can always try another start, and the device can always be plugged, whatever the
bounds. The others stop at their bound, hence `CHECK_DEADLOCK FALSE`.

### Fairness
Weak fairness is assumed of a thread's next step only where the code does not
block: the consumer's and the writer's loops, a write call that has begun (its
waits have timeouts), an iteration that has begun, and the stop's own steps.
Nobody has to begin a write, a push, a recording or an iteration. The one strong
fairness, of `RetryAttempt` in `RecordDirect`, is the two-second timer: it comes
due again and again while the block is held. The number of failures is bounded,
so that a file that fails for ever is not covered by `AcceptedIsWritten`;
`WriterEnds` does not depend on it.

`ddd`: the capture thread with its 10 ms pump, the passing of a deadline, the steps
of the user interface that end a capture; nothing of USB, the device or the user.
`legacy`: the writer, a hand-over that has begun, a stop that has begun, and the
event loop that honours a requested stop. `local_save`: the server's threads (a
socket operation ends within 15 s, one way or the other), the steps that start and
end a recording, and the poll that stops a failed one; nothing of client or network.
`preview`: the worker, which polls each millisecond and whose permit is granted at
some time, and a submission or a pause that has begun.

## 4. Theorems

| Theorem | Says |
|---|---|
| `TypeCorrect`, `NeverUnmapped` | indexes in range; no access outside the double mapping |
| `GrantedIsFree`, `UnreadStaysIntact` | until a full ring is taken for an empty one: granted cells are free; unread bytes stay intact |
| `RingIsFifo` | until then the ring implements `ByteFifo` |
| `TapsTypeCorrect` | the counters stay in -1 .. 1 |
| `StopIsQuiet`, `ChannelsStayInLockstep` | until an iteration straddles an enable: no push after the wait; channels armed on the same chunk |
| `HandshakeIsDirect` | until then each channel of the handshake makes only the producer and stop steps of `RecordDirect`, or begins the next recording |
| `SpillTypeCorrect` | types, in every schedule of any number of threads |
| `ReaderStaysBehind` | until two threads hold the write offset at once, the read offset never passes it outside a recycle |
| `SpillLosesNothing`, `SpillIsFifo` | until then what was accepted comes back, once and in order; the spill file implements `ByteFifo` |
| `DirectTypeCorrect` | types, in every schedule |
| `AcceptedStaysInOrder`, `DirectIsFifo` | until a gap, a reuse, a partial write or a refused publication: file, block in hand, ring and spill file are the accepted stream; the whole direct path implements `ByteFifo` |
| `ExitLeavesNothing` | in every schedule the writer leaves the drain with nothing left behind but what it could not read |
| `LegacyTypeCorrect`, `FilesHoldTheirOwn` | types; a file holds blocks of its recording, but for what a reset caught half handed over, and zeros after a race |
| `FlacBlocksOnce` | until a race a FLAC block is in one place, and there once |
| `HealthyIsWhole` | when nothing failed and no mishap happened the finalized file is complete, and in order when nothing was spilled |
| `MarksTypeCorrect`, `SafeBlocksAreUniform` | types; a safe block was written clean under the stamp reported |
| `UniformBlocksAreSafe`, `UnmarkedBlocksContinue` | before an overflow no uniform block is refused; an unmarked safe block continues its predecessor |
| `DddTypeCorrect`, `BlocksInOrder`, `SuccessConsumesAll` | counters agree with USB; blocks consumed in order; success means everything was consumed |
| `FreedNotHeld`, `OpensSafely` | nothing USB holds is freed; no capture is opened beside a retained queue or a collecting device |
| `PreviewTypeCorrect`, `PicturesAreOneStream`, `PicturesAreCurrent` | types; a picture is one piece of the stream; none from before a reset is handed out after it |
| `WorkersFreedUnused` | a worker is freed only when nobody is in it |
| `LocalSaveTypeCorrect` | types; the sender keeps to its window, the queue to its limit |
| `FilesAreWhole` | a file has its final name only with everything written to it, in its last version |
| `CommitIsComplete` | a recording reported as committed has every file under its final name |

Each is a theorem of the specification the run checks, `Spec => ...`, with no
hypothesis but the assumptions on the constants, and holds for every value of them:
queue, ring and block sizes, threads, numbers of writes, recordings, failures, resets.
The exceptions are in the properties, as in section 3.

**RingBuffer.** `MapInv` relates each pair of indexes to the program counters,
the half-done wrap included, and is inductive by itself. Window and data rest
on `FlowInv`, which holds until `misread`: the fill level is at most the buffer size
and is what the indexes say, up to one buffer size inside a wrap; `StaleHead` bounds
the distance between the producer's old `head` and the `tail` it is about to load (at
least the true fill level, up to one buffer size that a wrap has moved, or `tail` is
below and the check refuses, or the ring was full when `head` was loaded); `Window`
says that a granted range still fits beside the unread bytes. After a wrap the
distance of a full ring and that of an empty one are the same, which is the whole
reason for the exception. `DataInv` adds what the cells hold, `FifoInv` that
the delivered bytes are the prefix of the stream. `MapInv` needs no exception,
because a wrong grant is still a grant inside the mapping.

**RecordTaps.** `CountInv` ties each counter to the iteration's place and to the
offset an ill-timed reset may have left, at most one. Until `straddled`,
`ArmInv` makes the counter exact and says that a latched push is counted
(`Gated`) and that the latches were decided on the session's flags (`Decided`).
`PairInv` then relates the two channels. For the mapping to `RecordDirect`
(`HandshakeIsDirect`) `BoundInv` adds that an iteration pushes at most one chunk of
each channel, so that the pushes of the mapping keep to its bound, and `LatchedOn` that a
decision to push is completed only while the tap is on: if channel B is not gated,
A's decision already places the record layer inside a session, where B is gated.

**SpillFile.** `RangeInv` keeps every offset within what was offered and holds in
every schedule. The rest of `SpillInv` holds until `raced`: `OffsetInv` says that the
backlog computed from the two offsets is what was accepted and not yet delivered,
except between the two stores of a recycle, when only the write offset says so;
`EnqueueInv` that one thread at most is inside an enqueue, and that the offset it
loaded is still the current one when it writes; `DataInv` what
the file holds between the offsets, in the chunk being published and in the block
just read. `WrittenContents` is the lemma about `fwrite` at an offset. The refinement
maps each publication to a put, each delivery to a get and the rest to stutters.

**RecordDirect.** `BaseInv` (types, `HandInv`, `PushInv`, `StopInv`) holds in every
schedule, `DataInv` until the first damaging mishap. Places are counted instead of listed: `First` is the number of the
oldest chunk still in the ring, `Oldest` its slot, and the parts of `DataInv` give
every chunk in file, hand, ring and spill file its number. `HandInv` says where the
block in hand is and what is left to release at each place of the writer, `PushInv`
that a push to the ring has found the spill file empty and has room for what it
copied. `StopInv` is the drain.

**LegacyRecord.** `GrantInv` says that a granted cell is the ring's next one, or that a
reset has come in between and the first cell is late. `SpillInv`: until a race the
write offset is the end of the file, and what a thread inside an enqueue has loaded
is that offset. `OwnInv` gives every block wherever it is to the recording, to the
late ones or to the zeros of a race; `ApartInv` keeps the FLAC writer's places
disjoint and each free of repetitions (`FlacBlocksOnce` follows by counting: a ring of
`w - r` different blocks, sequences without repetition, disjoint unions). `CompleteInv`
is the argument about `is_recording`, read before the look for a block, for a recording
with no failure and no mishap: while the writer still works every block handed over
in time is somewhere; on the last look, past an empty ring, it is in the spill file or
written; after the exit, written. It needs `WriterInv`: what a writer with its last
look knows about the flag. `OrderInv` orders ring, file and the extraction thread's
block while nothing was spilled.

**StreamMarks.** `QueueInv` is the heart: from `Base`, the consumer's mark or, after
an overflow it has not seen, the snapshot, every change of the stream has its mark in
the queue, and every mark is truthful. `ProducerInv` says what the words of the
snapshot are while they are being stored, `CallInv` what a reader has copied of them:
a copy whose sequence number still holds when it is checked again is whole.
`NothingLostInv` covers the time before the first overflow, for `UniformIsSafe`.

**DddCapture.** `Books` keeps the engine's counters equal to what USB holds and to
the states of the slots, and every function of the queue is proved to preserve it as
an operator on engines before the actions use it. `Placed` and `Handed` relate the
place of the thread to the ids and to what was consumed, `AtRest` the phases of the
capture to the lock and to the quarantine, for `OpensSafely`.

**LocalSave.** The invariant follows a chunk from a proxy's cache through the
queue, the sender and the socket to the disk. `NothingLost` says that while the
link lives every position of a file that is not bad is in one of these places in
its last version (the header of position 1 is rewritten at the end) with no other
version of it behind; this holds although the writes of several files overtake each
other's answers, because each stage keeps the order. That a file is whole when it
is closed rests on the order of frames, which `JobsInv`, `WireInv` and `AcksInv`
state: a request is the last job in the queue and in the sender, since its proxy
waits for the answer and no other proxy writes meanwhile (`Turn`); the SYNC before
it has emptied the wire of the recording's writes; and an answer on its way back is
the answer to the frame the sender waits for. `Closes` turns this into a statement
about the disk: a closed file, or one whose CLOSE is on the wire, is whole and
nothing on its way can change it. `CommitInv` is the end: a COMMIT on the wire
finds the recording over, and an answer that says yes finds every file final. Half
of the invariant is conditional, on the link being up (`Live`) or on the receiver
being there: what was under way when the connection broke may be left over in the
wire and must be shown to do no harm, in this recording and in the next.
`LocalSaveAssumption` says that the files are finitely many and that no file is
called `"recording"`, the name the model gives to the jobs that concern all of
them.

**PreviewWorker.** `StreamInv` says that everything joined by the decoder is of the
reset and the pause the worker has applied, and that the block about to be decoded
continues it; `QueueInv` that a cell is not refilled while the worker is in it;
`LifeInv` that nobody gets in once the worker is told to stop.

The assumptions are those on the constants (`RingAssumption`, `SpillAssumption` and
so on), which TLC evaluates in the runs. Each inductive invariant was checked by TLC
on its run's constants before it was proved.

Only model-checked is liveness (`WriteCallReturns`, `EveryBlockIsRead`,
`BacklogDrains`, `WriterEnds`, `AcceptedIsWritten`, `StopReturns`, `StopFinishes`,
`StopEnds`, `FailureEnds`, `EndsAnyway`, `QueueMoves`): fairness and ENABLED are out
of the proof system's reach.

The properties of the violation runs are false of the code and have no theorem. The
type invariants of `SpillFile`, `RecordDirect`, `RecordTaps`, `LegacyRecord`,
`StreamMarks`, `LocalSave` and `PreviewWorker` are proved and not among the runs'
properties. No module uses a recursive operator; the sequence facts are proved from the
sequence library's theorems, without induction over data.

## 5. What is not modelled

* Outside the modelled components: playback, audio output, display thread, command
  line capture and ring-to-file writer, capture control, the FX3, RTL-SDR and
  simulated inputs, the monitor's network fan-out and video, user interface and
  updater. Signal processing is arithmetic on floating point and out of TLC's reach.
  By size these, with fonts, icons, the vendored `clay.h` and the drawing code, are
  most of the repository, so the share of its lines that the map covers is small;
  what is modelled is where threads, devices and files meet.
* In the record path: `rb_close`, the reset of any ring but a record ring, the creation of mappings and
  threads; the unpacking and the display rings of the extraction thread; encoder,
  conversions and resampler; path choice and overwrite prompts.
* In `DddAsync`: the words and totals of the FIFO instrument. In `LocalSave`: frame
  coding, checksums, name clashes. In `PreviewWorker`: sound, the arithmetic of the
  shared CPU budget, the hysteresis of the pressure, the monitor's sink.

Memory order is sequential consistency: the ring's indexes are C11 atomics with the
default order; the acquire and release pairs of the preview and of the marks are
taken as stronger than they are. `is_recording` is a plain `bool` shared between
threads; the models load and store it in one step.

## 6. Plan

Every safety property and every action property of the passing runs is proved. What
would be worth proving next is one level up: that `RecordDirect` uses ring and spill
file only as `ByteFifo` gives them (`RingIsFifo`, `SpillIsFifo`), so that the three
refinements compose to one from the card's chunks to the output file, and the same
for `LegacyRecord`.

Modules that remain, with what they compose:

1. `BufferEvent` (`rb_event.c` with the waits of the buffer manager): no lost wakeup.
2. `Framebox` (`gui_monitor_video_framebox.c`) behind `PreviewWorker`: a newest-value
   register as the abstract specification.
3. The budget policy of the preview: permits, debt and cancellation between workers.
4. The monitor's sessions and bounded queues: a slow client never blocks the capture.
5. Capture control, then the updater's phases.
