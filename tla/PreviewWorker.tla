---------------------------- MODULE PreviewWorker ----------------------------
(***************************************************************************)
(* The RF preview of one channel and profile: the extraction thread offers *)
(* blocks (gui_video_submit_rf in signal/gui_cvbs.c), the worker decodes   *)
(* them into pictures (processing/gui_rf_preview_worker.c), the user       *)
(* interface takes the newest one, resets, and destroys the worker.        *)
(* Nobody waits for the worker but its destroyer.                          *)
(*                                                                         *)
(* All blocks have one length, so that the limits of the queue in slots    *)
(* and in time are one bound; that a block has waited too long is a choice *)
(* of the step that looks at the clock.  Sound, statistics, the sink of    *)
(* the monitor and the arithmetic of the shared CPU budget are left out:   *)
(* its permit is granted at some time.                                     *)
(***************************************************************************)
EXTENDS Integers, Sequences

CONSTANTS
    Slots,       \* RF_QUEUE_SLOTS
    MaxBlocks,   \* bound: blocks offered
    MaxResets,   \* bound: resets and changes of profile
    MaxPauses    \* bound: pauses, each with its resumption

ASSUME PreviewAssumption ==
    /\ Slots \in Nat \ {0}
    /\ {MaxBlocks, MaxResets, MaxPauses} \subseteq Nat

VARIABLES
    ctl,     \* what the threads share besides the queue
    prod,    \* the extraction thread: its place and locals
    queue,   \* cells, read_index and write_index
    wk,      \* the worker thread: its place, locals and what it has applied
    dec,     \* the decoder: the blocks it has joined since its reset
    frame,   \* the newest picture: what it was decoded from and under
    ui,      \* the worker's life: "live", "detached", "stopping", "freed"
    offered  \* history: blocks offered

vars == <<ctl, prod, queue, wk, dec, frame, ui, offered>>

NoPicture == [valid |-> FALSE, control |-> 0, blocks |-> <<>>]

Block(position, cut, control, pause) ==
    [position |-> position, cut |-> cut, control |-> control, pause |-> pause]

Outside == [pc |-> "idle", pause |-> 0, room |-> FALSE, cut |-> FALSE, control |-> 0]

Init ==
    /\ ctl = [control |-> 1, pause |-> 0, gap |-> FALSE, flush |-> FALSE, setting |-> FALSE]
    /\ prod = Outside
    /\ queue = [cells |-> [i \in 0 .. Slots - 1 |-> Block(0, FALSE, 0, 0)], read |-> 0, write |-> 0]
    /\ wk = [pc |-> "top", control |-> 1, pause |-> 0, seen |-> 0]
    /\ dec = <<>>
    /\ frame = NoPicture
    /\ ui = "live"
    /\ offered = 0

Paused(pause) == pause % 2 = 1

-----------------------------------------------------------------------------
(* The extraction thread: gui_rf_preview_worker_submit.                    *)

Producer(change) == prod' = change /\ UNCHANGED <<wk, dec, frame, ui>>

(* It counts itself among the readers, then loads the route.               *)
Register ==
    /\ prod.pc = "idle" /\ offered < MaxBlocks
    /\ Producer([prod EXCEPT !.pc = "route"])
    /\ UNCHANGED <<ctl, queue, offered>>

LoadRoute ==
    /\ prod.pc = "route"
    /\ Producer([prod EXCEPT !.pc = IF ui = "live" THEN "offer" ELSE "idle"])
    /\ UNCHANGED <<ctl, queue, offered>>

(* Refused and counted, as a drop or as a drop for the pause.              *)
Refuse ==
    /\ Producer(Outside)
    /\ offered' = offered + 1
    /\ UNCHANGED queue

Offer ==
    /\ prod.pc = "offer"
    /\ IF Paused(ctl.pause)
       THEN Refuse
       ELSE /\ Producer([prod EXCEPT !.pc = "recheck", !.pause = ctl.pause])
            /\ UNCHANGED <<queue, offered>>
    /\ UNCHANGED ctl

Recheck ==
    /\ prod.pc = "recheck"
    /\ IF ctl.pause # prod.pause
       THEN Refuse
       ELSE Producer([prod EXCEPT !.pc = "room"]) /\ UNCHANGED <<queue, offered>>
    /\ UNCHANGED ctl

Room == queue.write - queue.read < Slots

LoadIndexes ==
    /\ prod.pc = "room"
    /\ Producer([prod EXCEPT !.pc = "flush", !.room = Room])
    /\ UNCHANGED <<ctl, queue, offered>>

(* rf_reject_block: the worker is asked to empty the queue.                *)
Reject ==
    /\ prod.pc = "flush"
    /\ ~prod.room \/ ctl.flush
    /\ Refuse
    /\ ctl' = [ctl EXCEPT !.gap = TRUE, !.flush = TRUE]

(* The block carries the gap before it, whether of the source or of the    *)
(* blocks refused, and the reset it was submitted under.                   *)
Accept ==
    /\ prod.pc = "flush"
    /\ prod.room /\ ~ctl.flush
    /\ \E cut \in BOOLEAN :
         Producer([prod EXCEPT !.pc = "copy", !.cut = cut \/ ctl.gap, !.control = ctl.control])
    /\ ctl' = [ctl EXCEPT !.gap = FALSE]
    /\ UNCHANGED <<queue, offered>>

Publish ==
    LET block == Block(offered, prod.cut, prod.control, prod.pause)
    IN  /\ prod.pc = "copy"
        /\ Producer(Outside)
        /\ queue' = [queue EXCEPT !.cells[queue.write % Slots] = block, !.write = @ + 1]
        /\ offered' = offered + 1
        /\ UNCHANGED ctl

-----------------------------------------------------------------------------
(* Pause, by the extraction thread under pressure or by the monitor server *)
(* when its mode changes; reset, by the user interface; and the life of    *)
(* the worker.                                                             *)

SetPaused ==
    /\ ui = "live" /\ ~ctl.setting
    /\ ctl.pause < 4 * MaxPauses
    /\ ctl' = [ctl EXCEPT !.pause = IF Paused(@) THEN @ + 1 ELSE @ + 3, !.setting = TRUE]
    /\ UNCHANGED <<prod, queue, wk, dec, frame, ui, offered>>

PauseLeavesGap ==
    /\ ctl.setting
    /\ ctl' = [ctl EXCEPT !.gap = TRUE, !.setting = FALSE]
    /\ UNCHANGED <<prod, queue, wk, dec, frame, ui, offered>>

Reset ==
    /\ ui = "live"
    /\ ctl.control <= MaxResets
    /\ ctl' = [ctl EXCEPT !.control = @ + 1]
    /\ UNCHANGED <<prod, queue, wk, dec, frame, ui, offered>>

Readers_Fault == prod.pc \in {"recheck", "room", "flush", "copy"} \/ ctl.setting

(* s_rf_route_readers.  Whoever pauses the worker is the extraction thread *)
(* (registered) or the thread that detaches it; the monitor server's own   *)
(* worker is never freed.                                                  *)
Readers == prod.pc # "idle" \/ ctl.setting

Life(from, to) ==
    /\ ui = from
    /\ ui' = to
    /\ UNCHANGED <<ctl, prod, queue, wk, dec, frame, offered>>

(* The route is taken back, the readers leave, the worker is stopped and   *)
(* joined.                                                                 *)
Detach == Life("live", "detached")
StopWorker == ~Readers /\ Life("detached", "stopping")
Join == wk.pc = "exited" /\ Life("stopping", "freed")

-----------------------------------------------------------------------------
(* The worker thread.                                                      *)

Stopped == ui = "stopping"

Worker(pc) == wk.pc = pc /\ UNCHANGED <<prod, ui, offered>>

Goto(pc) == wk' = [wk EXCEPT !.pc = pc]

Quiet == UNCHANGED <<ctl, queue>>

NoDecoding == UNCHANGED <<dec, frame>>

(* rf_reset_decoder.                                                       *)
ResetDecoder == dec' = <<>> /\ frame' = NoPicture

(* A reset or a change of profile is applied first.                        *)
Top ==
    /\ Worker("top") /\ Quiet
    /\ IF Stopped THEN Goto("exited") /\ NoDecoding
       ELSE IF ctl.control # wk.control
       THEN wk' = [wk EXCEPT !.pc = "pause", !.control = ctl.control] /\ ResetDecoder
       ELSE Goto("pause") /\ NoDecoding

(* A change of the pause resets the decoder and keeps the picture.         *)
LoadPause ==
    /\ Worker("pause") /\ Quiet
    /\ wk' = [wk EXCEPT !.seen = ctl.pause,
                        !.pc = IF ctl.pause # wk.pause \/ Paused(ctl.pause) THEN "release" ELSE "flush"]
    /\ dec' = IF ctl.pause # wk.pause THEN <<>> ELSE dec
    /\ UNCHANGED frame

(* rf_release_pause_queue: after a resume the blocks of before go.         *)
Kept(i) == ~Paused(wk.seen) /\ queue.cells[i % Slots].pause = wk.seen

FirstKept ==
    CHOOSE i \in queue.read .. queue.write :
        /\ i = queue.write \/ Kept(i)
        /\ \A j \in queue.read .. i - 1 : ~Kept(j)

ReleasePaused ==
    /\ Worker("release") /\ NoDecoding
    /\ queue' = [queue EXCEPT !.read = FirstKept]
    /\ Goto(IF wk.seen # wk.pause THEN "apply" ELSE "top")
    /\ UNCHANGED ctl

ApplyPause_Fault ==
    /\ Worker("apply") /\ NoDecoding
    /\ ctl' = [ctl EXCEPT !.flush = FALSE]
    /\ wk' = [wk EXCEPT !.pc = "top"]
    /\ UNCHANGED queue

ApplyPause ==
    /\ Worker("apply") /\ NoDecoding
    /\ ctl' = [ctl EXCEPT !.flush = FALSE]
    /\ wk' = [wk EXCEPT !.pc = "top", !.pause = wk.seen]
    /\ UNCHANGED queue

TakeFlush ==
    /\ Worker("flush")
    /\ ctl' = [ctl EXCEPT !.flush = FALSE]
    /\ IF ctl.flush THEN ResetDecoder /\ Goto("discard") ELSE NoDecoding /\ Goto("next")
    /\ UNCHANGED queue

(* rf_release_queued.                                                      *)
Discard ==
    /\ Worker("discard") /\ NoDecoding
    /\ queue' = [queue EXCEPT !.read = queue.write]
    /\ Goto("top")
    /\ UNCHANGED ctl

Slot == queue.cells[queue.read % Slots]

(* The oldest block has waited longer than RF_QUEUE_MAX_US.                *)
TooOld(pc) == Worker(pc) /\ queue.read < queue.write /\ ResetDecoder /\ Goto("discard") /\ Quiet

TakeBlock_Fault ==
    /\ Worker("next") /\ NoDecoding
    /\ UNCHANGED <<ctl, queue>>
    /\ Goto(IF queue.read = queue.write THEN "top" ELSE IF Slot.pause = wk.pause THEN "permit" ELSE "free")

(* A block of before a reset or of another pause is dropped.               *)
TakeBlock ==
    /\ Worker("next") /\ NoDecoding
    /\ UNCHANGED <<ctl, queue>>
    /\ IF queue.read = queue.write
       THEN Goto("top")
       ELSE Goto(IF Slot.control = wk.control /\ Slot.pause = wk.pause THEN "permit" ELSE "free")

Superseded == ctl.control # wk.control \/ ctl.pause # wk.pause

(* rf_acquire_budget: something changed, or the permit is granted.         *)
AcquireBudget ==
    /\ Worker("permit") /\ NoDecoding /\ Quiet
    /\ Goto(IF Stopped \/ Superseded \/ ctl.flush THEN "top" ELSE "recheck")

Continues_Fault == dec # <<>> /\ dec[Len(dec)].position + 1 = Slot.position

(* The block follows the last one the decoder had.                         *)
Continues ==
    /\ dec # <<>> /\ ~Slot.cut
    /\ dec[Len(dec)].position + 1 = Slot.position

BeginBlock ==
    /\ Worker("recheck") /\ Quiet
    /\ IF Stopped \/ Superseded THEN Goto("top") /\ NoDecoding
       ELSE /\ Goto("decode")
            /\ IF Continues THEN NoDecoding ELSE ResetDecoder

(* The samples are read; a picture may be complete.                        *)
Decode ==
    /\ Worker("decode")
    /\ dec' = Append(dec, Slot)
    /\ Goto("free") \/ Goto("picture")
    /\ UNCHANGED <<ctl, queue, frame>>

(* The converter fails and the decoder starts again.                       *)
DecodeFails ==
    /\ Worker("decode")
    /\ ResetDecoder
    /\ Goto("free")
    /\ UNCHANGED <<ctl, queue>>

(* rf_frame_callback looks, then copies.                                   *)
Look ==
    /\ Worker("picture") /\ NoDecoding /\ Quiet
    /\ Goto(IF Superseded \/ ctl.flush THEN "free" ELSE "copy")

CopyPicture ==
    /\ Worker("copy") /\ Quiet
    /\ frame' = [valid |-> TRUE, control |-> wk.control, blocks |-> dec]
    /\ Goto("free")
    /\ UNCHANGED dec

FreeSlot ==
    /\ Worker("free") /\ NoDecoding
    /\ queue' = [queue EXCEPT !.read = @ + 1]
    /\ Goto("top")
    /\ UNCHANGED ctl

-----------------------------------------------------------------------------
WorkerStep ==
    \/ Top \/ LoadPause \/ ReleasePaused \/ ApplyPause
    \/ TakeFlush \/ Discard \/ TooOld("next") \/ TakeBlock
    \/ AcquireBudget \/ TooOld("recheck") \/ BeginBlock
    \/ Decode \/ DecodeFails \/ Look \/ CopyPicture \/ FreeSlot

ProducerStep == LoadRoute \/ Offer \/ Recheck \/ LoadIndexes \/ Reject \/ Accept \/ Publish

Next ==
    \/ WorkerStep
    \/ Register \/ ProducerStep
    \/ SetPaused \/ PauseLeavesGap \/ Reset
    \/ Detach \/ StopWorker \/ Join

(* The worker polls each millisecond and its permit comes; a submission    *)
(* that has begun ends.                                                    *)
Fairness ==
    /\ WF_vars(WorkerStep)
    /\ WF_vars(ProducerStep)
    /\ WF_vars(PauseLeavesGap)

Spec == Init /\ [][Next]_vars /\ Fairness

-----------------------------------------------------------------------------
(* One stream: consecutive blocks, no gap between them, all under one      *)
(* reset and one pause.                                                    *)
OneStream(blocks) ==
    \A i \in 2 .. Len(blocks) :
        /\ blocks[i].position = blocks[i - 1].position + 1
        /\ ~blocks[i].cut
        /\ blocks[i].control = blocks[1].control
        /\ blocks[i].pause = blocks[1].pause

(* A picture is decoded from one uninterrupted piece of the stream, across *)
(* refused blocks, flushes, pauses and resets, and from slots nobody has   *)
(* written to meanwhile (gui_rf_preview_worker.c:845-857, 1098-1153).      *)
PictureIsOneStream == OneStream(dec) /\ OneStream(frame.blocks)

(* gui_rf_preview_worker_take_frame hands the picture out.                 *)
Takeable == frame.valid /\ frame.control = ctl.control /\ ~ctl.flush

(* The picture handed out after a reset or a change of profile contains    *)
(* nothing that was submitted before it (gui_rf_preview_worker.c:1181).    *)
TakenIsCurrent ==
    Takeable => \A i \in DOMAIN frame.blocks : frame.blocks[i].control = ctl.control

(* Submitted blocks do not stay in the queue, and the flush request, which *)
(* has every block refused, does not stay while the worker is not paused:  *)
(* while it lives it empties the queue and clears the request, or goes on  *)
(* taking from the queue (gui_rf_preview_worker.c:764-814).                *)
QueueMoves ==
    \/ []<>(ui = "live" => queue.read = queue.write /\ (ctl.flush => Paused(ctl.pause)))
    \/ []<><<queue'.read # queue.read>>_vars

(* A worker is freed only when no thread is in it                          *)
(* (signal/gui_cvbs.c:5298-5305).                                          *)
FreedIsUnused ==
    ui = "freed" => prod.pc \in {"idle", "route"} /\ ~ctl.setting /\ wk.pc = "exited"

(* While paused, the frozen picture can be taken: "preserving the latest   *)
(* complete frame for a frozen UI" (gui_rf_preview_worker.h:95-97).        *)
FrozenIsTakeable ==
    Paused(wk.pause) /\ ctl.pause = wk.pause /\ frame.valid /\ frame.control = ctl.control
        => Takeable
=============================================================================
