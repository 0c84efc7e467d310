------------------------- MODULE PreviewWorkerProofs -------------------------
(***************************************************************************)
(* Proofs about PreviewWorker: what a picture is made of, which picture is *)
(* handed out after a reset, and when a worker is freed, for queues of any *)
(* length and any number of blocks, resets and pauses.                     *)
(***************************************************************************)
EXTENDS PreviewWorker, TLAPS, SequenceTheorems, WellFoundedInduction

Blocks == [position : Nat, cut : BOOLEAN, control : Nat, pause : Nat]

Controls == [control : Nat, pause : Nat, gap : BOOLEAN, flush : BOOLEAN, setting : BOOLEAN]

ProducerPlaces == {"idle", "route", "offer", "recheck", "room", "flush", "copy"}

Submissions ==
    [pc : ProducerPlaces, pause : Nat, room : BOOLEAN, cut : BOOLEAN, control : Nat]

Queues == [cells : [0 .. Slots - 1 -> Blocks], read : Nat, write : Nat]

(* The places at which the worker holds the oldest block of the queue.     *)
Holding == {"permit", "recheck", "decode", "picture", "copy", "free"}

WorkerPlaces ==
    {"top", "pause", "release", "apply", "flush", "discard", "next", "exited"} \cup Holding

Workers == [pc : WorkerPlaces, control : Nat, pause : Nat, seen : Nat]

Frames == [valid : BOOLEAN, control : Nat, blocks : Seq(Blocks)]

TypeOK ==
    /\ ctl \in Controls
    /\ prod \in Submissions
    /\ queue \in Queues
    /\ wk \in Workers
    /\ dec \in Seq(Blocks)
    /\ frame \in Frames
    /\ ui \in {"live", "detached", "stopping", "freed"}
    /\ offered \in Nat

(* The indexes are in order, what the producer has found room for is still *)
(* free, and the worker holds a block that is in the queue.                *)
QueueInv ==
    /\ queue.read <= queue.write
    /\ (prod.pc = "flush" /\ prod.room) \/ prod.pc = "copy" => Room
    /\ wk.pc \in Holding => queue.read < queue.write

(* The block that is about to be decoded is of the reset and the pause the *)
(* worker has applied, so are the blocks joined so far, and it follows     *)
(* them.  A pause that is being applied has emptied the decoder.           *)
StreamInv ==
    /\ wk.pc \in {"permit", "recheck", "decode"} =>
         Slot.control = wk.control /\ Slot.pause = wk.pause
    /\ wk.pc = "decode" => dec = <<>> \/ Continues
    /\ wk.pc = "apply" => wk.seen # wk.pause
    /\ wk.pc \in {"release", "apply"} /\ wk.seen # wk.pause => dec = <<>>
    /\ \A i \in 1 .. Len(dec) : dec[i].control = wk.control /\ dec[i].pause = wk.pause
    /\ OneStream(dec)

(* A picture is one stream, all of it of the reset the picture names.      *)
FrameInv ==
    /\ \A i \in 1 .. Len(frame.blocks) : frame.blocks[i].control = frame.control
    /\ OneStream(frame.blocks)

(* Once the worker is told to stop nobody is inside and nobody gets in.    *)
LifeInv ==
    /\ ui \in {"stopping", "freed"} => prod.pc \in {"idle", "route"} /\ ~ctl.setting
    /\ ui = "freed" => wk.pc = "exited"

IInv == TypeOK /\ QueueInv /\ StreamInv /\ FrameInv /\ LifeInv

-----------------------------------------------------------------------------
(* Two indexes less than a queue apart name one cell only when equal.      *)
LEMMA CellsDiffer ==
    ASSUME NEW n \in Nat \ {0}, NEW a \in Nat, NEW b \in Nat,
           a <= b, b - a < n, a % n = b % n
    PROVE  a = b
<1> DEFINE x == a \div n
           y == b \div n
<1>1. a = n * x + (a % n)
    OBVIOUS
<1>2. b = n * y + (b % n)
    OBVIOUS
<1>3. x \in Int /\ y \in Int
    OBVIOUS
<1> HIDE DEF x, y
<1>4. b - a = n * (y - x)
    BY <1>1, <1>2, <1>3
<1>5. y - x >= 1 => n * (y - x) >= n
    BY <1>3
<1>6. y - x <= 0 => n * (y - x) <= 0
    BY <1>3
<1> QED
    BY <1>3, <1>4, <1>5, <1>6

LEMMA CellInRange == \A i \in Nat : i % Slots \in 0 .. Slots - 1
BY PreviewAssumption

(* A set of naturals has a least member.                                   *)
LEMMA LeastMember ==
    ASSUME NEW T, T \subseteq Nat, T # {}
    PROVE  \E x \in T : \A y \in T : x <= y
<1> DEFINE R == OpToRel(<, Nat)
<1>1. \E x \in T : \A y \in T : ~(<<y, x>> \in R)
    BY NatLessThanWellFounded, WFMin, Zenon
<1>2. ASSUME NEW x \in Nat, NEW y \in Nat, y < x PROVE <<y, x>> \in R
    BY <1>2, Zenon DEF OpToRel
<1> HIDE DEF R
<1>3. PICK x \in T : \A y \in T : ~(<<y, x>> \in R)
    BY <1>1, Zenon
<1>4. ASSUME NEW y \in T PROVE x <= y
    <2>1. ~(y < x)
        BY <1>2, <1>3, Zenon
    <2> QED
        BY <2>1
<1> QED
    BY <1>4, Zenon

(* rf_release_pause_queue stops at a block of the queue or at its end.     *)
LEMMA FirstKeptInQueue ==
    ASSUME TypeOK, QueueInv
    PROVE  FirstKept \in queue.read .. queue.write
<1> DEFINE Stops(i) == i = queue.write \/ Kept(i)
           T == {i \in queue.read .. queue.write : Stops(i)}
<1>1. queue.read \in Nat /\ queue.write \in Nat /\ queue.read <= queue.write
    BY DEF TypeOK, Queues, QueueInv
<1>2. T \subseteq Nat /\ queue.write \in T
    BY <1>1
<1>3. PICK i \in T : \A j \in T : i <= j
    BY <1>2, LeastMember
<1>4. \A j \in queue.read .. i - 1 : ~Kept(j)
    BY <1>1, <1>3
<1>5. \E k \in queue.read .. queue.write :
         /\ k = queue.write \/ Kept(k)
         /\ \A j \in queue.read .. k - 1 : ~Kept(j)
    BY <1>3, <1>4
<1> QED
    BY <1>5 DEF FirstKept

-----------------------------------------------------------------------------
LEMMA InitIInv == Init => IInv
<1> SUFFICES ASSUME Init PROVE IInv
    OBVIOUS
<1> USE PreviewAssumption DEF Init, Outside, NoPicture, Block
<1>1. TypeOK
    <2>1. dec \in Seq(Blocks) /\ frame \in Frames
        BY DEF Frames
    <2>2. queue \in Queues
        BY DEF Queues, Blocks
    <2>3. /\ ctl \in Controls /\ prod \in Submissions /\ wk \in Workers
          /\ ui = "live" /\ offered \in Nat
        BY DEF Controls, Submissions, ProducerPlaces, Workers, WorkerPlaces
    <2> QED
        BY <2>1, <2>2, <2>3 DEF TypeOK
<1>2. QueueInv
    BY DEF QueueInv, Holding
<1>3. StreamInv /\ FrameInv /\ LifeInv
    BY DEF StreamInv, FrameInv, LifeInv, OneStream
<1> QED
    BY <1>1, <1>2, <1>3 DEF IInv

(* What the extraction thread leaves alone.                                *)
LEMMA ProducerLeaves ==
    ASSUME Register \/ ProducerStep
    PROVE  UNCHANGED <<wk, dec, frame, ui>>
BY DEF Register, ProducerStep, LoadRoute, Offer, Recheck, LoadIndexes, Reject,
    Accept, Publish, Refuse, Producer

(* What the worker leaves alone.                                           *)
LEMMA WorkerLeaves ==
    ASSUME WorkerStep
    PROVE  UNCHANGED <<prod, ui, offered>>
BY DEF WorkerStep, Worker, Top, LoadPause, ReleasePaused, ApplyPause, TakeFlush,
    Discard, TooOld, TakeBlock, AcquireBudget, BeginBlock, Decode, DecodeFails,
    Look, CopyPicture, FreeSlot

LEMMA ControllersLeave ==
    ASSUME SetPaused \/ PauseLeavesGap \/ Reset
    PROVE  UNCHANGED <<prod, queue, wk, dec, frame, ui, offered>>
BY DEF SetPaused, PauseLeavesGap, Reset

-----------------------------------------------------------------------------
LEMMA ProducerTyped ==
    ASSUME TypeOK, Register \/ ProducerStep
    PROVE  TypeOK'
<1>1. UNCHANGED <<wk, dec, frame, ui>>
    BY ProducerLeaves
<1> USE DEF TypeOK, Submissions, ProducerPlaces, Producer
<1>2. CASE Register
    BY <1>1, <1>2 DEF Register
<1>3. CASE LoadRoute
    BY <1>1, <1>3 DEF LoadRoute
<1>4. CASE LoadIndexes
    <2>1. Room \in BOOLEAN
        BY DEF Room
    <2>2. prod' = [prod EXCEPT !.pc = "flush", !.room = Room]
        BY <1>4 DEF LoadIndexes
    <2>3. prod' \in Submissions
        BY <2>1, <2>2
    <2> QED
        BY <1>1, <1>4, <2>3 DEF LoadIndexes
<1>5. ctl.pause \in Nat /\ ctl.control \in Nat /\ ctl.gap \in BOOLEAN
    BY DEF Controls
<1>6. Outside \in Submissions
    BY DEF Outside
<1>7. ASSUME Refuse PROVE prod' \in Submissions /\ offered' \in Nat /\ queue' = queue
    BY <1>6, <1>7 DEF Refuse
<1>8. CASE Offer
    BY <1>1, <1>5, <1>7, <1>8 DEF Offer
<1>9. CASE Recheck
    BY <1>1, <1>7, <1>9 DEF Recheck
<1>10. CASE Reject
    <2>1. ctl' \in Controls
        BY <1>10 DEF Reject, Controls
    <2> QED
        BY <1>1, <1>7, <1>10, <2>1 DEF Reject
<1>11. CASE Accept
    <2>1. ctl' \in Controls
        BY <1>11 DEF Accept, Controls
    <2>2. PICK cut \in BOOLEAN :
             prod' = [prod EXCEPT !.pc = "copy", !.cut = cut \/ ctl.gap, !.control = ctl.control]
        BY <1>11 DEF Accept
    <2>3. (cut \/ ctl.gap) \in BOOLEAN
        BY <1>5
    <2>4. prod' \in Submissions
        BY <1>5, <2>2, <2>3
    <2> QED
        BY <1>1, <1>11, <2>1, <2>4 DEF Accept
<1>12. CASE Publish
    <2>1. Block(offered, prod.cut, prod.control, prod.pause) \in Blocks
        BY DEF Block, Blocks
    <2>2. queue' \in Queues
        <3> DEFINE block == Block(offered, prod.cut, prod.control, prod.pause)
                   cells == [queue.cells EXCEPT ![queue.write % Slots] = block]
        <3>1. queue' = [queue EXCEPT !.cells = cells, !.write = queue.write + 1]
            BY <1>12 DEF Publish
        <3>2. cells \in [0 .. Slots - 1 -> Blocks]
            BY <2>1, CellInRange DEF Queues
        <3>3. queue.write + 1 \in Nat
            BY DEF Queues
        <3> HIDE DEF cells, block
        <3> QED
            BY <3>1, <3>2, <3>3 DEF Queues
    <2> QED
        BY <1>1, <1>6, <1>12, <2>2 DEF Publish
<1> QED
    BY <1>2, <1>3, <1>4, <1>8, <1>9, <1>10, <1>11, <1>12 DEF ProducerStep

LEMMA ControllersTyped ==
    ASSUME TypeOK, SetPaused \/ PauseLeavesGap \/ Reset
    PROVE  TypeOK'
<1>1. ctl' \in Controls
    <2>1. CASE SetPaused
        <3>1. PICK n \in {ctl.pause + 1, ctl.pause + 3} :
                 ctl' = [ctl EXCEPT !.pause = n, !.setting = TRUE]
            BY <2>1 DEF SetPaused
        <3>2. n \in Nat
            BY <3>1 DEF TypeOK, Controls
        <3> QED
            BY <3>1, <3>2 DEF TypeOK, Controls
    <2>2. CASE PauseLeavesGap
        BY <2>2 DEF TypeOK, PauseLeavesGap, Controls
    <2>3. CASE Reset
        BY <2>3 DEF TypeOK, Reset, Controls
    <2> QED
        BY <2>1, <2>2, <2>3
<1> QED
    BY <1>1, ControllersLeave DEF TypeOK

LEMMA WorkerTyped ==
    ASSUME TypeOK, QueueInv, WorkerStep
    PROVE  TypeOK'
<1> USE DEF Worker, Goto, Quiet, NoDecoding, ResetDecoder
<1>1. prod' = prod /\ ui' = ui /\ offered' = offered
    BY WorkerLeaves
<1>2. wk' \in Workers
    BY ZenonT(30) DEF TypeOK, Workers, WorkerPlaces, Holding, Controls, WorkerStep, Top, LoadPause,
        ReleasePaused, ApplyPause, TakeFlush, Discard, TooOld, TakeBlock, AcquireBudget,
        BeginBlock, Decode, DecodeFails, Look, CopyPicture, FreeSlot
<1>3. ctl' \in Controls
    BY DEF TypeOK, Controls, WorkerStep, Top, LoadPause,
        ReleasePaused, ApplyPause, TakeFlush, Discard, TooOld, TakeBlock, AcquireBudget,
        BeginBlock, Decode, DecodeFails, Look, CopyPicture, FreeSlot
<1>4. queue' \in Queues
    <2>1. queue.read \in Nat /\ queue.write \in Nat /\ queue \in Queues
        BY DEF TypeOK, Queues
    <2>2. \/ queue' = queue
          \/ \E i \in Nat : queue' = [queue EXCEPT !.read = i]
        BY SMTT(30), <2>1, FirstKeptInQueue DEF WorkerStep, Top, LoadPause,
            ReleasePaused, ApplyPause, TakeFlush, Discard, TooOld, TakeBlock, AcquireBudget,
            BeginBlock, Decode, DecodeFails, Look, CopyPicture, FreeSlot
    <2> QED
        BY <2>1, <2>2 DEF Queues
<1>5. dec' \in Seq(Blocks) /\ frame' \in Frames
    <2>1. Slot \in Blocks
        BY CellInRange DEF Slot, TypeOK, Queues
    <2>2. Append(dec, Slot) \in Seq(Blocks)
        BY <2>1 DEF TypeOK
    <2>3. NoPicture \in Frames /\ <<>> \in Seq(Blocks)
        BY DEF NoPicture, Frames
    <2>4. [valid |-> TRUE, control |-> wk.control, blocks |-> dec] \in Frames
        BY DEF TypeOK, Frames, Workers
    <2>5. dec' \in {dec, <<>>, Append(dec, Slot)}
        BY DEF WorkerStep, Top, LoadPause,
            ReleasePaused, ApplyPause, TakeFlush, Discard, TooOld, TakeBlock, AcquireBudget,
            BeginBlock, Decode, DecodeFails, Look, CopyPicture, FreeSlot
    <2>6. frame' \in {frame, NoPicture, [valid |-> TRUE, control |-> wk.control, blocks |-> dec]}
        BY DEF WorkerStep, Top, LoadPause,
            ReleasePaused, ApplyPause, TakeFlush, Discard, TooOld, TakeBlock, AcquireBudget,
            BeginBlock, Decode, DecodeFails, Look, CopyPicture, FreeSlot
    <2> QED
        BY <2>2, <2>3, <2>4, <2>5, <2>6 DEF TypeOK
<1> QED
    BY <1>1, <1>2, <1>3, <1>4, <1>5 DEF TypeOK

LEMMA LifeTyped ==
    ASSUME TypeOK, Detach \/ StopWorker \/ Join
    PROVE  TypeOK'
BY DEF TypeOK, Detach, StopWorker, Join, Life

-----------------------------------------------------------------------------
(* The producer.                                                           *)
LEMMA ProducerQueueInv ==
    ASSUME TypeOK, QueueInv, Register \/ ProducerStep
    PROVE  QueueInv'
<1>1. wk' = wk /\ queue.read \in Nat /\ queue.write \in Nat /\ prod \in Submissions
    BY ProducerLeaves DEF TypeOK, Queues
<1> USE <1>1, PreviewAssumption DEF QueueInv, Room, Producer, Refuse, Outside, Submissions
<1>2. CASE Register \/ LoadRoute
    BY <1>2 DEF Register, LoadRoute
<1>3. CASE Offer
    <2>1. queue' = queue /\ (prod'.pc = "idle" \/ prod'.pc = "recheck")
        <3>1. CASE Paused(ctl.pause)
            BY <1>3, <3>1 DEF Offer
        <3>2. CASE ~Paused(ctl.pause)
            BY <1>3, <3>2 DEF Offer
        <3> QED
            BY <3>1, <3>2
    <2> QED
        BY <2>1
<1>7. CASE Recheck
    <2>1. queue' = queue /\ prod'.pc \in {"idle", "room"}
        BY <1>7 DEF Recheck
    <2> QED
        BY <2>1
<1>8. CASE Reject
    BY <1>8 DEF Reject
<1>4. CASE LoadIndexes
    <2>1. prod'.room = Room /\ queue' = queue /\ prod'.pc = "flush"
        BY <1>4 DEF LoadIndexes
    <2> QED
        BY <2>1
<1>5. CASE Accept
    BY <1>5 DEF Accept
<1>6. CASE Publish
    <2>1. queue'.read = queue.read /\ queue'.write = queue.write + 1 /\ prod'.pc = "idle"
        BY <1>6 DEF Publish, TypeOK, Queues
    <2> QED
        BY <2>1
<1> QED
    BY <1>2, <1>3, <1>4, <1>5, <1>6, <1>7, <1>8 DEF ProducerStep

(* A block is written to a cell the worker does not hold.                  *)
LEMMA HeldBlockStays ==
    ASSUME TypeOK, QueueInv, Register \/ ProducerStep, wk.pc \in Holding
    PROVE  Slot' = Slot
<1>1. queue.read \in Nat /\ queue.write \in Nat /\ queue.read < queue.write
    BY DEF TypeOK, Queues, QueueInv
<1>2. CASE Publish
    <2>1. queue.write - queue.read < Slots
        BY <1>2 DEF Publish, QueueInv, Room
    <2>2. queue.write % Slots # queue.read % Slots
        BY <1>1, <2>1, CellsDiffer, PreviewAssumption
    <2>3. queue'.read = queue.read
        BY <1>2 DEF Publish, TypeOK, Queues
    <2>4. PICK block : queue'.cells = [queue.cells EXCEPT ![queue.write % Slots] = block]
        BY <1>2 DEF Publish, TypeOK, Queues
    <2>5. queue.read % Slots \in 0 .. Slots - 1
        BY <1>1, CellInRange
    <2> QED
        BY <2>2, <2>3, <2>4, <2>5 DEF Slot, TypeOK, Queues
<1>3. CASE ~Publish
    <2>1. queue' = queue
        BY <1>3 DEF Register, ProducerStep, LoadRoute, Offer, Recheck, LoadIndexes,
            Reject, Accept, Refuse
    <2> QED
        BY <2>1 DEF Slot
<1> QED
    BY <1>2, <1>3

LEMMA ProducerStreamInv ==
    ASSUME TypeOK, QueueInv, StreamInv, FrameInv, Register \/ ProducerStep
    PROVE  StreamInv' /\ FrameInv'
<1>1. wk' = wk /\ dec' = dec /\ frame' = frame
    BY ProducerLeaves
<1>2. wk.pc \in Holding => Slot' = Slot /\ (Continues' <=> Continues)
    BY <1>1, HeldBlockStays DEF Continues
<1> QED
    BY <1>1, <1>2 DEF StreamInv, FrameInv, OneStream, Holding

LEMMA ProducerLifeInv ==
    ASSUME TypeOK, LifeInv, Register \/ ProducerStep
    PROVE  LifeInv'
<1>1. ui' = ui /\ wk' = wk /\ prod \in Submissions /\ ctl \in Controls
    BY ProducerLeaves DEF TypeOK
<1>2. CASE Register \/ LoadRoute
    BY <1>1, <1>2 DEF LifeInv, Register, LoadRoute, Producer, Submissions
<1>3. CASE ProducerStep /\ ~LoadRoute
    <2>1. prod.pc \notin {"idle", "route"}
        BY <1>3 DEF ProducerStep, Offer, Recheck, LoadIndexes, Reject, Accept, Publish
    <2> QED
        BY <1>1, <2>1 DEF LifeInv
<1> QED
    BY <1>2, <1>3

-----------------------------------------------------------------------------
(* Pause and reset, and the end of the worker.                             *)
LEMMA ControllersIInv ==
    ASSUME IInv, SetPaused \/ PauseLeavesGap \/ Reset
    PROVE  IInv'
<1>1. UNCHANGED <<prod, queue, wk, dec, frame, ui, offered>>
    BY ControllersLeave
<1>2. TypeOK'
    BY ControllersTyped DEF IInv
<1>3. QueueInv' /\ FrameInv'
    BY <1>1 DEF IInv, QueueInv, Room, FrameInv, OneStream
<1>4. StreamInv'
    <2>1. Slot' = Slot /\ (Continues' <=> Continues)
        BY <1>1 DEF Slot, Continues
    <2> QED
        BY <1>1, <2>1 DEF IInv, StreamInv, OneStream
<1>5. LifeInv'
    BY <1>1 DEF IInv, TypeOK, Controls, LifeInv, SetPaused, PauseLeavesGap, Reset
<1> QED
    BY <1>2, <1>3, <1>4, <1>5 DEF IInv

LEMMA LifeIInv ==
    ASSUME IInv, Detach \/ StopWorker \/ Join
    PROVE  IInv'
<1>1. UNCHANGED <<ctl, prod, queue, wk, dec, frame, offered>>
    BY DEF Detach, StopWorker, Join, Life
<1>2. TypeOK'
    BY LifeTyped DEF IInv
<1>3. QueueInv' /\ FrameInv'
    BY <1>1 DEF IInv, QueueInv, Room, FrameInv, OneStream
<1>4. StreamInv'
    <2>1. Slot' = Slot /\ (Continues' <=> Continues)
        BY <1>1 DEF Slot, Continues
    <2> QED
        BY <1>1, <2>1 DEF IInv, StreamInv, OneStream
<1>5. LifeInv'
    BY <1>1 DEF IInv, LifeInv, Detach, StopWorker, Join, Life, Readers
<1> QED
    BY <1>2, <1>3, <1>4, <1>5 DEF IInv

-----------------------------------------------------------------------------
(* The worker.                                                             *)
LEMMA WorkerQueueInv ==
    ASSUME TypeOK, QueueInv, WorkerStep
    PROVE  QueueInv'
<1>1. prod' = prod /\ queue.read \in Nat /\ queue.write \in Nat
    BY WorkerLeaves DEF TypeOK, Queues
<1>2. wk \in Workers /\ queue.read <= queue.write
    BY DEF TypeOK, QueueInv
<1>3. queue \in Queues
    BY DEF TypeOK
<1> USE <1>1, <1>2 DEF Worker, Goto, Quiet, Workers, Holding
<1>4. CASE ReleasePaused
    <2>1. queue'.read \in queue.read .. queue.write /\ queue'.write = queue.write
        BY <1>3, <1>4, FirstKeptInQueue DEF ReleasePaused, Queues
    <2>2. wk'.pc \in {"apply", "top"}
        BY <1>4 DEF ReleasePaused
    <2> QED
        BY <2>1, <2>2, PreviewAssumption DEF QueueInv, Room
<1>5. CASE Discard
    <2>1. queue'.read = queue.write /\ queue'.write = queue.write /\ wk'.pc = "top"
        BY <1>3, <1>5 DEF Discard, Queues
    <2> QED
        BY <2>1, PreviewAssumption DEF QueueInv, Room
<1>6. CASE FreeSlot
    <2>1. queue'.read = queue.read + 1 /\ queue'.write = queue.write /\ wk'.pc = "top"
        BY <1>3, <1>6 DEF FreeSlot, Queues
    <2>2. queue.read < queue.write
        BY <1>6 DEF FreeSlot, QueueInv
    <2> QED
        BY <2>1, <2>2, PreviewAssumption DEF QueueInv, Room
<1>7. CASE TakeBlock
    <2>1. queue' = queue
        BY <1>7 DEF TakeBlock
    <2>2. wk'.pc \in Holding => queue.read < queue.write
        BY <1>7 DEF TakeBlock
    <2> QED
        BY <2>1, <2>2 DEF QueueInv, Room
<1>8. CASE WorkerStep /\ ~(ReleasePaused \/ Discard \/ FreeSlot \/ TakeBlock)
    <2>1. queue' = queue
        BY <1>8 DEF WorkerStep, Top, LoadPause, ApplyPause, TakeFlush, TooOld,
            AcquireBudget, BeginBlock, Decode, DecodeFails, Look, CopyPicture
    <2>2. wk'.pc \in Holding => wk.pc \in Holding
        BY <1>8 DEF WorkerStep, Top, LoadPause, ApplyPause, TakeFlush, TooOld,
            AcquireBudget, BeginBlock, Decode, DecodeFails, Look, CopyPicture
    <2> QED
        BY <2>1, <2>2 DEF QueueInv, Room
<1> QED
    BY <1>4, <1>5, <1>6, <1>7, <1>8

LEMMA EmptyIsOneStream == OneStream(<<>>) /\ Len(<<>>) = 0
BY DEF OneStream

(* A step that stays out of the decoder and does not change the slot.      *)
LEMMA StreamKept ==
    ASSUME TypeOK, StreamInv, queue' = queue,
           dec' \in {dec, <<>>},
           dec' = <<>> \/ (wk'.control = wk.control /\ wk'.pause = wk.pause),
           wk'.pc \in {"permit", "recheck", "decode"} =>
               Slot.control = wk'.control /\ Slot.pause = wk'.pause,
           wk'.pc = "decode" => dec' = <<>> \/ (dec' = dec /\ Continues),
           wk'.pc \notin {"release", "apply"}
    PROVE  StreamInv'
<1>1. Slot' = Slot
    BY DEF Slot
<1>2. CASE dec' = <<>>
    BY <1>1, <1>2, EmptyIsOneStream DEF StreamInv
<1>3. CASE dec' = dec /\ dec' # <<>>
    <2>1. Continues' <=> Continues
        BY <1>1, <1>3 DEF Continues
    <2> QED
        BY <1>1, <1>3, <2>1 DEF StreamInv, OneStream
<1> QED
    BY <1>2, <1>3

(* Nothing is joined to the decoder's blocks, and no block is taken.       *)
LEMMA StreamAside ==
    ASSUME StreamInv,
           dec' = <<>> \/ (dec' = dec /\ wk'.control = wk.control /\ wk'.pause = wk.pause),
           wk'.pc \notin {"permit", "recheck", "decode", "apply", "release"}
    PROVE  StreamInv'
BY EmptyIsOneStream DEF StreamInv, OneStream

(* Decode: the block that was checked follows the blocks joined so far.    *)
LEMMA DecodeJoins ==
    ASSUME TypeOK, StreamInv, Decode
    PROVE  StreamInv'
<1> DEFINE n == Len(dec)
           d == Append(dec, Slot)
<1>1. Slot \in Blocks /\ dec \in Seq(Blocks) /\ n \in Nat
    <2>1. Slot \in Blocks
        BY CellInRange DEF Slot, TypeOK, Queues
    <2> QED
        BY <2>1 DEF TypeOK
<1>2. /\ Len(d) = n + 1
      /\ d[n + 1] = Slot
      /\ \A i \in 1 .. n : d[i] = dec[i]
    BY <1>1
<1>3. dec' = d /\ wk'.control = wk.control /\ wk'.pause = wk.pause
    BY DEF Decode, Worker, Goto, TypeOK, Workers
<1>4. wk.pc = "decode" /\ wk'.pc \in {"free", "picture"}
    BY DEF Decode, Worker, Goto, TypeOK, Workers
<1>5. /\ Slot.control = wk.control /\ Slot.pause = wk.pause
      /\ dec = <<>> \/ Continues
      /\ \A i \in 1 .. n : dec[i].control = wk.control /\ dec[i].pause = wk.pause
      /\ OneStream(dec)
    BY <1>4 DEF StreamInv
<1> HIDE DEF d
<1>6. \A i \in 1 .. Len(d) : d[i].control = wk.control /\ d[i].pause = wk.pause
    <2>1. \A i \in 1 .. n + 1 : i \in 1 .. n \/ i = n + 1
        BY <1>1
    <2> QED
        BY <1>2, <1>5, <2>1
<1>7. OneStream(d)
    <2> SUFFICES ASSUME NEW i \in 2 .. n + 1
                 PROVE  /\ d[i].position = d[i - 1].position + 1
                        /\ ~d[i].cut
                        /\ d[i].control = d[1].control
                        /\ d[i].pause = d[1].pause
        BY <1>2 DEF OneStream
    <2>1. i \in 1 .. Len(d) /\ 1 \in 1 .. Len(d)
        BY <1>1, <1>2
    <2>2. d[i].control = d[1].control /\ d[i].pause = d[1].pause
        BY <1>6, <2>1
    <2>3. CASE i \in 2 .. n
        <3>1. d[i] = dec[i] /\ d[i - 1] = dec[i - 1]
            BY <1>1, <1>2, <2>3
        <3>2. dec[i].position = dec[i - 1].position + 1 /\ ~dec[i].cut
            BY <1>5, <2>3 DEF OneStream
        <3> QED
            BY <2>2, <3>1, <3>2
    <2>4. CASE i = n + 1
        <3>1. n >= 1 /\ i - 1 = n
            BY <1>1, <2>4
        <3>2. dec # <<>>
            BY <3>1
        <3>3. ~Slot.cut /\ dec[n].position + 1 = Slot.position
            BY <1>5, <3>2 DEF Continues
        <3>4. d[i] = Slot /\ d[i - 1] = dec[n]
            BY <1>1, <1>2, <2>4, <3>1
        <3> QED
            BY <2>2, <3>3, <3>4
    <2> QED
        BY <1>1, <2>3, <2>4
<1> QED
    BY <1>3, <1>4, <1>6, <1>7 DEF StreamInv

LEMMA WorkerStreamInv ==
    ASSUME TypeOK, QueueInv, StreamInv, WorkerStep
    PROVE  StreamInv'
<1>1. wk \in Workers /\ ctl \in Controls
    BY DEF TypeOK
<1> USE <1>1 DEF Worker, Goto, Quiet, NoDecoding, ResetDecoder, Workers
<1>2. CASE Top
    BY <1>2, StreamAside DEF Top
<1>3. CASE LoadPause
    <2>1. /\ wk'.seen = ctl.pause /\ wk'.control = wk.control /\ wk'.pause = wk.pause
          /\ wk'.pc \in {"release", "flush"}
        BY <1>3 DEF LoadPause
    <2>2. CASE ctl.pause # wk.pause
        BY <1>3, <2>1, <2>2, EmptyIsOneStream DEF LoadPause, StreamInv
    <2>3. CASE ctl.pause = wk.pause
        BY <1>3, <2>1, <2>3 DEF LoadPause, StreamInv, OneStream
    <2> QED
        BY <2>2, <2>3
<1>4. CASE ReleasePaused
    <2>1. /\ wk'.seen = wk.seen /\ wk'.control = wk.control /\ wk'.pause = wk.pause
          /\ wk'.pc = IF wk.seen # wk.pause THEN "apply" ELSE "top"
          /\ dec' = dec /\ wk.pc = "release"
        BY <1>4 DEF ReleasePaused
    <2> QED
        BY <2>1 DEF StreamInv, OneStream
<1>5. CASE ApplyPause
    <2>1. dec = <<>>
        BY <1>5 DEF ApplyPause, StreamInv
    <2> QED
        BY <1>5, <2>1, StreamAside DEF ApplyPause
<1>6. CASE TakeFlush
    BY <1>6, StreamAside DEF TakeFlush
<1>7. CASE Discard
    BY <1>7, StreamAside DEF Discard
<1>8. CASE TooOld("next") \/ TooOld("recheck")
    BY <1>8, StreamAside DEF TooOld
<1>9. CASE TakeBlock
    <2>1. wk'.control = wk.control /\ wk'.pause = wk.pause /\ dec' = dec /\ queue' = queue
        BY <1>9 DEF TakeBlock
    <2>2. /\ wk'.pc \in {"top", "permit", "free"}
          /\ wk'.pc = "permit" => Slot.control = wk.control /\ Slot.pause = wk.pause
        BY <1>9 DEF TakeBlock
    <2> QED
        BY <2>1, <2>2, StreamKept
<1>10. CASE AcquireBudget
    <2>1. /\ wk'.control = wk.control /\ wk'.pause = wk.pause /\ dec' = dec
          /\ queue' = queue /\ wk'.pc \in {"top", "recheck"}
        BY <1>10 DEF AcquireBudget
    <2>2. Slot.control = wk.control /\ Slot.pause = wk.pause
        BY <1>10 DEF AcquireBudget, StreamInv
    <2> QED
        BY <2>1, <2>2, StreamKept
<1>11. CASE BeginBlock
    <2>1. /\ wk'.control = wk.control /\ wk'.pause = wk.pause
          /\ queue' = queue /\ wk'.pc \in {"top", "decode"}
        BY <1>11 DEF BeginBlock
    <2>2. Slot.control = wk.control /\ Slot.pause = wk.pause
        BY <1>11 DEF BeginBlock, StreamInv
    <2>3. /\ dec' \in {dec, <<>>}
          /\ wk'.pc = "decode" => dec' = <<>> \/ (dec' = dec /\ Continues)
        BY <1>11 DEF BeginBlock
    <2> QED
        BY <2>1, <2>2, <2>3, StreamKept
<1>12. CASE Decode
    BY <1>12, DecodeJoins
<1>13. CASE DecodeFails
    BY <1>13, StreamAside DEF DecodeFails
<1>14. CASE Look \/ CopyPicture
    BY <1>14, StreamAside DEF Look, CopyPicture
<1>15. CASE FreeSlot
    BY <1>15, StreamAside DEF FreeSlot
<1> QED
    BY <1>2, <1>3, <1>4, <1>5, <1>6, <1>7, <1>8, <1>9, <1>10, <1>11, <1>12, <1>13,
       <1>14, <1>15 DEF WorkerStep

(* A picture is made of the blocks the decoder has joined.                 *)
LEMMA WorkerFrameInv ==
    ASSUME StreamInv, FrameInv, WorkerStep
    PROVE  FrameInv'
<1>1. \/ frame' = frame
      \/ frame' = NoPicture
      \/ frame' = [valid |-> TRUE, control |-> wk.control, blocks |-> dec]
    BY DEF WorkerStep, Top, LoadPause, NoDecoding, ResetDecoder,
        ReleasePaused, ApplyPause, TakeFlush, Discard, TooOld, TakeBlock, AcquireBudget,
        BeginBlock, Decode, DecodeFails, Look, CopyPicture, FreeSlot
<1>2. CASE frame' = frame
    BY <1>2 DEF FrameInv, OneStream
<1>3. CASE frame' = NoPicture
    BY <1>3, EmptyIsOneStream DEF FrameInv, NoPicture
<1>4. CASE frame' = [valid |-> TRUE, control |-> wk.control, blocks |-> dec]
    BY <1>4 DEF StreamInv, FrameInv, OneStream
<1> QED
    BY <1>1, <1>2, <1>3, <1>4

(* The worker does nothing once it is joined.                              *)
LEMMA WorkerLifeInv ==
    ASSUME TypeOK, LifeInv, WorkerStep
    PROVE  LifeInv'
<1>1. UNCHANGED <<prod, ui>> /\ ctl'.setting = ctl.setting
    BY WorkerLeaves DEF TypeOK, Controls, WorkerStep, Top, LoadPause, Quiet,
        ReleasePaused, ApplyPause, TakeFlush, Discard, TooOld, TakeBlock, AcquireBudget,
        BeginBlock, Decode, DecodeFails, Look, CopyPicture, FreeSlot
<1>2. wk.pc # "exited"
    BY DEF WorkerStep, Worker, Top, LoadPause,
        ReleasePaused, ApplyPause, TakeFlush, Discard, TooOld, TakeBlock, AcquireBudget,
        BeginBlock, Decode, DecodeFails, Look, CopyPicture, FreeSlot
<1> QED
    BY <1>1, <1>2 DEF LifeInv

-----------------------------------------------------------------------------
LEMMA StepIInv == IInv /\ [Next]_vars => IInv'
<1> SUFFICES ASSUME IInv, [Next]_vars PROVE IInv'
    OBVIOUS
<1>1. TypeOK /\ QueueInv /\ StreamInv /\ FrameInv /\ LifeInv
    BY DEF IInv
<1>2. CASE WorkerStep
    BY <1>1, <1>2, WorkerTyped, WorkerQueueInv, WorkerStreamInv, WorkerFrameInv,
       WorkerLifeInv DEF IInv
<1>3. CASE Register \/ ProducerStep
    BY <1>1, <1>3, ProducerTyped, ProducerQueueInv, ProducerStreamInv, ProducerLifeInv
    DEF IInv
<1>4. CASE SetPaused \/ PauseLeavesGap \/ Reset
    BY <1>4, ControllersIInv
<1>5. CASE Detach \/ StopWorker \/ Join
    BY <1>5, LifeIInv
<1>6. CASE UNCHANGED vars
    <2>1. Slot' = Slot /\ (Continues' <=> Continues)
        BY <1>6 DEF vars, Slot, Continues
    <2> QED
        BY <1>1, <1>6, <2>1 DEF vars, IInv, TypeOK, QueueInv, Room, StreamInv, FrameInv,
            OneStream, LifeInv
<1> QED
    BY <1>2, <1>3, <1>4, <1>5, <1>6 DEF Next

LEMMA AlwaysIInv == Spec => []IInv
BY InitIInv, StepIInv, PTL DEF Spec

(* Every variable keeps its type: the indexes of the queue are naturals    *)
(* and the decoder and the picture hold blocks that were offered           *)
(* (gui_rf_preview_worker.c).                                              *)
THEOREM PreviewTypeCorrect == Spec => []TypeOK
<1>1. IInv => TypeOK
    BY DEF IInv
<1> QED
    BY <1>1, AlwaysIInv, PTL

(* A picture is decoded from one uninterrupted piece of the stream, under  *)
(* one reset and one pause, out of slots nobody has written to meanwhile   *)
(* (gui_rf_preview_worker.c:859-909 and rf_frame_callback).                *)
THEOREM PicturesAreOneStream == Spec => []PictureIsOneStream
<1>1. IInv => PictureIsOneStream
    BY DEF IInv, StreamInv, FrameInv, PictureIsOneStream
<1> QED
    BY <1>1, AlwaysIInv, PTL

(* The picture handed out after a reset contains nothing submitted before  *)
(* it (gui_rf_preview_worker_take_frame).                                  *)
THEOREM PicturesAreCurrent == Spec => []TakenIsCurrent
<1>1. IInv => TakenIsCurrent
    <2> SUFFICES ASSUME IInv, Takeable, NEW i \in DOMAIN frame.blocks
                 PROVE  frame.blocks[i].control = ctl.control
        BY DEF TakenIsCurrent
    <2>1. frame.blocks \in Seq(Blocks)
        BY DEF IInv, TypeOK, Frames
    <2>2. i \in 1 .. Len(frame.blocks)
        BY <2>1
    <2> QED
        BY <2>2 DEF IInv, FrameInv, Takeable
<1> QED
    BY <1>1, AlwaysIInv, PTL

(* A worker is freed only when no thread is in it and its own thread has   *)
(* ended (the detach and the wait for the route's readers in gui_cvbs.c).  *)
THEOREM WorkersFreedUnused == Spec => []FreedIsUnused
<1>1. IInv => FreedIsUnused
    BY DEF IInv, LifeInv, FreedIsUnused
<1> QED
    BY <1>1, AlwaysIInv, PTL
=============================================================================
