----------------------------- MODULE SpillFile ------------------------------
(***************************************************************************)
(* One spill channel of output/gui_record.c: the temporary file that takes *)
(* record data when the ring is full.  gui_record_spill_enqueue appends,   *)
(* gui_record_spill_read_block takes the oldest bytes, and                 *)
(* gui_record_spill_recycle_if_drained truncates the file and restarts     *)
(* both offsets at 0 when it has been drained.                             *)
(*                                                                         *)
(* io_lock covers the seek and the transfer on the FILE.  It does not      *)
(* cover the offsets: an enqueue loads write_offset before it takes the    *)
(* lock and stores it after it has released it, and a read does the same   *)
(* with read_offset.  Every access to an offset is therefore a step of its *)
(* own; a section that holds io_lock and touches only the FILE is one step.*)
(*                                                                         *)
(* An enqueue and a recycle each load write_offset, act on the value, and  *)
(* store it: two of these intervals may overlap, of two threads that       *)
(* enqueue (the extraction thread and the legacy writer, which also reads) *)
(* or of an enqueue and a recycle.                                         *)
(*                                                                         *)
(* A byte is its position among the bytes accepted.                        *)
(***************************************************************************)
EXTENDS Integers, Sequences

CONSTANTS
    Producers,          \* the threads that call gui_record_spill_enqueue
    Writer,             \* the thread that reads, which may also enqueue
    Chunks,             \* the lengths they enqueue
    MaxBlock,           \* the most one read takes (the cap of the writer)
    MaxOffered          \* bound: bytes offered to the spill file

ASSUME SpillAssumption ==
    /\ Chunks \subseteq Nat \ {0}
    /\ MaxBlock \in Nat \ {0}
    /\ MaxOffered \in Nat

VARIABLES
    opened,        \* spill->opened
    write_offset,
    read_offset,
    io_lock,       \* held across the steps of a recycle
    file,          \* the contents of the temporary file
    epc,           \* where each enqueue is
    write_off,     \* the offset it loaded
    esize,         \* its length
    rpc,           \* where the reader is
    block,         \* what it read
    offered,       \* history: bytes offered
    accepted,      \* history: bytes for which TRUE was returned
    delivered,     \* history: the bytes the reader returned, in order
    raced          \* history: two threads held write_offset at once, or two
                   \* opened the file

fileVars == <<opened, write_offset, read_offset, io_lock, file>>
enqueueVars == <<epc, write_off, esize, offered, accepted>>
readerVars == <<rpc, block, delivered>>
vars == <<fileVars, enqueueVars, readerVars, raced>>

(* What a read finds in a gap a write beyond the end of the file left.     *)
Hole == -1

Init ==
    /\ opened = FALSE
    /\ write_offset = 0
    /\ read_offset = 0
    /\ io_lock = FALSE
    /\ file = <<>>
    /\ epc = [p \in Producers |-> "idle"]
    /\ write_off = [p \in Producers |-> 0]
    /\ esize = [p \in Producers |-> 0]
    /\ rpc = "idle"
    /\ block = <<>>
    /\ offered = 0
    /\ accepted = 0
    /\ delivered = <<>>
    /\ raced = FALSE

Enqueueing(p) == epc[p] \in {"write", "publish"}

(* A thread has loaded write_offset and has yet to store it: an enqueue    *)
(* under way, or a recycle that has found the file drained.                *)
HoldsOffset ==
    \/ \E p \in Producers : Enqueueing(p)
    \/ rpc \in {"locked", "truncated"}

(* The writer enqueues between two reads, never inside one.                *)
Free(p) == epc[p] = "idle" /\ (p = Writer => rpc = "idle")

-----------------------------------------------------------------------------
(* gui_record_spill_enqueue.                                               *)

(* gui_record_spill_open_channel looks whether the file is there ...       *)
OpenChannel(p) ==
    /\ Free(p)
    /\ ~opened
    /\ offered < MaxOffered
    /\ epc' = [epc EXCEPT ![p] = "open"]
    /\ UNCHANGED <<fileVars, write_off, esize, offered, accepted, readerVars,
                   raced>>

(* ... and creates it.  A thread that looked at the same time as another   *)
(* replaces the file the other has created and may have filled.            *)
OpenCreates(p) ==
    /\ epc[p] = "open"
    /\ file' = <<>>
    /\ write_offset' = 0
    /\ read_offset' = 0
    /\ opened' = TRUE
    /\ raced' = (raced \/ opened)
    /\ epc' = [epc EXCEPT ![p] = "idle"]
    /\ UNCHANGED <<io_lock, write_off, esize, offered, accepted, readerVars>>

(* It cannot: the enqueue returns FALSE and nothing has changed.           *)
OpenFails(p) ==
    /\ epc[p] = "open"
    /\ epc' = [epc EXCEPT ![p] = "idle"]
    /\ UNCHANGED <<fileVars, write_off, esize, offered, accepted, readerVars,
                   raced>>

(* The offset to write at is loaded outside the lock, whatever a recycle   *)
(* or another enqueue is doing.                                            *)
EnqueueLoad(p, n) ==
    /\ Free(p)
    /\ opened
    /\ offered + n <= MaxOffered
    /\ offered' = offered + n
    /\ esize' = [esize EXCEPT ![p] = n]
    /\ write_off' = [write_off EXCEPT ![p] = write_offset]
    /\ raced' = (raced \/ HoldsOffset)
    /\ epc' = [epc EXCEPT ![p] = "write"]
    /\ UNCHANGED <<fileVars, accepted, readerVars>>

(* The contents of f after bytes are written at an offset.                 *)
WrittenAt(f, offset, bytes) ==
    [x \in 1 .. offset + Len(bytes) |->
        IF x > offset THEN bytes[x - offset]
        ELSE IF x <= Len(f) THEN f[x] ELSE Hole]
    \o SubSeq(f, offset + Len(bytes) + 1, Len(f))

ChunkOf(p) == [j \in 1 .. esize[p] |-> accepted + j - 1]

(* Under io_lock: seek, fwrite.                                            *)
EnqueueWrite(p) ==
    /\ epc[p] = "write"
    /\ ~io_lock
    /\ file' = WrittenAt(file, write_off[p], ChunkOf(p))
    /\ epc' = [epc EXCEPT ![p] = "publish"]
    /\ UNCHANGED <<opened, write_offset, read_offset, io_lock, write_off,
                   esize, offered, accepted, readerVars, raced>>

(* Seeded fault: the length fwrite returned is not looked at.              *)
EnqueueFails_Fault(p) ==
    /\ epc[p] = "write"
    /\ ~io_lock
    /\ \E k \in 0 .. esize[p] - 1 :
           file' = WrittenAt(file, write_off[p], SubSeq(ChunkOf(p), 1, k))
    /\ epc' = [epc EXCEPT ![p] = "publish"]
    /\ UNCHANGED <<opened, write_offset, read_offset, io_lock, write_off,
                   esize, offered, accepted, readerVars, raced>>

(* The disk is full: a prefix was written, the enqueue returns FALSE and   *)
(* write_offset stays where it was.                                        *)
EnqueueFails(p) ==
    /\ epc[p] = "write"
    /\ ~io_lock
    /\ \E k \in 0 .. esize[p] - 1 :
           file' = WrittenAt(file, write_off[p], SubSeq(ChunkOf(p), 1, k))
    /\ epc' = [epc EXCEPT ![p] = "idle"]
    /\ UNCHANGED <<opened, write_offset, read_offset, io_lock, write_off,
                   esize, offered, accepted, readerVars, raced>>

(* After the lock is released: write_offset is stored, TRUE is returned.   *)
EnqueuePublish(p) ==
    /\ epc[p] = "publish"
    /\ write_offset' = write_off[p] + esize[p]
    /\ accepted' = accepted + esize[p]
    /\ epc' = [epc EXCEPT ![p] = "idle"]
    /\ UNCHANGED <<opened, read_offset, io_lock, file, write_off, esize,
                   offered, readerVars, raced>>

EnqueueGoesOn(p) ==
    \/ OpenCreates(p)
    \/ OpenFails(p)
    \/ EnqueueWrite(p)
    \/ EnqueueFails(p)
    \/ EnqueuePublish(p)

EnqueueStep(p) ==
    \/ OpenChannel(p)
    \/ \E n \in Chunks : EnqueueLoad(p, n)
    \/ EnqueueGoesOn(p)

-----------------------------------------------------------------------------
(* gui_record_spill_read_block and gui_record_spill_recycle_if_drained.    *)

(* gui_record_spill_backlog_bytes.                                         *)
Backlog == IF write_offset >= read_offset THEN write_offset - read_offset ELSE 0

(* Seeded fault: fixed-length reads only.                                  *)
Wanted_Fault == MaxBlock

Wanted == IF Backlog < MaxBlock THEN Backlog ELSE MaxBlock

(* The writer asks for what the backlog says is there; the seek and the    *)
(* fread are under io_lock.  When the file is shorter than the offsets     *)
(* say, fread comes short and the call returns FALSE: no state changes.    *)
ReadBlock ==
    /\ rpc = "idle"
    /\ \A p \in Producers : p = Writer => epc[p] = "idle"
    /\ opened
    /\ ~io_lock
    /\ Backlog > 0
    /\ read_offset + Wanted <= Len(file)
    /\ block' = SubSeq(file, read_offset + 1, read_offset + Wanted)
    /\ rpc' = "store"
    /\ UNCHANGED <<fileVars, enqueueVars, delivered, raced>>

(* read_offset is stored after the lock is released.                       *)
ReadStore ==
    /\ rpc = "store"
    /\ read_offset' = read_offset + Len(block)
    /\ delivered' = delivered \o block
    /\ block' = <<>>
    /\ rpc' = "check"
    /\ UNCHANGED <<opened, write_offset, io_lock, file, enqueueVars, raced>>

(* recycle_if_drained first compares the offsets without the lock.         *)
RecycleCheck ==
    /\ rpc = "check"
    /\ rpc' = IF write_offset = read_offset THEN "recycle" ELSE "idle"
    /\ UNCHANGED <<fileVars, enqueueVars, block, delivered, raced>>

(* Then it takes the lock and compares them again.  An enqueue that holds  *)
(* an offset has not moved write_offset yet and does not stop it.          *)
RecycleLock ==
    /\ rpc = "recycle"
    /\ ~io_lock
    /\ IF write_offset = read_offset
       THEN /\ io_lock' = TRUE
            /\ raced' = (raced \/ HoldsOffset)
            /\ rpc' = "locked"
       ELSE /\ rpc' = "idle"
            /\ UNCHANGED <<io_lock, raced>>
    /\ UNCHANGED <<opened, write_offset, read_offset, file, enqueueVars,
                   block, delivered>>

(* ftruncate; a failure is ignored and the file keeps its old bytes.       *)
RecycleTruncate ==
    /\ rpc = "locked"
    /\ file' \in {<<>>, file}
    /\ rpc' = "truncated"
    /\ UNCHANGED <<opened, write_offset, read_offset, io_lock, enqueueVars,
                   block, delivered, raced>>

RecycleResetsWrite ==
    /\ rpc = "truncated"
    /\ write_offset' = 0
    /\ rpc' = "write_reset"
    /\ UNCHANGED <<opened, read_offset, io_lock, file, enqueueVars, block,
                   delivered, raced>>

(* Seeded fault: read_offset keeps its value.                              *)
RecycleResetsRead_Fault ==
    /\ rpc = "write_reset"
    /\ io_lock' = FALSE
    /\ rpc' = "idle"
    /\ UNCHANGED <<opened, write_offset, read_offset, file, enqueueVars, block,
                   delivered, raced>>

(* The last reset, and the lock is released.                               *)
RecycleResetsRead ==
    /\ rpc = "write_reset"
    /\ read_offset' = 0
    /\ io_lock' = FALSE
    /\ rpc' = "idle"
    /\ UNCHANGED <<opened, write_offset, file, enqueueVars, block, delivered,
                   raced>>

ReaderStep ==
    \/ ReadBlock \/ ReadStore \/ RecycleCheck \/ RecycleLock
    \/ RecycleTruncate \/ RecycleResetsWrite \/ RecycleResetsRead

Next == (\E p \in Producers : EnqueueStep(p)) \/ ReaderStep

(* The writer thread keeps reading while there is a backlog, and an        *)
(* enqueue that holds an offset goes on: neither waits for anything but    *)
(* io_lock, a spin lock whose holder never blocks.  A new enqueue is up to *)
(* the producer.                                                           *)
Fairness ==
    /\ WF_vars(ReaderStep)
    /\ \A p \in Producers : WF_vars(EnqueueGoesOn(p))

Spec == Init /\ [][Next]_vars

FairSpec == Spec /\ Fairness

-----------------------------------------------------------------------------
(* Properties.                                                             *)

(* The bytes between the offsets: what the next reads will return.         *)
Unread ==
    [j \in 1 .. Backlog |->
        LET x == read_offset + j IN IF x <= Len(file) THEN file[x] ELSE Hole]

(* Types and ranges: no offset passes what was offered, whoever races.     *)
TypeOK ==
    /\ opened \in BOOLEAN
    /\ write_offset \in 0 .. MaxOffered
    /\ read_offset \in 0 .. MaxOffered
    /\ io_lock \in BOOLEAN
    /\ file \in Seq(Nat \cup {Hole})
    /\ epc \in [Producers -> {"idle", "open", "write", "publish"}]
    /\ write_off \in [Producers -> 0 .. MaxOffered]
    /\ esize \in [Producers -> {0} \cup Chunks]
    /\ rpc \in {"idle", "store", "check", "recycle", "locked", "truncated",
                "write_reset"}
    /\ block \in Seq(Nat \cup {Hole})
    /\ offered \in 0 .. MaxOffered
    /\ accepted \in Nat
    /\ delivered \in Seq(Nat \cup {Hole})
    /\ raced \in BOOLEAN

(* What was read followed by what is still to be read is what was          *)
(* accepted: every byte once, in order, and no gap.                        *)
Intact ==
    LET back == delivered \o Unread
    IN  /\ Len(back) = accepted
        /\ \A i \in DOMAIN back : back[i] = i - 1

(* The bytes for which gui_record_spill_enqueue returned TRUE come back    *)
(* once each, in order, and nothing else does, whatever writes fail and    *)
(* however often the file is truncated.  Only two threads that hold        *)
(* write_offset at once can break this: an enqueue beside a recycle or     *)
(* another enqueue.                                                        *)
AcceptedComesBack == raced \/ Intact

(* The reader never runs past the writer, recycle or not: the subtraction  *)
(* write_offset - read_offset that every backlog figure rests on is        *)
(* meaningful whenever the reader is not inside the two resets, unless     *)
(* write_offset has been raced for.                                        *)
ReadFollowsWrite ==
    raced \/ (rpc # "write_reset" => read_offset <= write_offset)

(* What is in the spill file is read back once the producers pause (the    *)
(* bound makes them): no backlog stays for ever, which would keep every    *)
(* later push of the direct path in the spill file, as an offset stored    *)
(* past the end of a file truncated meanwhile does.                        *)
BacklogDrains == Backlog > 0 ~> (Backlog = 0 \/ raced)
=============================================================================
