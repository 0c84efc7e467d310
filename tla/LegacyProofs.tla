----------------------------- MODULE LegacyProofs -----------------------------
(***************************************************************************)
(* Proofs about LegacyRecord: for any ring size, number of blocks and      *)
(* number of recordings, a file holds blocks of its own recording, the     *)
(* FLAC writer never has a block in two places until the threads disturb   *)
(* an enqueue, and a recording in which nothing failed and no mishap       *)
(* happened is complete and in order.                                      *)
(***************************************************************************)
EXTENDS LegacyRecord, FiniteSetTheorems, SequenceTheorems, TLAPS

Blocks == Nat \X Nat

Phases == {"idle", "starting", "recording", "stopping", "finalizing", "finalized"}

CtlType ==
    [phase : Phases, session : Nat, format : {"flac", "raw"}, local : BOOLEAN,
     recording : BOOLEAN, enabled : BOOLEAN, stopRequested : BOOLEAN, app : BOOLEAN]
ExtType == [pc : {"idle", "have", "granted", "spill"}, block : Blocks, taken : Nat, at : Nat]
RingType == [cells : [0 .. RingSize - 1 -> Blocks], w : Nat, r : Nat]
SpillType == [opened : BOOLEAN, data : Seq(Blocks), w : Nat, r : Nat]
WriterType ==
    [pc : {"top", "ring", "spill", "recycle", "write", "respill", "preserve", "rescue", "exited"},
     last : BOOLEAN, error : BOOLEAN, cell : -1 .. RingSize - 1, copy : Blocks, at : Nat]
HistType ==
    [inTime : SUBSET Blocks, failed : SUBSET Blocks, late : SUBSET Blocks,
     spilled : BOOLEAN, refused : BOOLEAN, mishaps : SUBSET {"raced", "unread", "unpublished"}]

Types ==
    /\ ctl \in CtlType /\ ext \in ExtType /\ ring \in RingType /\ spill \in SpillType
    /\ file \in Seq(Blocks) /\ wr \in WriterType /\ hist \in HistType

(* The positions of the ring's blocks, and the block at a position.        *)
Queued == ring.r .. ring.w - 1
Cell(i) == ring.cells[i % RingSize]

(* All blocks there are.                                                   *)
Placed == Waiting \cup InSpill \cup InFile \cup InHand
OnDisk == Range(spill.data)

(* A block of the recording, one handed over late from the one before, or  *)
(* zeros once an enqueue was disturbed.                                    *)
Own(block) ==
    block[1] = ctl.session \/ block \in hist.late \/ (block = NoBlock /\ Raced)

Distinct(seq) == \A i, j \in DOMAIN seq : i # j => seq[i] # seq[j]

Healthy == hist.failed = {} /\ ~hist.refused /\ hist.mishaps = {}

(* The flags follow the phases of the user interface.                      *)
PhaseInv ==
    /\ ctl.enabled => ctl.phase = "recording"
    /\ ctl.recording <=> ctl.phase \in {"starting", "recording", "stopping"}
    /\ ctl.phase \in {"idle", "finalized"} => wr.pc = "exited"
    /\ ext.pc # "idle" => ext.block[2] = ext.taken
    /\ ext.pc = "granted" => ~Full

(* The granted cell is the next one, or a reset has come in between and    *)
(* the thread will publish what the first cell holds.                      *)
GrantInv ==
    /\ \A c \in 0 .. RingSize - 1 : ring.cells[c][2] <= ext.taken
    /\ ext.pc = "granted" =>
          /\ ext.at \in 0 .. RingSize - 1
          /\ \/ ext.at = ring.w % RingSize
             \/ Raced /\ ring.w = 0 /\ ring.cells[0] \in hist.late

(* The writer's place, its block and what its flags say.                   *)
WriterInv ==
    /\ ring.r <= ring.w /\ ring.w - ring.r <= RingSize
    /\ wr.pc \notin {"write", "respill", "preserve", "rescue"} => wr.cell = -1
    /\ wr.pc \in {"write", "respill"} /\ FromRing =>
          wr.cell = ring.r % RingSize /\ ring.r < ring.w
    /\ wr.pc = "respill" => FromRing /\ wr.error
    /\ wr.pc \in {"preserve", "rescue"} => FromRing /\ ctl.format = "raw" /\ wr.error
    /\ wr.pc \in {"ring", "spill"} /\ wr.last => ~ctl.recording
    /\ wr.error => ~Healthy
    /\ Healthy /\ wr.pc = "exited" => ~ctl.recording

(* Until an enqueue is disturbed the write offset is the end of the file,  *)
(* which is where the one thread inside an enqueue will write.             *)
SpillInv ==
    /\ ~spill.opened => spill = EmptySpill(FALSE)
    /\ ~Raced =>
          /\ spill.r <= spill.w /\ spill.w = Len(spill.data)
          /\ ExtractionInside /\ spill.opened => ext.at = spill.w
          /\ WriterInside /\ spill.opened => wr.at = spill.w
          /\ ~(ExtractionInside /\ WriterInside)
          /\ ExtractionInside /\ ctl.recording => spill.opened

(* Every block is of this recording and was taken; the one the extraction  *)
(* thread holds is the last it took.                                       *)
OwnInv ==
    /\ \A block \in Placed \cup OnDisk \cup Extracted : Own(block) /\ block[2] <= ext.taken
    /\ ext.pc # "idle" /\ ctl.format = "flac" /\ ~Raced => ext.block \notin Placed

(* The FLAC writer's places are apart, and each holds a block once.        *)
ApartInv ==
    ctl.format = "flac" /\ ~Raced =>
        /\ \A i, j \in Queued : i # j => Cell(i) # Cell(j)
        /\ \A i, j \in Unread : i # j => spill.data[i] # spill.data[j]
        /\ Distinct(file)
        /\ Waiting \cap InSpill = {} /\ Waiting \cap InFile = {} /\ Waiting \cap InHand = {}
        /\ InSpill \cap InFile = {} /\ InSpill \cap InHand = {} /\ InFile \cap InHand = {}

(* Blocks handed over in time wait behind the writer or are written; its   *)
(* last look finds them all.                                               *)
CompleteInv ==
    Healthy =>
        /\ ctl.phase \notin {"idle", "finalized"} => hist.inTime \subseteq Placed
        /\ wr.pc = "spill" /\ wr.last => hist.inTime \subseteq InSpill \cup InFile
        /\ wr.pc = "exited" => hist.inTime \subseteq InFile

(* Without the spill file blocks keep the order in which they were taken.  *)
Ordered ==
    /\ \A i, j \in DOMAIN file : i < j => file[i][2] < file[j][2]
    /\ \A i \in DOMAIN file, k \in Queued : file[i][2] < Cell(k)[2]
    /\ \A k, l \in Queued : k < l => Cell(k)[2] < Cell(l)[2]
    /\ ext.pc # "idle" =>
          /\ \A i \in DOMAIN file : file[i][2] < ext.taken
          /\ \A k \in Queued : Cell(k)[2] < ext.taken

OrderInv ==
    ~hist.spilled =>
        /\ spill.w = 0 /\ spill.r = 0
        /\ wr.pc # "recycle" /\ (wr.pc = "write" => FromRing)
        /\ ~Raced => Ordered

LegacyInv ==
    /\ Types /\ PhaseInv /\ GrantInv /\ WriterInv /\ SpillInv
    /\ OwnInv /\ ApartInv /\ CompleteInv /\ OrderInv

-----------------------------------------------------------------------------
(* Sequences of blocks.                                                    *)

LEMMA Grown ==
    ASSUME NEW seq \in Seq(Blocks), NEW block \in Blocks
    PROVE  /\ Append(seq, block) \in Seq(Blocks)
           /\ Range(Append(seq, block)) = Range(seq) \cup {block}
           /\ Distinct(seq) /\ block \notin Range(seq) => Distinct(Append(seq, block))
<1> DEFINE n == Len(seq)
           new == Append(seq, block)
<1>1. n \in Nat /\ DOMAIN seq = 1 .. n
    OBVIOUS
<1>2. /\ new \in Seq(Blocks) /\ DOMAIN new = 1 .. n + 1
      /\ \A i \in 1 .. n : new[i] = seq[i]
      /\ new[n + 1] = block
    OBVIOUS
<1> HIDE DEF n, new
<1>3. 1 .. n + 1 = (1 .. n) \cup {n + 1}
    BY <1>1
<1>4. Range(new) = Range(seq) \cup {block}
    <2>1. ASSUME NEW x \in Range(new) PROVE x \in Range(seq) \cup {block}
        <3>1. PICK i \in 1 .. n + 1 : x = new[i]
            BY <1>2 DEF Range
        <3> QED
            BY <1>1, <1>2, <1>3, <3>1 DEF Range
    <2>2. ASSUME NEW x \in Range(seq) \cup {block} PROVE x \in Range(new)
        <3>1. CASE x = block
            BY <1>2, <1>3, <3>1 DEF Range
        <3>2. CASE x \in Range(seq)
            <4>1. PICK i \in 1 .. n : x = seq[i]
                BY <1>1, <3>2 DEF Range
            <4> QED
                BY <1>2, <1>3, <4>1 DEF Range
        <3> QED
            BY <3>1, <3>2
    <2> QED
        BY <2>1, <2>2
<1>5. ASSUME Distinct(seq), block \notin Range(seq), NEW i \in 1 .. n + 1, NEW j \in 1 .. n + 1,
             i # j
      PROVE  new[i] # new[j]
    <2>1. \A k \in 1 .. n : seq[k] # block
        BY <1>1, <1>5 DEF Range
    <2>2. CASE i \in 1 .. n /\ j \in 1 .. n
        BY <1>1, <1>2, <1>5, <2>2 DEF Distinct
    <2>3. CASE i = n + 1 /\ j \in 1 .. n
        BY <1>2, <2>1, <2>3
    <2>4. CASE i \in 1 .. n /\ j = n + 1
        BY <1>2, <2>1, <2>4
    <2> QED
        BY <1>3, <1>5, <2>2, <2>3, <2>4
<1>6. Distinct(seq) /\ block \notin Range(seq) => Distinct(new)
    BY <1>2, <1>5 DEF Distinct
<1> QED
    BY <1>2, <1>4, <1>6 DEF new

(* A sequence without repetitions is as long as its set of elements.       *)
LEMMA DistinctCount ==
    ASSUME NEW seq \in Seq(Blocks), Distinct(seq)
    PROVE  IsFiniteSet(Range(seq)) /\ Cardinality(Range(seq)) = Len(seq)
<1>1. Len(seq) \in Nat /\ DOMAIN seq = 1 .. Len(seq)
    OBVIOUS
<1>2. seq \in Bijection(1 .. Len(seq), Range(seq))
    <2>1. seq \in [1 .. Len(seq) -> Range(seq)]
        BY <1>1 DEF Range
    <2>2. \A i, j \in 1 .. Len(seq) : seq[i] = seq[j] => i = j
        BY <1>1 DEF Distinct
    <2>3. \A x \in Range(seq) : \E i \in 1 .. Len(seq) : seq[i] = x
        BY <1>1 DEF Range
    <2> QED
        BY <2>1, <2>2, <2>3 DEF Bijection, Injection, Surjection, IsInjective
<1>3. IsFiniteSet(1 .. Len(seq)) /\ Cardinality(1 .. Len(seq)) = Len(seq)
    BY SMTT(30), <1>1, FS_Interval
<1>4. ExistsBijection(1 .. Len(seq), Range(seq))
    BY <1>2 DEF ExistsBijection
<1> QED
    BY <1>3, <1>4, FS_Bijection

-----------------------------------------------------------------------------
(* The record ring.                                                        *)
-----------------------------------------------------------------------------
(* The spill file.                                                         *)

LEMMA Zeros == NoBlock \in Blocks /\ NoBlock[2] = 0
BY DEF NoBlock, Blocks

LEMMA Emptied ==
    ASSUME NEW opened \in BOOLEAN, spill' = EmptySpill(opened)
    PROVE  /\ spill' \in SpillType /\ spill'.opened = opened
           /\ spill'.w = 0 /\ spill'.r = 0 /\ Len(spill'.data) = 0
           /\ Unread' = {} /\ InSpill' = {} /\ OnDisk' = {}
<1>1. spill' = [opened |-> opened, data |-> <<>>, w |-> 0, r |-> 0]
    BY DEF EmptySpill
<1>2. <<>> \in Seq(Blocks) /\ DOMAIN (<<>>) = {}
    OBVIOUS
<1>3. Unread' = {}
    BY <1>1 DEF Unread
<1> QED
    BY <1>1, <1>2, <1>3 DEF SpillType, InSpill, OnDisk, Range

(* What is unread lies in the file.                                        *)
LEMMA UnreadOnDisk == InSpill \subseteq OnDisk
BY DEF InSpill, OnDisk, Range

(* Opening the channel adds nothing.                                       *)
LEMMA Opened ==
    ASSUME spill \in SpillType, SpillInv, OpenSpill
    PROVE  /\ spill' \in SpillType /\ spill'.opened
           /\ spill'.w = spill.w /\ spill'.r = spill.r /\ spill'.data = spill.data
           /\ Unread' = Unread /\ InSpill' = InSpill /\ OnDisk' = OnDisk
<1>1. spill'.w = spill.w /\ spill'.r = spill.r /\ spill'.data = spill.data /\ spill'.opened
      /\ spill' \in SpillType
    <2>1. CASE spill.opened
        BY <2>1 DEF OpenSpill
    <2>2. CASE ~spill.opened
        <3>1. spill' = EmptySpill(TRUE) /\ spill = EmptySpill(FALSE)
            BY <2>2 DEF OpenSpill, SpillInv
        <3>2. spill' \in SpillType
            BY <3>1, Emptied
        <3> QED
            BY <3>1, <3>2 DEF EmptySpill
    <2> QED
        BY <2>1, <2>2
<1> QED
    BY <1>1 DEF Unread, InSpill, OnDisk

(* A write at any offset leaves what was there, the block and zeros.       *)
LEMMA WrittenType ==
    ASSUME spill.data \in Seq(Blocks), NEW block \in Blocks, NEW at \in Nat
    PROVE  /\ Written(block, at) \in Seq(Blocks)
           /\ Range(Written(block, at)) \subseteq OnDisk \cup {block, NoBlock}
<1> DEFINE n == Len(spill.data)
           m == IF n > at THEN n ELSE at + 1
           data == spill.data
           new == [i \in 1 .. m |-> IF i = at + 1 THEN block ELSE IF i <= n THEN data[i] ELSE NoBlock]
<1>1. Written(block, at) = new
    BY DEF Written
<1>2. n \in Nat /\ DOMAIN data = 1 .. n /\ data \in Seq(Blocks)
    OBVIOUS
<1> HIDE DEF n, data
<1>3. m \in Nat
    BY <1>2
<1> HIDE DEF m
<1>4. ASSUME NEW i \in 1 .. m
      PROVE  new[i] \in Blocks /\ new[i] \in Range(data) \cup {block, NoBlock}
    <2>1. CASE i = at + 1
        BY <1>4, <2>1
    <2>2. CASE i # at + 1 /\ i <= n
        <3>1. i \in 1 .. n
            BY <1>2, <1>3, <1>4, <2>2
        <3>2. data[i] \in Blocks /\ data[i] \in Range(data)
            BY <1>2, <3>1 DEF Range
        <3> QED
            BY <1>4, <2>2, <3>2
    <2>3. CASE i # at + 1 /\ ~(i <= n)
        BY <1>4, <2>3, Zeros
    <2> QED
        BY <2>1, <2>2, <2>3
<1>5. new \in [1 .. m -> Blocks] /\ DOMAIN new = 1 .. m
    BY <1>4
<1> HIDE DEF new
<1>6. new \in Seq(Blocks)
    BY <1>3, <1>5, IsASeq
<1>7. Range(new) \subseteq Range(data) \cup {block, NoBlock}
    BY <1>4, <1>5 DEF Range
<1> QED
    BY <1>1, <1>6, <1>7 DEF OnDisk, data

(* The end of an enqueue, whatever happened inside it.                     *)
LEMMA SpilledType ==
    ASSUME spill \in SpillType, NEW block \in Blocks, NEW at \in Nat, Spilled(block, at)
    PROVE  /\ spill' \in SpillType /\ spill'.opened = spill.opened
           /\ OnDisk' \subseteq OnDisk \cup {block, NoBlock}
           /\ ~spill.opened => spill' = spill
<1>1. /\ spill.data \in Seq(Blocks) /\ at + 1 \in Nat
      /\ spill = [opened |-> spill.opened, data |-> spill.data, w |-> spill.w, r |-> spill.r]
    BY DEF SpillType
<1>2. CASE ~spill.opened
    BY <1>2 DEF Spilled, OnDisk
<1>3. CASE spill' = [spill EXCEPT !.data = Written(block, at), !.w = at + 1]
    <2> DEFINE new == Written(block, at)
               n == at + 1
    <2>1. new \in Seq(Blocks) /\ Range(new) \subseteq OnDisk \cup {block, NoBlock} /\ n \in Nat
        BY <1>1, WrittenType
    <2>2. spill' = [spill EXCEPT !.data = new, !.w = n]
        BY <1>3
    <2> HIDE DEF new, n
    <2>3. spill' \in SpillType /\ spill'.data = new /\ spill'.opened = spill.opened
        BY <2>1, <2>2 DEF SpillType
    <2> QED
        BY <1>3, <2>1, <2>3 DEF OnDisk, Spilled
<1>4. CASE spill' = [spill EXCEPT !.w = at + 1]
    <2>1. spill' \in SpillType /\ spill'.data = spill.data /\ spill'.opened = spill.opened
        BY <1>1, <1>4 DEF SpillType
    <2> QED
        BY <2>1, <1>4 DEF OnDisk, Spilled
<1> QED
    BY <1>2, <1>3, <1>4 DEF Spilled

(* An enqueue nobody disturbed puts the block behind the others.           *)
LEMMA SpilledBehind ==
    ASSUME spill \in SpillType, spill.opened, spill.r <= spill.w, spill.w = Len(spill.data),
           NEW block \in Blocks, Spilled(block, spill.w)
    PROVE  /\ spill'.r = spill.r /\ spill'.w = spill.w + 1 /\ Len(spill'.data) = spill'.w
           /\ InSpill' = InSpill \cup {block} /\ OnDisk' \subseteq OnDisk \cup {block}
           /\ (\A i, j \in Unread : i # j => spill.data[i] # spill.data[j])
              /\ block \notin InSpill =>
                 \A i, j \in Unread' : i # j => spill'.data[i] # spill'.data[j]
<1> DEFINE n == Len(spill.data)
           data == spill.data
           new == [i \in 1 .. n + 1 |-> IF i = n + 1 THEN block ELSE data[i]]
           r == spill.r
<1>1. n \in Nat /\ DOMAIN data = 1 .. n /\ r \in Nat /\ r <= n /\ spill.w = n
      /\ data \in Seq(Blocks)
    BY DEF SpillType
<1>2. Written(block, n) = new
    <2>1. (IF n > n THEN n ELSE n + 1) = n + 1
        BY <1>1
    <2>2. ASSUME NEW i \in 1 .. n + 1
          PROVE (IF i = n + 1 THEN block ELSE IF i <= n THEN data[i] ELSE NoBlock)
                   = (IF i = n + 1 THEN block ELSE data[i])
        BY <1>1, <2>2
    <2> QED
        BY <2>1, <2>2 DEF Written
<1>3. spill' = [spill EXCEPT !.data = new, !.w = n + 1]
    BY <1>1, <1>2 DEF Spilled
<1>4. spill'.r = r /\ spill'.w = n + 1 /\ spill'.data = new
    BY <1>3 DEF SpillType
<1>5. /\ DOMAIN new = 1 .. n + 1 /\ new[n + 1] = block
      /\ \A i \in 1 .. n : new[i] = data[i]
    BY <1>1
<1>6. Len(new) = n + 1
    <2>1. new \in [1 .. n + 1 -> Blocks] /\ n + 1 \in Nat
        BY <1>1
    <2> HIDE DEF new, n
    <2>2. new \in Seq(Blocks)
        BY <2>1, IsASeq
    <2> QED
        BY <1>1, <1>5, <2>1, <2>2
<1> HIDE DEF new, n, data, r
<1>7. Unread' = r + 1 .. n + 1 /\ Unread = r + 1 .. n
    BY <1>1, <1>4 DEF Unread, r
<1>8. /\ Unread' \cap DOMAIN new = (Unread \cap DOMAIN data) \cup {n + 1}
      /\ Unread \cap DOMAIN data = Unread /\ Unread \subseteq 1 .. n
      /\ Unread' = Unread \cup {n + 1}
    BY <1>1, <1>5, <1>7
<1>9. InSpill = {data[i] : i \in Unread}
    BY <1>8 DEF InSpill, data
<1>10. InSpill' = InSpill \cup {block}
    <2>1. InSpill' = {new[i] : i \in Unread \cup {n + 1}}
        BY <1>4, <1>8 DEF InSpill
    <2>2. \A i \in Unread : new[i] = data[i]
        BY <1>5, <1>8
    <2> QED
        BY <1>5, <1>9, <2>1, <2>2
<1>11. OnDisk' \subseteq OnDisk \cup {block}
    <2>1. OnDisk' = {new[i] : i \in 1 .. n + 1} /\ OnDisk = {data[i] : i \in 1 .. n}
        BY <1>1, <1>4, <1>5 DEF OnDisk, Range, data
    <2>2. 1 .. n + 1 = (1 .. n) \cup {n + 1}
        BY <1>1
    <2> QED
        BY <1>5, <2>1, <2>2
<1>12. ASSUME \A i, j \in Unread : i # j => data[i] # data[j], block \notin InSpill,
              NEW i \in Unread', NEW j \in Unread', i # j
       PROVE  new[i] # new[j]
    <2>1. \A k \in Unread : data[k] # block /\ new[k] = data[k]
        BY <1>5, <1>8, <1>9, <1>12
    <2> QED
        BY <1>5, <1>8, <1>12, <2>1
<1> QED
    BY <1>1, <1>4, <1>6, <1>10, <1>11, <1>12 DEF n, data, r

(* gui_record_spill_read_block takes the first block that is unread.       *)
LEMMA Taken ==
    ASSUME spill \in SpillType, Unread # {}, spill.r < Len(spill.data),
           spill' = [spill EXCEPT !.r = @ + 1], NEW head, head = spill.data[spill.r + 1]
    PROVE  /\ spill' \in SpillType /\ spill'.opened = spill.opened /\ spill'.w = spill.w
           /\ spill'.r = spill.r + 1 /\ spill'.data = spill.data
           /\ spill'.r <= spill.w
           /\ head \in Blocks /\ InSpill = InSpill' \cup {head} /\ OnDisk' = OnDisk
           /\ Unread' \subseteq Unread
           /\ (\A i, j \in Unread : i # j => spill.data[i] # spill.data[j]) =>
                 head \notin InSpill'
<1> DEFINE n == spill.r + 1
           data == spill.data
           w == spill.w
<1>1. spill.r \in Nat /\ n \in Nat /\ w \in Nat /\ data \in Seq(Blocks)
      /\ DOMAIN data = 1 .. Len(data) /\ Len(data) \in Nat
    BY DEF SpillType
<1>2. spill' \in SpillType /\ spill'.opened = spill.opened /\ spill'.w = w /\ spill'.r = n
      /\ spill'.data = data
    <2>1. spill' = [spill EXCEPT !.r = n]
        OBVIOUS
    <2> HIDE DEF n
    <2> QED
        BY <1>1, <2>1 DEF SpillType
<1>3. n <= w /\ n \in DOMAIN data
    BY <1>1 DEF Unread
<1>4. Unread = n .. w /\ Unread' = n + 1 .. w
    BY <1>2 DEF Unread
<1> HIDE DEF n, data, w
<1>5. Unread = Unread' \cup {n} /\ n \notin Unread'
    BY <1>1, <1>3, <1>4
<1>6. /\ InSpill = {data[i] : i \in Unread \cap DOMAIN data}
      /\ InSpill' = {data[i] : i \in Unread' \cap DOMAIN data}
    BY <1>2 DEF InSpill, data
<1>7. InSpill = InSpill' \cup {head}
    BY <1>3, <1>5, <1>6 DEF n, data
<1>8. ASSUME \A i, j \in Unread : i # j => data[i] # data[j] PROVE head \notin InSpill'
    <2>1. \A i \in Unread' : data[i] # data[n]
        BY <1>5, <1>8
    <2> QED
        BY <1>6, <2>1 DEF n, data
<1>9. head \in Blocks
    BY <1>1, <1>3 DEF n, data
<1> QED
    BY <1>2, <1>3, <1>5, <1>7, <1>8, <1>9 DEF OnDisk, n, data, w


-----------------------------------------------------------------------------
(* The record ring.                                                        *)

LEMMA ModDiffers ==
    ASSUME NEW i \in Nat, NEW j \in Nat, i < j, j - i < RingSize
    PROVE  i % RingSize # j % RingSize
<1> DEFINE p == i \div RingSize
           q == j \div RingSize
           n == RingSize
<1>1. n \in Nat \ {0}
    BY LegacyAssumption
<1>2. /\ p \in Int /\ q \in Int
      /\ i = n * p + (i % n) /\ j = n * q + (j % n)
    BY <1>1
<1> SUFFICES ASSUME i % n = j % n PROVE FALSE
    OBVIOUS
<1> HIDE DEF p, q, n
<1>3. i % n \in Int
    BY <1>1
<1>4. j - i = n * q - n * p
    BY <1>1, <1>2, <1>3
<1>5. j - i = n * (q - p)
    BY <1>1, <1>2, <1>4
<1> DEFINE k == q - p
<1>6. k \in Int /\ 0 < n * k /\ n * k < n
    BY <1>1, <1>2, <1>5 DEF n
<1> HIDE DEF k
<1>7. k <= 0 => n * k <= 0
    BY <1>1, <1>6
<1>8. k >= 1 => n * k >= n
    BY <1>1, <1>6
<1>9. n * k \in Int
    BY <1>1, <1>6
<1> QED
    BY <1>1, <1>6, <1>7, <1>8, <1>9

-----------------------------------------------------------------------------
LEMMA EmptyRingFacts ==
    EmptyRing \in RingType /\ EmptyRing.w = 0 /\ EmptyRing.r = 0
BY Zeros DEF EmptyRing, RingType

LEMMA EmptiedRing ==
    ASSUME ring \in RingType, ResetRing
    PROVE  /\ ring' \in RingType /\ ring'.cells = ring.cells /\ ring'.w = 0 /\ ring'.r = 0
           /\ Queued' = {} /\ Waiting' = {} /\ ~Full'
           /\ ring'.r <= ring'.w /\ ring'.w - ring'.r <= RingSize
<1> DEFINE zero == 0
<1>1. ring' = [ring EXCEPT !.w = zero, !.r = zero] /\ zero \in Nat
    BY DEF ResetRing
<1> HIDE DEF zero
<1>2. /\ ring' \in RingType /\ ring'.cells = ring.cells /\ ring'.w = zero /\ ring'.r = zero
    BY <1>1 DEF RingType
<1>3. ring'.w = 0 /\ ring'.r = 0 /\ RingSize \in Nat \ {0}
    BY <1>2, LegacyAssumption DEF zero
<1>4. Queued' = {} /\ Waiting' = {}
    BY <1>3 DEF Queued, Waiting
<1> QED
    BY <1>2, <1>3, <1>4 DEF Full

LEMMA InitLegacyInv == Init => LegacyInv
<1> SUFFICES ASSUME Init PROVE LegacyInv
    OBVIOUS
<1>1. NoBlock \in Blocks /\ RingSize \in Nat \ {0}
    BY LegacyAssumption, Zeros
<1>2. ring.w = 0 /\ ring.r = 0 /\ ring \in RingType
    BY EmptyRingFacts DEF Init
<1>3. Queued = {} /\ Waiting = {}
    BY <1>2 DEF Queued, Waiting
<1>4. /\ spill = [opened |-> FALSE, data |-> <<>>, w |-> 0, r |-> 0] /\ file = <<>>
      /\ spill = EmptySpill(FALSE)
    BY DEF Init, EmptySpill
<1>5. /\ Unread = {} /\ Len(spill.data) = 0 /\ spill.w = 0 /\ spill.r = 0
      /\ DOMAIN spill.data = {} /\ ext.pc = "idle" /\ wr.pc = "exited"
    <2>1. spill.data = <<>> /\ spill.w = 0 /\ spill.r = 0
        BY <1>4
    <2>2. ext.pc = "idle" /\ wr.pc = "exited"
        BY DEF Init
    <2> QED
        BY <2>1, <2>2 DEF Unread
<1>6. InSpill = {} /\ OnDisk = {} /\ InFile = {} /\ InHand = {} /\ Extracted = {}
    BY <1>4, <1>5 DEF InSpill, OnDisk, InFile, InHand, Extracted, Range
<1>7. Types
    <2>1. ctl \in CtlType
        BY DEF Init, Phases, CtlType
    <2>2. ext \in ExtType /\ wr \in WriterType
        BY <1>1 DEF Init, ExtType, WriterType
    <2>3. hist \in HistType
        BY DEF Init, NoHistory, HistType
    <2>4. spill \in SpillType /\ file \in Seq(Blocks)
        BY <1>4 DEF SpillType
    <2> QED
        BY <1>2, <2>1, <2>2, <2>3, <2>4 DEF Types
<1>8. PhaseInv
    BY DEF PhaseInv, Init
<1>9. WriterInv
    BY <1>1, <1>2 DEF WriterInv, Init, FromRing
<1>10. SpillInv
    <2>1. ~ExtractionInside /\ ~WriterInside
        BY <1>5 DEF ExtractionInside, WriterInside
    <2>2. spill.r <= spill.w /\ spill.w = Len(spill.data)
        BY <1>5
    <2> QED
        BY ZenonT(30), <1>4, <2>1, <2>2 DEF SpillInv
<1>11. OwnInv
    BY <1>3, <1>6 DEF OwnInv, Placed, Init
<1>12. ApartInv
    BY <1>3, <1>4, <1>5, <1>6 DEF ApartInv, Distinct
<1>13. CompleteInv
    BY DEF CompleteInv, Init, NoHistory
<1>14. OrderInv
    BY <1>3, <1>4, <1>5 DEF OrderInv, Ordered
<1>15. GrantInv
    <2>1. \A c \in 0 .. RingSize - 1 : ring.cells[c] = NoBlock
        BY DEF Init, EmptyRing
    <2>2. ext.taken = 0
        BY DEF Init
    <2> QED
        BY <1>5, <2>1, <2>2, Zeros DEF GrantInv
<1> QED
    BY <1>7, <1>8, <1>9, <1>10, <1>11, <1>12, <1>13, <1>14, <1>15 DEF LegacyInv

(* The types of everything the steps use.                                  *)
Typed ==
    /\ RingSize \in Nat \ {0}
    /\ ctl.session \in Nat /\ ctl.format \in {"flac", "raw"} /\ ctl.recording \in BOOLEAN
    /\ ext.pc \in {"idle", "have", "granted", "spill"} /\ ext.block \in Blocks
    /\ ext.taken \in Nat /\ ext.at \in Nat
    /\ ring.r \in Nat /\ ring.w \in Nat /\ ring.r <= ring.w /\ ring.w - ring.r <= RingSize
    /\ ring.cells \in [0 .. RingSize - 1 -> Blocks]
    /\ \A i \in Nat : i % RingSize \in 0 .. RingSize - 1
    /\ Queued \subseteq Nat /\ \A i \in Queued : Cell(i) \in Blocks
    /\ spill \in SpillType /\ file \in Seq(Blocks)
    /\ wr.cell \in -1 .. RingSize - 1 /\ wr.copy \in Blocks /\ wr.at \in Nat
    /\ wr.error \in BOOLEAN /\ wr.last \in BOOLEAN
    /\ Held \in Blocks
    /\ hist.inTime \subseteq Blocks /\ hist.failed \subseteq Blocks /\ hist.late \subseteq Blocks
    /\ hist.spilled \in BOOLEAN /\ hist.refused \in BOOLEAN
    /\ \A block \in Blocks : block[2] \in Nat

LEMMA LegacyTyped == ASSUME LegacyInv PROVE Typed
<1>1. Types /\ WriterInv
    BY DEF LegacyInv
<1>2. RingSize \in Nat \ {0}
    BY LegacyAssumption
<1>3. /\ ctl.session \in Nat /\ ctl.format \in {"flac", "raw"} /\ ctl.recording \in BOOLEAN
      /\ ext.pc \in {"idle", "have", "granted", "spill"} /\ ext.block \in Blocks
      /\ ext.taken \in Nat /\ ext.at \in Nat
      /\ spill \in SpillType /\ file \in Seq(Blocks)
    BY <1>1 DEF Types, CtlType, ExtType
<1>4. /\ wr.cell \in -1 .. RingSize - 1 /\ wr.copy \in Blocks /\ wr.at \in Nat
      /\ wr.error \in BOOLEAN /\ wr.last \in BOOLEAN
      /\ hist.inTime \subseteq Blocks /\ hist.failed \subseteq Blocks /\ hist.late \subseteq Blocks
      /\ hist.spilled \in BOOLEAN /\ hist.refused \in BOOLEAN
    BY <1>1 DEF Types, WriterType, HistType
<1>5. /\ ring.r \in Nat /\ ring.w \in Nat /\ ring.cells \in [0 .. RingSize - 1 -> Blocks]
    BY <1>1 DEF Types, RingType
<1>6. ring.r <= ring.w /\ ring.w - ring.r <= RingSize
    BY <1>1 DEF WriterInv
<1>7. \A i \in Nat : i % RingSize \in 0 .. RingSize - 1
    BY <1>2
<1>8. Queued \subseteq Nat /\ \A i \in Queued : Cell(i) \in Blocks
    <2>1. Queued \subseteq Nat
        BY <1>5 DEF Queued
    <2> QED
        BY <1>5, <1>7, <2>1 DEF Cell
<1>9. Held \in Blocks
    <2>1. CASE FromRing
        BY <1>2, <1>4, <1>5, <2>1 DEF Held, FromRing
    <2>2. CASE ~FromRing
        BY <1>4, <2>2 DEF Held
    <2> QED
        BY <2>1, <2>2
<1>10. \A block \in Blocks : block[2] \in Nat
    BY DEF Blocks
<1> QED
    BY <1>2, <1>3, <1>4, <1>5, <1>6, <1>7, <1>8, <1>9, <1>10 DEF Typed
(* Two blocks of the ring lie in two cells, and the next one in a third.   *)
LEMMA CellsApart ==
    ASSUME Typed
    PROVE  /\ \A i, j \in Queued : i # j => i % RingSize # j % RingSize
           /\ ~Full => \A i \in Queued : i % RingSize # ring.w % RingSize
<1>1. /\ RingSize \in Nat \ {0} /\ ring.r \in Nat /\ ring.w \in Nat /\ ring.r <= ring.w
      /\ ring.w - ring.r <= RingSize
    BY DEF Typed
<1>2. ASSUME NEW i \in Queued, NEW j \in Queued, i < j PROVE i % RingSize # j % RingSize
    <2>1. i \in Nat /\ j \in Nat /\ j - i < RingSize
        BY <1>1, <1>2 DEF Queued
    <2> QED
        BY <1>2, <2>1, ModDiffers
<1>3. ASSUME ~Full, NEW i \in Queued PROVE i % RingSize # ring.w % RingSize
    <2>1. i \in Nat /\ i < ring.w /\ ring.w - i < RingSize
        BY <1>1, <1>3 DEF Queued, Full
    <2> QED
        BY <1>1, <2>1, ModDiffers
<1>4. ASSUME NEW i \in Queued, NEW j \in Queued, i # j PROVE i % RingSize # j % RingSize
    <2>1. i < j \/ j < i
        BY <1>1, <1>4 DEF Queued
    <2> QED
        BY <1>2, <2>1
<1> QED
    BY <1>3, <1>4

LEMMA WaitingCells ==
    /\ Waiting = {Cell(i) : i \in Queued}
    /\ \A x : x \in Waiting <=> \E i \in Queued : x = Cell(i)
BY DEF Waiting, Cell, Queued

(* bufmgr_write_end puts a block behind the others.                        *)
LEMMA Pushed ==
    ASSUME LegacyInv, ~Full, NEW block \in Blocks,
           ring' = [ring EXCEPT !.cells = [ring.cells EXCEPT ![ring.w % RingSize] = block],
                               !.w = @ + 1]
    PROVE  /\ ring' \in RingType
           /\ ring'.r = ring.r /\ ring'.w = ring.w + 1
           /\ ring'.r <= ring'.w /\ ring'.w - ring'.r <= RingSize
           /\ Queued' = Queued \cup {ring.w} /\ ring.w \notin Queued
           /\ \A i \in Queued : Cell(i)' = Cell(i)
           /\ \A i : i = ring.w => Cell(i)' = block
           /\ \A c \in 0 .. RingSize - 1 : ring'.cells[c] \in {ring.cells[c], block}
           /\ Waiting' = Waiting \cup {block}
<1>1. Typed /\ Types
    BY LegacyTyped DEF LegacyInv
<1>2. /\ RingSize \in Nat \ {0} /\ ring.r \in Nat /\ ring.w \in Nat /\ ring.r <= ring.w
      /\ ring.w - ring.r <= RingSize
    BY <1>1 DEF Typed
<1>3. /\ ring.cells \in [0 .. RingSize - 1 -> Blocks] /\ ring.w % RingSize \in 0 .. RingSize - 1
      /\ \A i \in Queued : i % RingSize \in 0 .. RingSize - 1
    BY <1>1 DEF Typed
<1>4. ring \in [cells : [0 .. RingSize - 1 -> Blocks], w : Nat, r : Nat]
    BY <1>1 DEF Types, RingType
<1>5. /\ ring'.r = ring.r /\ ring'.w = ring.w + 1
      /\ ring'.cells = [ring.cells EXCEPT ![ring.w % RingSize] = block]
      /\ ring' = [cells |-> ring'.cells, w |-> ring'.w, r |-> ring'.r]
    BY <1>4
<1>6. ring'.cells \in [0 .. RingSize - 1 -> Blocks]
    BY <1>3, <1>5
<1>7. ring'.r <= ring'.w /\ ring'.w - ring'.r <= RingSize
    BY <1>2, <1>5 DEF Full
<1>8. Queued' = Queued \cup {ring.w} /\ ring.w \notin Queued
    BY <1>2, <1>5 DEF Queued
<1>9. ASSUME NEW i \in Queued PROVE Cell(i)' = Cell(i)
    <2>1. i % RingSize # ring.w % RingSize
        BY <1>1, CellsApart
    <2> QED
        BY <1>3, <1>5, <2>1 DEF Cell
<1>10. \A i : i = ring.w => Cell(i)' = block
    BY <1>3, <1>5 DEF Cell
<1>11. \A c \in 0 .. RingSize - 1 : ring'.cells[c] \in {ring.cells[c], block}
    BY <1>3, <1>5
<1>12. Waiting' = Waiting \cup {block}
    <2>1. \A x : x \in Waiting' <=> \E i \in Queued' : x = Cell(i)'
        BY DEF Waiting, Cell, Queued
    <2>2. ASSUME NEW x PROVE x \in Waiting' <=> x \in Waiting \cup {block}
        <3>1. x \in Waiting <=> \E i \in Queued : x = Cell(i)
            BY WaitingCells
        <3> QED
            BY <1>8, <1>9, <1>10, <2>1, <3>1
    <2> QED
        BY <2>2
<1>13. ring' \in RingType
    <2> DEFINE C == [0 .. RingSize - 1 -> Blocks]
               n == ring.w + 1
    <2>1. ring'.cells \in C /\ n \in Nat /\ ring.r \in Nat
        BY <1>2, <1>6
    <2>2. ring' = [cells |-> ring'.cells, w |-> n, r |-> ring.r]
        BY <1>5
    <2> HIDE DEF C, n
    <2>3. ring' \in [cells : C, w : Nat, r : Nat]
        BY <2>1, <2>2
    <2> QED
        BY <2>3 DEF C, RingType
<1> QED
    BY <1>5, <1>7, <1>8, <1>9, <1>10, <1>11, <1>12, <1>13

(* bufmgr_read_end releases the oldest block.                              *)
LEMMA Popped ==
    ASSUME LegacyInv, Release, ring.r < ring.w
    PROVE  /\ ring' \in RingType
           /\ ring'.r = ring.r + 1 /\ ring'.w = ring.w
           /\ ring'.r <= ring'.w /\ ring'.w - ring'.r <= RingSize
           /\ ring'.cells = ring.cells
           /\ Queued = Queued' \cup {ring.r} /\ \A i \in Queued' : ring.r < i
           /\ \A i : Cell(i)' = Cell(i)
           /\ Waiting = Waiting' \cup {Cell(ring.r)}
           /\ (\A i, j \in Queued : i # j => Cell(i) # Cell(j)) => Cell(ring.r) \notin Waiting'
<1>1. Types /\ Typed
    BY LegacyTyped DEF LegacyInv
<1>2. /\ RingSize \in Nat \ {0} /\ ring.r \in Nat /\ ring.w \in Nat /\ ring.r <= ring.w
      /\ ring.w - ring.r <= RingSize
    BY <1>1 DEF Typed
<1>3. /\ ring'.r = ring.r + 1 /\ ring'.w = ring.w /\ ring'.cells = ring.cells
      /\ ring' \in RingType
    <2> DEFINE C == [0 .. RingSize - 1 -> Blocks]
               n == ring.r + 1
    <2>1. ring \in [cells : C, w : Nat, r : Nat] /\ n \in Nat
        BY <1>1, <1>2 DEF Types, RingType
    <2>2. ring' = [ring EXCEPT !.r = n]
        BY DEF Release
    <2> HIDE DEF C, n
    <2>3. /\ ring'.r = n /\ ring'.w = ring.w /\ ring'.cells = ring.cells
          /\ ring' \in [cells : C, w : Nat, r : Nat]
        BY <2>1, <2>2
    <2> QED
        BY <2>3 DEF C, n, RingType
<1>4. ring'.r <= ring'.w /\ ring'.w - ring'.r <= RingSize
    BY <1>2, <1>3
<1>5. Queued = Queued' \cup {ring.r} /\ \A i \in Queued' : ring.r < i
    BY <1>2, <1>3 DEF Queued
<1>6. \A i : Cell(i)' = Cell(i)
    BY <1>3 DEF Cell
<1>7. \A x : x \in Waiting' <=> \E i \in Queued' : x = Cell(i)'
    BY DEF Waiting, Cell, Queued
<1>8. \A x : x \in Waiting <=> \E i \in Queued : x = Cell(i)
    BY WaitingCells
<1>9. Waiting = Waiting' \cup {Cell(ring.r)}
    BY <1>5, <1>6, <1>7, <1>8
<1>10. ASSUME \A i, j \in Queued : i # j => Cell(i) # Cell(j), Cell(ring.r) \in Waiting'
       PROVE  FALSE
    <2>1. PICK i \in Queued' : Cell(ring.r) = Cell(i)
        BY <1>6, <1>7, <1>10
    <2>2. i \in Queued /\ ring.r \in Queued /\ ring.r < i /\ i \in Int
        BY <1>2, <1>5 DEF Queued
    <2>3. ring.r # i
        BY <1>2, <2>2
    <2> QED
        BY <1>10, <2>1, <2>2, <2>3
<1> QED
    BY <1>3, <1>4, <1>5, <1>6, <1>9, <1>10

-----------------------------------------------------------------------------
(* What most steps leave alone.                                            *)
(* The cell the next block is copied to, without a publication.            *)
LEMMA Overwritten ==
    ASSUME LegacyInv, ~Full, NEW block \in Blocks,
           ring' = [ring EXCEPT !.cells = [ring.cells EXCEPT ![ring.w % RingSize] = block]]
    PROVE  /\ ring' \in RingType /\ ring'.r = ring.r /\ ring'.w = ring.w
           /\ Queued' = Queued /\ \A i \in Queued : Cell(i)' = Cell(i)
           /\ Waiting' = Waiting
<1>1. Typed /\ ring \in RingType
    BY LegacyTyped DEF LegacyInv, Types
<1>2. /\ ring.cells \in [0 .. RingSize - 1 -> Blocks] /\ ring.w % RingSize \in 0 .. RingSize - 1
      /\ \A i \in Queued : i % RingSize \in 0 .. RingSize - 1
    BY <1>1 DEF Typed
<1> DEFINE cells == [ring.cells EXCEPT ![ring.w % RingSize] = block]
<1>3. cells \in [0 .. RingSize - 1 -> Blocks]
    BY <1>2
<1>4. \A i \in Queued : cells[i % RingSize] = ring.cells[i % RingSize]
    BY <1>1, <1>2, CellsApart
<1>5. ring' = [ring EXCEPT !.cells = cells]
    OBVIOUS
<1> HIDE DEF cells
<1>6. ring' \in RingType /\ ring'.r = ring.r /\ ring'.w = ring.w /\ ring'.cells = cells
    BY <1>1, <1>3, <1>5 DEF RingType
<1>7. Queued' = Queued /\ \A i \in Queued : Cell(i)' = Cell(i)
    BY <1>4, <1>6 DEF Queued, Cell
<1>8. Waiting' = Waiting
    BY <1>7 DEF Waiting, Queued, Cell
<1> QED
    BY <1>6, <1>7, <1>8

-----------------------------------------------------------------------------
(* What most steps leave alone.                                            *)

LEMMA Unmoved ==
    ASSUME UNCHANGED ring
    PROVE  Waiting' = Waiting /\ Queued' = Queued /\ \A i : Cell(i)' = Cell(i)
BY DEF Waiting, Queued, Cell

LEMMA SpillKept ==
    ASSUME UNCHANGED spill
    PROVE  Unread' = Unread /\ InSpill' = InSpill /\ OnDisk' = OnDisk
BY DEF Unread, InSpill, OnDisk

LEMMA OwnKept ==
    ASSUME LegacyInv, UNCHANGED ext, ctl'.session = ctl.session, ctl'.format = ctl.format,
           hist'.late = hist.late, Raced => Raced',
           Placed' \cup OnDisk' \subseteq Placed \cup OnDisk \cup {NoBlock},
           ~Raced' => Placed' \subseteq Placed /\ OnDisk' \subseteq Placed \cup OnDisk
    PROVE  OwnInv'
<1>1. Extracted' = Extracted /\ \A block : Own(block) => Own(block)'
    BY DEF Extracted, Own
<1>2. OwnInv /\ ext.taken \in Nat
    BY LegacyTyped DEF LegacyInv, Typed
<1>3. Raced' => Own(NoBlock)' /\ NoBlock[2] <= ext.taken
    BY <1>2, Zeros DEF Own
<1>4. ASSUME NEW block \in Placed' \cup OnDisk' PROVE Own(block)' /\ block[2] <= ext.taken
    <2>1. CASE block \in Placed \cup OnDisk
        BY <1>1, <1>2, <2>1 DEF OwnInv
    <2>2. CASE block \notin Placed \cup OnDisk
        <3>1. block = NoBlock /\ Raced'
            BY <1>4, <2>2
        <3> QED
            BY <1>3, <3>1
    <2> QED
        BY <2>1, <2>2
<1>5. ASSUME NEW block \in Extracted' PROVE Own(block)' /\ block[2] <= ext.taken
    BY <1>1, <1>2, <1>5 DEF OwnInv
<1> QED
    BY <1>1, <1>2, <1>4, <1>5 DEF OwnInv

LEMMA GrantKept ==
    ASSUME LegacyInv, UNCHANGED ext, ring'.cells = ring.cells, ring'.w = ring.w,
           hist'.late = hist.late, Raced => Raced'
    PROVE  GrantInv'
BY DEF LegacyInv, GrantInv

(* A step of the user interface that touches flags only.                   *)
LEMMA QuietControl ==
    ASSUME LegacyInv, UNCHANGED <<ext, ring, spill, wr, file, hist>>, ctl' \in CtlType,
           ctl'.session = ctl.session, ctl'.format = ctl.format,
           ctl'.recording => ctl.recording,
           ctl'.phase \notin {"idle", "finalized"} => ctl.phase \notin {"idle", "finalized"},
           PhaseInv'
    PROVE  LegacyInv'
<1>1. /\ Waiting' = Waiting /\ Queued' = Queued /\ \A i : Cell(i)' = Cell(i)
      /\ Unread' = Unread /\ InSpill' = InSpill /\ OnDisk' = OnDisk
    BY Unmoved, SpillKept
<1>2. /\ InFile' = InFile /\ InHand' = InHand /\ Held' = Held /\ FromRing' = FromRing
      /\ Healthy' = Healthy /\ Raced' = Raced
      /\ ExtractionInside' = ExtractionInside /\ WriterInside' = WriterInside
    BY DEF InFile, InHand, Held, FromRing, Healthy, Raced, ExtractionInside, WriterInside
<1>3. Placed' = Placed
    BY <1>1, <1>2 DEF Placed
<1>4. Types'
    BY DEF LegacyInv, Types
<1>5. WriterInv'
    BY <1>2 DEF LegacyInv, WriterInv
<1>6. SpillInv'
    BY <1>2 DEF LegacyInv, SpillInv, EmptySpill
<1>7. OwnInv'
    BY <1>1, <1>2, <1>3, OwnKept
<1>8. ApartInv'
    BY <1>1, <1>2 DEF LegacyInv, ApartInv, Distinct
<1>9. CompleteInv'
    BY <1>1, <1>2, <1>3 DEF LegacyInv, CompleteInv
<1>10. OrderInv'
    BY <1>1, <1>2 DEF LegacyInv, OrderInv, Ordered
<1>11. GrantInv'
    BY <1>2, GrantKept
<1> QED
    BY <1>4, <1>5, <1>6, <1>7, <1>8, <1>9, <1>10, <1>11 DEF LegacyInv

-----------------------------------------------------------------------------
(* The extraction thread's steps.                                          *)

LEMMA PlacedBlocks ==
    ASSUME LegacyInv
    PROVE  Placed \cup OnDisk \subseteq Blocks
<1>1. Typed
    BY LegacyTyped
<1>2. Waiting \subseteq Blocks /\ InHand \subseteq Blocks
    BY <1>1, WaitingCells DEF Typed, InHand
<1>3. \A seq \in Seq(Blocks) : Range(seq) \subseteq Blocks
    BY DEF Range
<1>4. OnDisk \subseteq Blocks /\ InFile \subseteq Blocks
    BY <1>1, <1>3 DEF Typed, SpillType, OnDisk, InFile
<1> QED
    BY <1>2, <1>4, UnreadOnDisk DEF Placed

LEMMA TakeBlockInv == ASSUME LegacyInv, TakeBlock PROVE LegacyInv'
<1>1. Typed /\ Types
    BY LegacyTyped DEF LegacyInv
<1>2. /\ UNCHANGED <<ctl, ring, spill, wr, file, hist>> /\ ext.pc = "idle"
      /\ ext' = [ext EXCEPT !.pc = "have", !.block = <<ctl.session, ext.taken + 1>>, !.taken = @ + 1]
    BY DEF TakeBlock
<1> DEFINE n == ext.taken + 1
           block == <<ctl.session, n>>
<1>3. n \in Nat /\ block \in Blocks /\ block[1] = ctl.session /\ block[2] = n
    <2>1. ext.taken \in Nat /\ ctl.session \in Nat
        BY <1>1 DEF Typed
    <2>2. n \in Nat
        BY <2>1
    <2> HIDE DEF n
    <2> QED
        BY <2>1, <2>2 DEF Blocks
<1>4. ext'.pc = "have" /\ ext'.block = block /\ ext'.taken = n /\ ext' \in ExtType
    <2>1. ext' = [ext EXCEPT !.pc = "have", !.block = block, !.taken = n]
        BY <1>2
    <2> HIDE DEF block, n
    <2> QED
        BY <1>1, <1>3, <2>1 DEF Types, ExtType
<1>5. /\ Waiting' = Waiting /\ Queued' = Queued /\ \A i : Cell(i)' = Cell(i)
      /\ Unread' = Unread /\ InSpill' = InSpill /\ OnDisk' = OnDisk
    BY <1>2, Unmoved, SpillKept
<1>6. /\ InFile' = InFile /\ InHand' = InHand /\ Held' = Held
      /\ FromRing' = FromRing /\ Healthy' = Healthy /\ Raced' = Raced
      /\ ~ExtractionInside' /\ WriterInside' = WriterInside
    BY <1>2, <1>4 DEF InFile, InHand, Held, FromRing, Healthy, Raced, ExtractionInside, WriterInside
<1>7. Placed' = Placed /\ Extracted' = {block}
    BY <1>4, <1>5, <1>6 DEF Placed, Extracted
<1>8. \A b \in Placed \cup OnDisk : Own(b) /\ b[2] <= ext.taken /\ b[2] \in Nat
    <2>1. \A b \in Placed \cup OnDisk : Own(b) /\ b[2] <= ext.taken
        BY DEF LegacyInv, OwnInv
    <2>2. Placed \cup OnDisk \subseteq Blocks
        BY PlacedBlocks
    <2> QED
        BY <1>1, <2>1, <2>2 DEF Typed
<1> HIDE DEF block
<1>9. \A b \in Placed \cup OnDisk : Own(b) /\ b[2] <= n /\ b # block /\ b[2] < n
    <2>1. ext.taken \in Nat
        BY <1>1 DEF Typed
    <2>2. \A b \in Placed \cup OnDisk : b[2] < n /\ b[2] <= n
        BY <1>8, <2>1
    <2>3. n \in Nat /\ ~(n < n)
        BY <1>3
    <2> HIDE DEF n
    <2> QED
        BY <1>3, <1>8, <2>2, <2>3
<1>10. Types'
    BY <1>1, <1>2, <1>4 DEF Types
<1>11. PhaseInv' /\ WriterInv' /\ SpillInv'
    <2>1. PhaseInv' /\ WriterInv'
        BY <1>2, <1>3, <1>4, <1>6 DEF LegacyInv, PhaseInv, WriterInv
    <2>2. SpillInv'
        BY <1>2, <1>6 DEF LegacyInv, SpillInv, EmptySpill
    <2> QED
        BY <2>1, <2>2
<1>12. OwnInv'
    <2>1. \A b : Own(b)' <=> Own(b)
        BY <1>2, <1>6 DEF Own
    <2>2. Own(block) /\ block[2] <= n
        BY <1>3 DEF Own
    <2> QED
        BY <1>4, <1>5, <1>7, <1>9, <2>1, <2>2 DEF OwnInv
<1>13. ApartInv'
    BY <1>2, <1>5, <1>6 DEF LegacyInv, ApartInv
<1>14. CompleteInv'
    BY <1>2, <1>5, <1>6, <1>7 DEF LegacyInv, CompleteInv
<1>15. OrderInv'
    <2>1. \A i \in DOMAIN file : file[i] \in Placed
        BY DEF Placed, InFile, Range
    <2>2. \A k \in Queued : Cell(k) \in Placed
        BY WaitingCells DEF Placed
    <2> QED
        BY <1>2, <1>4, <1>5, <1>6, <1>9, <2>1, <2>2 DEF LegacyInv, OrderInv, Ordered
<1>16. GrantInv'
    <2>1. \A c \in 0 .. RingSize - 1 : ring.cells[c][2] <= ext.taken /\ ring.cells[c][2] \in Nat
        BY <1>1 DEF LegacyInv, GrantInv, Typed
    <2>2. ext.taken \in Nat
        BY <1>1 DEF Typed
    <2>3. \A c \in 0 .. RingSize - 1 : ring.cells[c][2] <= n
        BY <2>1, <2>2
    <2> QED
        BY <1>2, <1>4, <2>3 DEF GrantInv
<1> QED
    BY <1>10, <1>11, <1>12, <1>13, <1>14, <1>15, <1>16 DEF LegacyInv

LEMMA GuardTripsInv == ASSUME LegacyInv, GuardTrips PROVE LegacyInv'
<1>1. Types /\ PhaseInv
    BY DEF LegacyInv
<1>2. /\ ctl' = [ctl EXCEPT !.enabled = FALSE, !.stopRequested = TRUE]
      /\ UNCHANGED <<ext, ring, spill, wr, file, hist>>
    BY DEF GuardTrips
<1>3. /\ ctl' \in CtlType /\ ctl'.enabled = FALSE
      /\ UNCHANGED <<ctl.phase, ctl.session, ctl.format, ctl.recording>>
    BY <1>1, <1>2 DEF Types, CtlType
<1>4. PhaseInv'
    BY <1>1, <1>2, <1>3 DEF PhaseInv, Full
<1> QED
    BY <1>2, <1>3, <1>4, QuietControl

(* A hand-over begins: only the thread's place and the channel change.     *)
LEMMA Begun ==
    ASSUME LegacyInv, ext.pc = "have", ext' \in ExtType, ext'.pc \in {"granted", "spill"},
           ext'.block = ext.block, ext'.taken = ext.taken, UNCHANGED <<ctl, ring, wr, file>>,
           ext'.pc = "granted" => ~Full /\ ext'.at = ring.w % RingSize,
           spill' \in SpillType, spill'.w = spill.w, spill'.r = spill.r, spill'.data = spill.data,
           hist' \in HistType, hist'.inTime = hist.inTime, hist'.failed = hist.failed,
           hist'.late = hist.late, hist'.spilled = hist.spilled, hist'.refused = hist.refused,
           hist.mishaps \subseteq hist'.mishaps, SpillInv'
    PROVE  LegacyInv'
<1>1. /\ Waiting' = Waiting /\ Queued' = Queued /\ \A i : Cell(i)' = Cell(i)
      /\ Unread' = Unread /\ InSpill' = InSpill /\ OnDisk' = OnDisk
    BY Unmoved DEF Unread, InSpill, OnDisk
<1>2. /\ InFile' = InFile /\ InHand' = InHand /\ Held' = Held /\ FromRing' = FromRing
      /\ (Healthy' => Healthy) /\ (Raced => Raced') /\ Full' = Full
    BY DEF InFile, InHand, Held, FromRing, Healthy, Raced, Full
<1>3. Placed' = Placed /\ Extracted' = Extracted
    BY <1>1, <1>2 DEF Placed, Extracted
<1>4. Types'
    BY DEF LegacyInv, Types
<1>5. PhaseInv'
    BY <1>2 DEF LegacyInv, PhaseInv
<1>6. WriterInv'
    BY <1>2 DEF LegacyInv, WriterInv
<1>7. OwnInv'
    <2>1. \A b : Own(b) => Own(b)'
        BY <1>2 DEF Own
    <2> QED
        BY <1>1, <1>2, <1>3, <2>1 DEF LegacyInv, OwnInv
<1>8. ApartInv'
    BY <1>1, <1>2 DEF LegacyInv, ApartInv, Distinct
<1>9. CompleteInv'
    BY <1>1, <1>2, <1>3 DEF LegacyInv, CompleteInv
<1>10. OrderInv'
    BY <1>1, <1>2 DEF LegacyInv, OrderInv, Ordered
<1>11. GrantInv'
    <2>1. ext'.pc = "granted" => ring.w % RingSize \in 0 .. RingSize - 1
        BY LegacyTyped DEF Typed
    <2> QED
        BY <2>1 DEF LegacyInv, GrantInv
<1> QED
    BY <1>4, <1>5, <1>6, <1>7, <1>8, <1>9, <1>10, <1>11 DEF LegacyInv

LEMMA BeginWriteInv == ASSUME LegacyInv, BeginWrite PROVE LegacyInv'
<1> DEFINE at == ring.w % RingSize
<1>1. /\ ext.pc = "have" /\ ~Full /\ ext' = [ext EXCEPT !.pc = "granted", !.at = at] /\ Types
      /\ UNCHANGED <<ctl, ring, spill, wr, file, hist>>
    BY DEF BeginWrite, LegacyInv
<1>2. /\ ext' \in ExtType /\ ext'.pc = "granted" /\ ext'.block = ext.block
      /\ ext'.taken = ext.taken /\ ext'.at = at
    <2>1. at \in Nat
        <3>1. ring.w \in Nat /\ RingSize \in Nat \ {0}
            BY LegacyTyped DEF Typed
        <3> QED
            BY <3>1
    <2> HIDE DEF at
    <2> QED
        BY <1>1, <2>1 DEF Types, ExtType
<1>3. SpillInv'
    BY <1>1, <1>2
       DEF LegacyInv, SpillInv, ExtractionInside, WriterInside, Raced, EmptySpill
<1> QED
    BY <1>1, <1>2, <1>3, Begun DEF Types

(* What a thread that enters an enqueue writes into the history.           *)
LEMMA Entered ==
    ASSUME NEW inside \in BOOLEAN, NEW past \in HistType, past.mishaps = hist.mishaps,
           hist' = RacedIf(inside, past)
    PROVE  /\ hist' \in HistType /\ hist'.inTime = past.inTime /\ hist'.failed = past.failed
           /\ hist'.late = past.late /\ hist'.spilled = past.spilled
           /\ hist'.refused = past.refused /\ hist.mishaps \subseteq hist'.mishaps
           /\ inside => Raced'
<1> DEFINE now == hist.mishaps \cup {"raced"}
<1>1. now \subseteq {"raced", "unread", "unpublished"} /\ "raced" \in now
    BY DEF HistType
<1>2. CASE inside
    <2>1. hist' = [past EXCEPT !.mishaps = now]
        BY <1>2 DEF RacedIf, Mishap
    <2> HIDE DEF now
    <2>2. /\ hist' \in HistType /\ hist'.inTime = past.inTime /\ hist'.failed = past.failed
          /\ hist'.late = past.late /\ hist'.spilled = past.spilled
          /\ hist'.refused = past.refused /\ hist'.mishaps = now
        BY <1>1, <2>1 DEF HistType
    <2> QED
        BY <1>1, <2>2 DEF Raced, now
<1>3. CASE ~inside
    BY <1>3 DEF RacedIf
<1> QED
    BY <1>2, <1>3

LEMMA BeginSpillInv == ASSUME LegacyInv, BeginSpill PROVE LegacyInv'
<1>1. /\ ext.pc = "have" /\ OpenSpill /\ hist' = RacedIf(WriterInside, hist)
      /\ ext' = [ext EXCEPT !.pc = "spill", !.at = spill'.w]
      /\ UNCHANGED <<ctl, ring, wr, file>> /\ Types /\ SpillInv
    BY DEF BeginSpill, LegacyInv
<1>2. /\ spill' \in SpillType /\ spill'.opened
      /\ spill'.w = spill.w /\ spill'.r = spill.r /\ spill'.data = spill.data
    BY <1>1, Opened DEF Types
<1>3. /\ ext' \in ExtType /\ ext'.pc = "spill" /\ ext'.block = ext.block
      /\ ext'.taken = ext.taken /\ ext'.at = spill'.w
    <2>1. spill'.w \in Nat
        BY <1>2 DEF SpillType
    <2> QED
        BY <1>1, <2>1 DEF Types, ExtType
<1>4. /\ hist' \in HistType /\ hist'.inTime = hist.inTime /\ hist'.failed = hist.failed
      /\ hist'.late = hist.late /\ hist'.spilled = hist.spilled
      /\ hist'.refused = hist.refused /\ hist.mishaps \subseteq hist'.mishaps
      /\ WriterInside => Raced'
    <2>1. WriterInside \in BOOLEAN
        BY DEF WriterInside
    <2> QED
        BY <1>1, <2>1, Entered DEF Types
<1>5. SpillInv'
    <2> SUFFICES ASSUME ~Raced'
                 PROVE  /\ spill'.r <= spill'.w /\ spill'.w = Len(spill'.data)
                        /\ ExtractionInside' => ext'.at = spill'.w
                        /\ ~WriterInside'
        BY <1>2 DEF SpillInv
    <2>1. ~WriterInside /\ ~WriterInside' /\ ~Raced
        BY <1>1, <1>4 DEF WriterInside, Raced
    <2> QED
        BY <1>1, <1>2, <1>3, <2>1 DEF SpillInv
<1> QED
    BY <1>1, <1>2, <1>3, <1>4, <1>5, Begun

(* The thread is done with the block.                                      *)
LEMMA Handed ==
    ASSUME LegacyInv, ext.pc # "idle", ext' = HandedOver
    PROVE  /\ ext' \in ExtType /\ ext'.pc = "idle" /\ ext'.taken = ext.taken
           /\ Extracted = {ext.block} /\ Extracted' = {} /\ ~ExtractionInside'
<1>1. ext' = [ext EXCEPT !.pc = "idle", !.block = NoBlock, !.at = 0] /\ ext \in ExtType
    BY DEF HandedOver, LegacyInv, Types
<1> DEFINE zero == 0
<1>2. ext' = [ext EXCEPT !.pc = "idle", !.block = NoBlock, !.at = zero] /\ zero \in Nat
    BY <1>1
<1> HIDE DEF zero
<1>3. ext' \in ExtType /\ ext'.pc = "idle" /\ ext'.taken = ext.taken
    BY <1>1, <1>2, Zeros DEF ExtType
<1> QED
    BY <1>3 DEF Extracted, ExtractionInside

LEMMA OwnHanded ==
    ASSUME LegacyInv, ext.pc # "idle", ext' = HandedOver,
           ctl'.session = ctl.session, hist'.late = hist.late, Raced => Raced',
           Placed' \cup OnDisk' \subseteq Placed \cup OnDisk \cup {ext.block, NoBlock},
           ~Raced' => Placed' \cup OnDisk' \subseteq Placed \cup OnDisk \cup {ext.block}
    PROVE  OwnInv'
<1>1. ext'.taken = ext.taken /\ Extracted = {ext.block} /\ Extracted' = {} /\ ext'.pc = "idle"
    BY Handed
<1>2. OwnInv /\ ext.taken \in Nat /\ \A block : Own(block) => Own(block)'
    BY LegacyTyped DEF LegacyInv, Typed, Own
<1>3. Raced' => Own(NoBlock)' /\ NoBlock[2] <= ext.taken
    BY <1>2, Zeros DEF Own
<1>4. ASSUME NEW block \in Placed' \cup OnDisk' PROVE Own(block)' /\ block[2] <= ext.taken
    <2>1. CASE block \in Placed \cup OnDisk \cup {ext.block}
        BY <1>1, <1>2, <2>1 DEF OwnInv
    <2>2. CASE block \notin Placed \cup OnDisk \cup {ext.block}
        <3>1. block = NoBlock /\ Raced'
            BY <1>4, <2>2
        <3> QED
            BY <1>3, <3>1
    <2> QED
        BY <2>1, <2>2
<1> QED
    BY <1>1, <1>4 DEF OwnInv


LEMMA Timely ==
    ASSUME LegacyInv, NEW block \in Blocks
    PROVE  /\ InTime(block) \in SUBSET Blocks /\ InTime(block) \subseteq hist.inTime \cup {block}
           /\ ~ctl.recording => InTime(block) = hist.inTime
BY LegacyTyped DEF Typed, InTime

(* The writer's block lies in a cell the extraction thread may write to    *)
(* only once the cell was released.                                        *)
LEMMA HeldBeside ==
    ASSUME LegacyInv, ~Full, NEW block \in Blocks, UNCHANGED wr,
           \A c \in 0 .. RingSize - 1 : ring'.cells[c] \in {ring.cells[c], block}
    PROVE  /\ InHand' \subseteq InHand \cup {block}
           /\ wr.pc \notin {"preserve", "rescue"} => InHand' = InHand
<1>1. Typed /\ WriterInv
    BY LegacyTyped DEF LegacyInv
<1>2. FromRing' = FromRing /\ WriterInside' = WriterInside
    BY DEF FromRing, WriterInside
<1>3. CASE wr.pc \in {"preserve", "rescue"}
    <2>1. FromRing
        BY <1>1, <1>3 DEF WriterInv
    <2>2. wr.cell \in 0 .. RingSize - 1
        <3>1. wr.cell \in -1 .. RingSize - 1 /\ RingSize \in Nat /\ wr.cell >= 0
            BY <1>1, <2>1 DEF Typed, FromRing
        <3> QED
            BY <3>1
    <2>3. Held' \in {Held, block}
        BY <1>2, <2>1, <2>2 DEF Held
    <2> QED
        BY <1>3, <2>3 DEF InHand
<1>4. CASE wr.pc \notin {"preserve", "rescue"}
    <2>1. ~FromRing => Held' = Held
        BY <1>2 DEF Held
    <2>2. wr.pc = "recycle" => ~FromRing
        BY <1>1 DEF WriterInv, FromRing
    <2> QED
        BY <1>2, <1>4, <2>1, <2>2 DEF InHand
<1> QED
    BY <1>3, <1>4

(* The cells after the copy, and the thread's part of the invariant.       *)
LEMMA CopiedInv ==
    ASSUME LegacyInv, ext.pc = "granted", ext' = HandedOver, ring'.cells = Copied
    PROVE  GrantInv' /\ \A c \in 0 .. RingSize - 1 : ring'.cells[c] \in {ring.cells[c], ext.block}
<1>1. Typed /\ GrantInv /\ PhaseInv
    BY LegacyTyped DEF LegacyInv
<1>2. /\ ring.cells \in [0 .. RingSize - 1 -> Blocks] /\ ext.at \in 0 .. RingSize - 1
      /\ ext.block[2] = ext.taken /\ ext.taken \in Nat
    BY <1>1 DEF Typed, GrantInv, PhaseInv
<1>3. \A c \in 0 .. RingSize - 1 : ring'.cells[c] \in {ring.cells[c], ext.block}
    BY <1>2 DEF Copied
<1>4. ext'.pc = "idle" /\ ext'.taken = ext.taken
    BY Handed
<1>5. \A c \in 0 .. RingSize - 1 : ring'.cells[c][2] <= ext.taken
    BY <1>1, <1>2, <1>3 DEF GrantInv
<1> QED
    BY <1>3, <1>4, <1>5 DEF GrantInv

LEMMA EndWriteInPlace ==
    ASSUME LegacyInv, EndWrite, ext.at = ring.w % RingSize PROVE LegacyInv'
<1> DEFINE block == ext.block
           times == InTime(block)
<1>1. Typed /\ Types /\ PhaseInv /\ WriterInv
    BY LegacyTyped DEF LegacyInv
<1>2. /\ ext.pc = "granted" /\ ~Full /\ ext' = HandedOver
      /\ ring' = [ring EXCEPT !.cells = [ring.cells EXCEPT ![ring.w % RingSize] = block], !.w = @ + 1]
      /\ hist' = [hist EXCEPT !.inTime = times]
      /\ UNCHANGED <<ctl, spill, wr, file>>
    BY <1>1 DEF EndWrite, Copied, PhaseInv
<1>3. block \in Blocks /\ ring.w \in Nat /\ ring.r \in Nat
    BY <1>1 DEF Typed
<1>4. /\ times \in SUBSET Blocks /\ times \subseteq hist.inTime \cup {block}
      /\ ~ctl.recording => times = hist.inTime
    BY <1>3, Timely
<1>5. /\ ring' \in RingType
      /\ ring'.r = ring.r /\ ring'.w = ring.w + 1
      /\ ring'.r <= ring'.w /\ ring'.w - ring'.r <= RingSize
      /\ Queued' = Queued \cup {ring.w} /\ ring.w \notin Queued
      /\ \A i \in Queued : Cell(i)' = Cell(i)
      /\ \A i : i = ring.w => Cell(i)' = block
      /\ \A c \in 0 .. RingSize - 1 : ring'.cells[c] \in {ring.cells[c], block}
      /\ Waiting' = Waiting \cup {block}
    BY <1>2, <1>3, Pushed
<1>6. /\ ext' \in ExtType /\ ext'.pc = "idle" /\ ext'.taken = ext.taken
      /\ Extracted = {block} /\ Extracted' = {} /\ ~ExtractionInside'
    BY <1>2, Handed
<1>7. /\ InHand' \subseteq InHand \cup {block}
      /\ wr.pc \notin {"preserve", "rescue"} => InHand' = InHand
    BY <1>2, <1>3, <1>5, HeldBeside
<1> HIDE DEF block, times
<1>8. /\ hist'.inTime = times /\ hist'.failed = hist.failed /\ hist'.late = hist.late
      /\ hist'.spilled = hist.spilled /\ hist'.refused = hist.refused
      /\ hist'.mishaps = hist.mishaps /\ hist' \in HistType
    BY <1>1, <1>2, <1>4 DEF Types, HistType
<1>9. /\ Unread' = Unread /\ InSpill' = InSpill /\ OnDisk' = OnDisk
      /\ InFile' = InFile /\ FromRing' = FromRing /\ Healthy' = Healthy /\ Raced' = Raced
      /\ WriterInside' = WriterInside
    BY <1>2, <1>8, SpillKept DEF InFile, FromRing, Healthy, Raced, WriterInside
<1>10. Placed' \subseteq Placed \cup {block}
    BY <1>5, <1>7, <1>9 DEF Placed
<1>11. Types'
    BY <1>1, <1>2, <1>5, <1>6, <1>8 DEF Types
<1>12. PhaseInv'
    BY <1>2, <1>6 DEF LegacyInv, PhaseInv
<1>13. WriterInv'
    <2>1. ring.r < ring.w => ring'.r < ring'.w
        BY <1>3, <1>5
    <2> QED
        BY <1>1, <1>2, <1>5, <1>9, <2>1 DEF WriterInv
<1>14. SpillInv'
    BY <1>2, <1>6, <1>9 DEF LegacyInv, SpillInv, EmptySpill
<1>15. OwnInv'
    BY <1>2, <1>8, <1>9, <1>10, OwnHanded DEF block
<1>16. ApartInv'
    <2> SUFFICES ASSUME ctl.format = "flac", ~Raced PROVE ApartInv'
        BY <1>2, <1>9 DEF ApartInv
    <2>1. block \notin Placed /\ wr.pc \notin {"preserve", "rescue"}
        BY <1>1, <1>2 DEF LegacyInv, OwnInv, WriterInv, block
    <2>2. ApartInv /\ InHand' = InHand
        BY <1>7, <2>1 DEF LegacyInv
    <2>3. ASSUME NEW i \in Queued', NEW j \in Queued', i # j PROVE Cell(i)' # Cell(j)'
        <3>1. \A k \in Queued : Cell(k) # block
            BY <2>1, WaitingCells DEF Placed
        <3>2. CASE i \in Queued /\ j \in Queued
            BY <1>5, <2>2, <2>3, <3>2 DEF ApartInv
        <3>3. CASE i = ring.w /\ j \in Queued
            BY <1>5, <3>1, <3>3
        <3>4. CASE i \in Queued /\ j = ring.w
            BY <1>5, <3>1, <3>4
        <3> QED
            BY <1>5, <2>3, <3>2, <3>3, <3>4
    <2> QED
        BY <1>2, <1>5, <1>9, <2>1, <2>2, <2>3 DEF ApartInv, Placed, Distinct
<1>17. CompleteInv'
    <2> SUFFICES ASSUME Healthy PROVE CompleteInv'
        BY <1>9 DEF CompleteInv
    <2>1. wr.pc \notin {"preserve", "rescue"} /\ (wr.pc = "exited" => ~ctl.recording)
          /\ (wr.pc = "spill" /\ wr.last => ~ctl.recording)
        BY <1>1 DEF WriterInv
    <2>2. Placed' = Placed \cup {block}
        BY <1>5, <1>7, <1>9, <2>1 DEF Placed
    <2> QED
        BY <1>2, <1>4, <1>8, <1>9, <2>1, <2>2 DEF LegacyInv, CompleteInv
<1>18. OrderInv'
    <2> SUFFICES ASSUME ~hist.spilled PROVE OrderInv'
        BY <1>8 DEF OrderInv, Ordered
    <2>1. block[2] = ext.taken
        BY <1>1, <1>2 DEF PhaseInv, block
    <2>2. OrderInv
        BY DEF LegacyInv
    <2>3. ASSUME ~Raced, NEW i \in DOMAIN file, NEW k \in Queued' PROVE file[i][2] < Cell(k)'[2]
        <3>1. CASE k \in Queued
            BY <1>5, <2>2, <2>3, <3>1 DEF OrderInv, Ordered
        <3>2. CASE k = ring.w
            BY <1>2, <1>5, <2>1, <2>2, <2>3, <3>2 DEF OrderInv, Ordered
        <3> QED
            BY <1>5, <2>3, <3>1, <3>2
    <2>4. ASSUME ~Raced, NEW k \in Queued', NEW l \in Queued', k < l PROVE Cell(k)'[2] < Cell(l)'[2]
        <3>1. CASE k \in Queued /\ l \in Queued
            BY <1>5, <2>2, <2>4, <3>1 DEF OrderInv, Ordered
        <3>2. CASE k \in Queued /\ l = ring.w
            BY <1>2, <1>5, <2>1, <2>2, <2>4, <3>2 DEF OrderInv, Ordered
        <3>3. CASE k = ring.w /\ l \in Queued
            BY <1>3, <2>4, <3>3 DEF Queued
        <3>4. CASE k = ring.w /\ l = ring.w
            BY <1>3, <2>4, <3>4
        <3> QED
            BY <1>5, <2>4, <3>1, <3>2, <3>3, <3>4
    <2> QED
        BY <1>2, <1>6, <1>8, <1>9, <2>2, <2>3, <2>4 DEF OrderInv, Ordered
<1>19. GrantInv'
    <2>1. ring'.cells = Copied
        BY <1>1 DEF EndWrite, Types, RingType
    <2> QED
        BY <1>2, <2>1, CopiedInv
<1> QED
    BY <1>11, <1>12, <1>13, <1>14, <1>15, <1>16, <1>17, <1>18, <1>19 DEF LegacyInv

(* After a reset the first cell is published, with the block or without.   *)
LEMMA EndWriteElsewhere ==
    ASSUME LegacyInv, EndWrite, ext.at # ring.w % RingSize PROVE LegacyInv'
<1> DEFINE block == ext.block
           times == InTime(block)
           cells == Copied
           n == ring.w + 1
<1>1. Typed /\ Types /\ PhaseInv /\ WriterInv /\ GrantInv /\ SpillInv
    BY LegacyTyped DEF LegacyInv
<1>2. /\ ext.pc = "granted" /\ ~Full /\ ext' = HandedOver
      /\ ring' = [ring EXCEPT !.cells = cells, !.w = n]
      /\ hist' = [hist EXCEPT !.inTime = times]
      /\ UNCHANGED <<ctl, spill, wr, file>>
    BY <1>1 DEF EndWrite, PhaseInv
<1>3. /\ block \in Blocks /\ ring.w = 0 /\ ring.r = 0 /\ RingSize \in Nat \ {0} /\ Raced
      /\ ring.cells[0] \in hist.late /\ ring.cells[0][2] <= ext.taken
      /\ ext.at \in 0 .. RingSize - 1 /\ ring.cells \in [0 .. RingSize - 1 -> Blocks]
      /\ 0 \in 0 .. RingSize - 1
    <2>1. block \in Blocks /\ RingSize \in Nat \ {0} /\ ring.r \in Nat /\ ring.r <= ring.w
          /\ ring.cells \in [0 .. RingSize - 1 -> Blocks]
        BY <1>1 DEF Typed
    <2>2. ext.at \in 0 .. RingSize - 1 /\ Raced /\ ring.w = 0 /\ ring.cells[0] \in hist.late
        BY <1>1, <1>2 DEF GrantInv
    <2>3. 0 \in 0 .. RingSize - 1
        BY <2>1
    <2>4. ring.cells[0][2] <= ext.taken
        BY <1>1, <2>3 DEF GrantInv
    <2>5. ring.r = 0
        BY <2>1, <2>2
    <2> QED
        BY <2>1, <2>2, <2>3, <2>4, <2>5
<1>4. n = 1 /\ n \in Nat /\ cells \in [0 .. RingSize - 1 -> Blocks]
    BY <1>3 DEF Copied
<1>5. times \in SUBSET Blocks
    BY <1>3, Timely
<1>6. /\ ext' \in ExtType /\ ext'.pc = "idle" /\ ext'.taken = ext.taken
      /\ Extracted = {block} /\ Extracted' = {} /\ ~ExtractionInside'
    BY <1>2, Handed
<1> HIDE DEF cells, n, times
<1>7. /\ ring' \in RingType /\ ring'.r = ring.r /\ ring'.w = n /\ ring'.cells = cells
    BY <1>1, <1>2, <1>4 DEF Types, RingType
<1>8. /\ GrantInv'
      /\ \A c \in 0 .. RingSize - 1 : ring'.cells[c] \in {ring.cells[c], block}
    BY <1>2, <1>7, CopiedInv DEF cells
<1>9. /\ InHand' \subseteq InHand \cup {block}
    BY <1>2, <1>3, <1>8, HeldBeside
<1>10. Waiting' \subseteq {ring.cells[0], block}
    <2>1. \A x : x \in Waiting' <=> \E i \in Queued' : x = Cell(i)'
        BY DEF Waiting, Cell, Queued
    <2>2. Queued' = {0}
        BY <1>3, <1>4, <1>7 DEF Queued
    <2>3. Cell(0)' = ring'.cells[0]
        BY <1>3 DEF Cell
    <2> QED
        BY <1>3, <1>8, <2>1, <2>2, <2>3
<1>11. /\ hist'.inTime = times /\ hist'.failed = hist.failed /\ hist'.late = hist.late
       /\ hist'.spilled = hist.spilled /\ hist'.refused = hist.refused
       /\ hist'.mishaps = hist.mishaps /\ hist' \in HistType
    BY <1>1, <1>2, <1>5 DEF Types, HistType
<1>12. /\ Unread' = Unread /\ InSpill' = InSpill /\ OnDisk' = OnDisk
       /\ InFile' = InFile /\ FromRing' = FromRing /\ ~Healthy' /\ Raced'
       /\ WriterInside' = WriterInside
    BY <1>2, <1>3, <1>11, SpillKept DEF InFile, FromRing, Healthy, Raced, WriterInside
<1>13. Types'
    BY <1>1, <1>2, <1>6, <1>7, <1>11 DEF Types
<1>14. PhaseInv'
    BY <1>2, <1>6 DEF LegacyInv, PhaseInv
<1>15. WriterInv'
    <2>1. ring'.r <= ring'.w /\ ring'.w - ring'.r <= RingSize /\ ~(ring.r < ring.w)
        BY <1>3, <1>4, <1>7
    <2> QED
        BY <1>1, <1>2, <1>12, <2>1 DEF WriterInv
<1>16. SpillInv'
    BY <1>1, <1>2, <1>12 DEF SpillInv, EmptySpill
<1>17. OwnInv'
    <2> PICK first : first = ring.cells[0]
        OBVIOUS
    <2>1. /\ ext.taken \in Nat /\ OwnInv /\ \A b : Own(b) => Own(b)'
        BY <1>1, <1>2, <1>3, <1>11, <1>12 DEF LegacyInv, Typed, Own
    <2>2. Own(first)'
        BY <1>3, <1>11 DEF Own
    <2>3. Placed' \cup OnDisk' \subseteq Placed \cup OnDisk \cup {first, block}
        BY <1>9, <1>10, <1>12 DEF Placed
    <2>4. ASSUME NEW b \in Placed' \cup OnDisk' PROVE Own(b)' /\ b[2] <= ext.taken
        <3>1. CASE b = first
            BY <1>3, <2>2, <3>1
        <3>2. CASE b \in Placed \cup OnDisk \cup Extracted
            BY <2>1, <3>2 DEF OwnInv
        <3> QED
            BY <1>6, <2>3, <3>1, <3>2
    <2> QED
        BY <1>6, <2>4 DEF OwnInv
<1>18. ApartInv' /\ CompleteInv'
    BY <1>12 DEF ApartInv, CompleteInv
<1>19. OrderInv'
    BY <1>2, <1>11, <1>12 DEF LegacyInv, OrderInv
<1> QED
    BY <1>8, <1>13, <1>14, <1>15, <1>16, <1>17, <1>18, <1>19 DEF LegacyInv

LEMMA EndWriteInv == ASSUME LegacyInv, EndWrite PROVE LegacyInv'
BY EndWriteInPlace, EndWriteElsewhere

(* The block is lost in the ring: not a healthy recording any more.        *)
LEMMA EndWriteRefusedInv == ASSUME LegacyInv, EndWriteRefused PROVE LegacyInv'
<1> DEFINE block == ext.block
           times == InTime(block)
           harm == hist.mishaps \cup {"unpublished"}
<1>1. Typed /\ Types /\ PhaseInv /\ WriterInv /\ GrantInv
    BY LegacyTyped DEF LegacyInv
<1>2. /\ ext.pc = "granted" /\ ~Full /\ Wrapping /\ ext' = HandedOver
      /\ ring' = [ring EXCEPT !.cells = [ring.cells EXCEPT ![ring.w % RingSize] = block]]
      /\ hist' = [hist EXCEPT !.inTime = times, !.mishaps = harm]
      /\ UNCHANGED <<ctl, spill, wr, file>>
    <2>1. ext.at = ring.w % RingSize
        <3>1. ring.r < ring.w /\ ring.r \in Nat /\ ring.w \in Nat /\ ext.pc = "granted"
            BY <1>1 DEF EndWriteRefused, Wrapping, WriterInv, Typed
        <3>2. ring.w # 0
            BY <3>1
        <3> QED
            BY <1>1, <3>1, <3>2 DEF GrantInv
    <2> QED
        BY <1>1, <2>1 DEF EndWriteRefused, Copied, PhaseInv, Mishap
<1>3. block \in Blocks
    BY <1>1 DEF Typed
<1>4. times \in SUBSET Blocks /\ harm \subseteq {"raced", "unread", "unpublished"} /\ harm # {}
    BY <1>1, <1>3, Timely DEF Types, HistType
<1>5. /\ ring' \in RingType /\ ring'.r = ring.r /\ ring'.w = ring.w
      /\ Queued' = Queued /\ \A i \in Queued : Cell(i)' = Cell(i)
      /\ Waiting' = Waiting
    BY <1>2, <1>3, Overwritten
<1>6. /\ ext' \in ExtType /\ ext'.pc = "idle" /\ ext'.taken = ext.taken
      /\ Extracted = {block} /\ Extracted' = {} /\ ~ExtractionInside'
    BY <1>2, Handed
<1>7. /\ FromRing' = FromRing /\ WriterInside' = WriterInside /\ InHand' = InHand
    <2>1. wr.pc \in {"write", "respill"} /\ FromRing
        BY <1>2 DEF Wrapping
    <2> QED
        BY <1>2, <2>1 DEF FromRing, WriterInside, InHand
<1> HIDE DEF block, times
<1>8. "raced" \in harm <=> Raced
    BY DEF Raced
<1> HIDE DEF harm
<1>9. /\ hist'.inTime = times /\ hist'.failed = hist.failed /\ hist'.late = hist.late
      /\ hist'.spilled = hist.spilled /\ hist'.refused = hist.refused
      /\ hist'.mishaps = harm /\ hist' \in HistType
    BY <1>1, <1>2, <1>4 DEF Types, HistType
<1>10. /\ Unread' = Unread /\ InSpill' = InSpill /\ OnDisk' = OnDisk
       /\ InFile' = InFile /\ ~Healthy' /\ Raced' = Raced
    BY <1>2, <1>4, <1>8, <1>9, SpillKept DEF InFile, Healthy, Raced
<1>11. Placed' = Placed
    BY <1>5, <1>7, <1>10 DEF Placed
<1>12. Types'
    BY <1>1, <1>2, <1>5, <1>6, <1>9 DEF Types
<1>13. PhaseInv'
    BY <1>2, <1>6 DEF LegacyInv, PhaseInv
<1>14. WriterInv'
    BY <1>1, <1>2, <1>5, <1>7, <1>10 DEF WriterInv
<1>15. SpillInv'
    BY <1>2, <1>6, <1>7, <1>10 DEF LegacyInv, SpillInv, EmptySpill
<1>16. OwnInv'
    BY <1>2, <1>9, <1>10, <1>11, OwnHanded
<1>17. ApartInv'
    BY <1>2, <1>5, <1>7, <1>10 DEF LegacyInv, ApartInv, Distinct
<1>18. CompleteInv'
    BY <1>10 DEF CompleteInv
<1>19. OrderInv'
    BY <1>2, <1>5, <1>6, <1>7, <1>9, <1>10 DEF LegacyInv, OrderInv, Ordered
<1>20. GrantInv'
    <2>1. ring'.cells = Copied
        BY <1>1 DEF EndWriteRefused, Types, RingType
    <2> QED
        BY <1>2, <2>1, CopiedInv
<1> QED
    BY <1>12, <1>13, <1>14, <1>15, <1>16, <1>17, <1>18, <1>19, <1>20 DEF LegacyInv

LEMMA EndSpillInv == ASSUME LegacyInv, EndSpill PROVE LegacyInv'
<1> DEFINE block == ext.block
           times == InTime(block)
<1>1. Typed /\ Types /\ SpillInv /\ PhaseInv /\ WriterInv
    BY LegacyTyped DEF LegacyInv
<1>2. /\ ext.pc = "spill" /\ ext' = HandedOver /\ Spilled(block, ext.at)
      /\ hist' = [hist EXCEPT !.spilled = TRUE, !.inTime = times]
      /\ UNCHANGED <<ctl, ring, wr, file>>
    BY DEF EndSpill
<1>3. block \in Blocks /\ ext.at \in Nat
    BY <1>1 DEF Typed
<1>4. /\ times \in SUBSET Blocks /\ times \subseteq hist.inTime \cup {block}
      /\ ~ctl.recording => times = hist.inTime
    BY <1>3, Timely
<1>5. /\ ext' \in ExtType /\ ext'.pc = "idle" /\ ext'.taken = ext.taken
      /\ Extracted = {block} /\ Extracted' = {} /\ ~ExtractionInside'
    BY <1>2, Handed
<1>6. /\ spill' \in SpillType /\ spill'.opened = spill.opened
      /\ OnDisk' \subseteq OnDisk \cup {block, NoBlock}
      /\ ~spill.opened => spill' = spill
    BY <1>1, <1>2, <1>3, SpilledType DEF Types
<1>7. /\ InSpill' \subseteq OnDisk' /\ InSpill \subseteq OnDisk
    BY UnreadOnDisk DEF InSpill, OnDisk, Range
<1>8. Waiting' = Waiting /\ Queued' = Queued /\ \A i : Cell(i)' = Cell(i)
    BY <1>2, Unmoved
<1>9. ~Raced /\ spill.opened =>
         /\ ~WriterInside /\ spill'.r <= spill'.w /\ spill'.w = Len(spill'.data)
         /\ InSpill' = InSpill \cup {block} /\ OnDisk' \subseteq OnDisk \cup {block}
         /\ (\A i, j \in Unread : i # j => spill.data[i] # spill.data[j])
            /\ block \notin InSpill =>
               \A i, j \in Unread' : i # j => spill'.data[i] # spill'.data[j]
    <2> SUFFICES ASSUME ~Raced, spill.opened
                 PROVE  /\ ~WriterInside /\ spill'.r <= spill'.w /\ spill'.w = Len(spill'.data)
                        /\ InSpill' = InSpill \cup {block} /\ OnDisk' \subseteq OnDisk \cup {block}
                        /\ (\A i, j \in Unread : i # j => spill.data[i] # spill.data[j])
                           /\ block \notin InSpill =>
                              \A i, j \in Unread' : i # j => spill'.data[i] # spill'.data[j]
        OBVIOUS
    <2>1. /\ ExtractionInside /\ ~WriterInside /\ ext.at = spill.w
          /\ spill.r <= spill.w /\ spill.w = Len(spill.data)
        BY <1>1, <1>2 DEF SpillInv, ExtractionInside
    <2>2. Spilled(block, spill.w) /\ spill \in SpillType
        BY <1>1, <1>2, <2>1 DEF Types
    <2> HIDE DEF block
    <2>3. /\ spill'.r = spill.r /\ spill'.w = spill.w + 1 /\ Len(spill'.data) = spill'.w
          /\ InSpill' = InSpill \cup {block} /\ OnDisk' \subseteq OnDisk \cup {block}
          /\ (\A i, j \in Unread : i # j => spill.data[i] # spill.data[j])
              /\ block \notin InSpill =>
                 \A i, j \in Unread' : i # j => spill'.data[i] # spill'.data[j]
        BY <1>3, <2>1, <2>2, SpilledBehind
    <2>4. spill'.r <= spill'.w
        BY <2>1, <2>2, <2>3 DEF SpillType
    <2> QED
        BY <2>1, <2>3, <2>4
<1>10. ~Raced /\ ~spill.opened =>
          ~ctl.recording /\ InSpill' = InSpill /\ OnDisk' = OnDisk /\ Unread' = Unread
    BY <1>1, <1>2, <1>6, SpillKept DEF SpillInv, ExtractionInside
<1> HIDE DEF block, times
<1>11. /\ hist'.inTime = times /\ hist'.failed = hist.failed /\ hist'.late = hist.late
       /\ hist'.spilled = TRUE /\ hist'.refused = hist.refused
       /\ hist'.mishaps = hist.mishaps /\ hist' \in HistType
    BY <1>1, <1>2, <1>4 DEF Types, HistType
<1>12. /\ InFile' = InFile /\ FromRing' = FromRing /\ InHand' = InHand
       /\ Healthy' = Healthy /\ Raced' = Raced /\ WriterInside' = WriterInside
    BY <1>2, <1>11 DEF InFile, FromRing, Held, InHand, Healthy, Raced, WriterInside
<1>13. Types'
    BY <1>1, <1>2, <1>5, <1>6, <1>11 DEF Types
<1>14. PhaseInv'
    BY <1>2, <1>5 DEF LegacyInv, PhaseInv
<1>15. WriterInv'
    BY <1>1, <1>2, <1>12 DEF WriterInv
<1>16. SpillInv'
    <2>1. ~spill'.opened => spill' = EmptySpill(FALSE)'
        BY <1>1, <1>6 DEF SpillInv, EmptySpill
    <2>2. ASSUME ~Raced'
          PROVE  /\ spill'.r <= spill'.w /\ spill'.w = Len(spill'.data)
                 /\ WriterInside' /\ spill'.opened => wr'.at = spill'.w
        BY <1>1, <1>6, <1>9, <1>12, <2>2 DEF SpillInv
    <2> QED
        BY <1>5, <2>1, <2>2 DEF SpillInv
<1>17. OwnInv'
    <2>1. Placed' \cup OnDisk' \subseteq Placed \cup OnDisk \cup {block, NoBlock}
        BY <1>6, <1>7, <1>8, <1>12 DEF Placed
    <2>2. ~Raced => Placed' \cup OnDisk' \subseteq Placed \cup OnDisk \cup {block}
        BY <1>8, <1>9, <1>10, <1>12 DEF Placed
    <2> QED
        BY <1>2, <1>11, <1>12, <2>1, <2>2, OwnHanded DEF block
<1>18. ApartInv'
    <2> SUFFICES ASSUME ctl.format = "flac", ~Raced PROVE ApartInv'
        BY <1>2, <1>12 DEF ApartInv
    <2>1. block \notin Placed /\ ApartInv
        BY <1>1, <1>2 DEF LegacyInv, OwnInv, block
    <2>2. CASE spill.opened
        <3>1. \A i, j \in Unread' : i # j => spill'.data[i] # spill'.data[j]
            BY <1>9, <2>1, <2>2 DEF ApartInv, Placed
        <3>2. /\ Waiting' \cap InSpill' = {} /\ InSpill' \cap InFile' = {}
              /\ InSpill' \cap InHand' = {}
            BY <1>8, <1>9, <1>12, <2>1, <2>2 DEF ApartInv, Placed
        <3> QED
            BY <1>2, <1>8, <1>12, <2>1, <3>1, <3>2 DEF ApartInv, Distinct
    <2>3. CASE ~spill.opened
        BY <1>2, <1>6, <1>8, <1>10, <1>12, <2>1, <2>3 DEF ApartInv, Distinct
    <2> QED
        BY <2>2, <2>3
<1>19. CompleteInv'
    <2> SUFFICES ASSUME Healthy PROVE CompleteInv'
        BY <1>12 DEF CompleteInv
    <2>1. /\ wr.pc = "exited" => ~ctl.recording
          /\ wr.pc = "spill" /\ wr.last => ~ctl.recording
          /\ ~Raced
        BY <1>1 DEF WriterInv, Healthy, Raced
    <2>2. CASE spill.opened
        <3>1. Placed' = Placed \cup {block}
            BY <1>8, <1>9, <1>12, <2>1, <2>2 DEF Placed
        <3> QED
            BY <1>2, <1>4, <1>9, <1>11, <1>12, <2>1, <2>2, <3>1 DEF LegacyInv, CompleteInv
    <2>3. CASE ~spill.opened
        <3>1. Placed' = Placed /\ times = hist.inTime
            BY <1>4, <1>8, <1>10, <1>12, <2>1, <2>3 DEF Placed
        <3> QED
            BY <1>2, <1>10, <1>11, <1>12, <2>1, <2>3, <3>1 DEF LegacyInv, CompleteInv
    <2> QED
        BY <2>2, <2>3
<1>20. OrderInv'
    BY <1>11 DEF OrderInv, Ordered
<1>21. GrantInv'
    BY <1>2, <1>5 DEF LegacyInv, GrantInv
<1> QED
    BY <1>13, <1>14, <1>15, <1>16, <1>17, <1>18, <1>19, <1>20, <1>21 DEF LegacyInv

(* Nothing takes the block.                                                *)
LEMMA DroppedInv == ASSUME LegacyInv, Dropped PROVE LegacyInv'
<1> DEFINE fewer == hist.failed \ {ext.block}
<1>1. Types
    BY DEF LegacyInv
<1>2. /\ ext.pc # "idle" /\ ext' = HandedOver
      /\ hist' = [hist EXCEPT !.refused = TRUE, !.failed = fewer]
      /\ ctl' \in {ctl, [ctl EXCEPT !.stopRequested = TRUE]}
      /\ UNCHANGED <<ring, spill, wr, file>>
    BY DEF Dropped, Refused
<1>3. fewer \in SUBSET Blocks
    BY <1>1 DEF Types, HistType
<1> HIDE DEF fewer
<1>4. /\ hist'.refused /\ hist'.inTime = hist.inTime /\ hist'.late = hist.late
      /\ hist'.spilled = hist.spilled /\ hist'.mishaps = hist.mishaps /\ hist' \in HistType
    BY <1>1, <1>2, <1>3 DEF Types, HistType
<1>5. /\ ctl' \in CtlType
      /\ UNCHANGED <<ctl.phase, ctl.session, ctl.format, ctl.recording, ctl.enabled>>
    BY ZenonT(30), <1>1, <1>2 DEF Types, CtlType
<1>6. /\ ext' \in ExtType /\ ext'.pc = "idle" /\ ext'.taken = ext.taken
      /\ Extracted' = {} /\ ~ExtractionInside'
    BY <1>2, Handed
<1>7. /\ Waiting' = Waiting /\ Queued' = Queued /\ \A i : Cell(i)' = Cell(i)
      /\ Unread' = Unread /\ InSpill' = InSpill /\ OnDisk' = OnDisk
    BY <1>2, Unmoved, SpillKept
<1>8. /\ InFile' = InFile /\ InHand' = InHand /\ FromRing' = FromRing
      /\ ~Healthy' /\ Raced' = Raced /\ WriterInside' = WriterInside
    BY <1>2, <1>4 DEF InFile, InHand, Held, FromRing, Healthy, Raced, WriterInside
<1>9. Placed' = Placed
    BY <1>7, <1>8 DEF Placed
<1>10. Types'
    BY <1>1, <1>2, <1>4, <1>5, <1>6 DEF Types
<1>11. PhaseInv'
    BY <1>2, <1>5, <1>6 DEF LegacyInv, PhaseInv
<1>12. WriterInv'
    BY <1>2, <1>5, <1>8 DEF LegacyInv, WriterInv
<1>13. SpillInv'
    BY <1>2, <1>5, <1>6, <1>8 DEF LegacyInv, SpillInv, EmptySpill
<1>14. OwnInv'
    BY <1>2, <1>4, <1>5, <1>7, <1>8, <1>9, OwnHanded
<1>15. ApartInv'
    BY <1>2, <1>5, <1>7, <1>8 DEF LegacyInv, ApartInv, Distinct
<1>16. CompleteInv'
    BY <1>8 DEF CompleteInv
<1>17. OrderInv'
    BY <1>2, <1>4, <1>6, <1>7, <1>8 DEF LegacyInv, OrderInv, Ordered
<1>18. GrantInv'
    BY <1>2, <1>6 DEF LegacyInv, GrantInv
<1> QED
    BY <1>10, <1>11, <1>12, <1>13, <1>14, <1>15, <1>16, <1>17, <1>18 DEF LegacyInv

LEMMA HandOverInv == ASSUME LegacyInv, HandOver PROVE LegacyInv'
BY BeginWriteInv, BeginSpillInv, DroppedInv, EndWriteInv, EndWriteRefusedInv, EndSpillInv
   DEF HandOver

-----------------------------------------------------------------------------
(* The writer thread's steps.                                              *)

(* The writer moves on without touching a block.                           *)
LEMMA WriterMoves ==
    ASSUME LegacyInv, wr.pc \in {"top", "ring", "spill"},
           UNCHANGED <<ext, ring, spill, file>>,
           ctl' \in {ctl, [ctl EXCEPT !.stopRequested = TRUE]},
           hist' \in {hist, [hist EXCEPT !.mishaps = Mishap("unread")]},
           NEW place \in {"top", "ring", "spill", "exited"}, NEW last \in BOOLEAN,
           wr' = [wr EXCEPT !.pc = place, !.last = last],
           place \in {"ring", "spill"} /\ last => ~ctl.recording,
           Healthy /\ hist' = hist /\ place = "exited" => ~ctl.recording,
           Healthy /\ hist' = hist /\ place = "spill" /\ last =>
               hist.inTime \subseteq InSpill \cup InFile,
           Healthy /\ hist' = hist /\ place = "exited" => hist.inTime \subseteq InFile
    PROVE  LegacyInv'
<1>1. Types /\ Typed
    BY LegacyTyped DEF LegacyInv
<1>2. /\ wr'.pc = place /\ wr'.last = last /\ UNCHANGED <<wr.error, wr.cell, wr.copy, wr.at>>
      /\ wr' \in WriterType
    BY <1>1 DEF Types, WriterType
<1>3. /\ ctl' \in CtlType
      /\ UNCHANGED <<ctl.phase, ctl.session, ctl.format, ctl.recording, ctl.enabled>>
    BY ZenonT(30), <1>1 DEF Types, CtlType
<1>4. /\ hist' \in HistType /\ hist'.inTime = hist.inTime /\ hist'.late = hist.late
      /\ hist'.failed = hist.failed /\ hist'.refused = hist.refused
      /\ hist'.spilled = hist.spilled /\ Raced' = Raced /\ (Healthy' => Healthy /\ hist' = hist)
    <2> DEFINE harm == hist.mishaps \cup {"unread"}
    <2>1. harm \subseteq {"raced", "unread", "unpublished"} /\ harm # {}
          /\ ("raced" \in harm <=> Raced)
        BY <1>1 DEF Types, HistType, Raced
    <2> HIDE DEF harm
    <2>2. CASE hist' = hist
        BY <1>1, <2>2 DEF Types, Raced, Healthy
    <2>3. CASE hist' = [hist EXCEPT !.mishaps = harm]
        <3>1. /\ hist'.mishaps = harm /\ hist' \in HistType /\ hist'.inTime = hist.inTime
              /\ hist'.late = hist.late /\ hist'.failed = hist.failed
              /\ hist'.refused = hist.refused /\ hist'.spilled = hist.spilled
            BY <1>1, <2>1, <2>3 DEF Types, HistType
        <3> QED
            BY <2>1, <3>1 DEF Raced, Healthy
    <2> QED
        BY <2>2, <2>3 DEF harm, Mishap
<1>5. /\ Waiting' = Waiting /\ Queued' = Queued /\ \A i : Cell(i)' = Cell(i)
      /\ Unread' = Unread /\ InSpill' = InSpill /\ OnDisk' = OnDisk
    BY Unmoved, SpillKept
<1>6. /\ InFile' = InFile /\ InHand = {} /\ InHand' = {} /\ FromRing' = FromRing
      /\ ExtractionInside' = ExtractionInside /\ ~WriterInside /\ ~WriterInside'
    BY <1>2 DEF InFile, InHand, FromRing, ExtractionInside, WriterInside
<1>7. Placed' = Placed
    BY <1>5, <1>6 DEF Placed
<1>8. Types'
    BY <1>1, <1>2, <1>3, <1>4 DEF Types
<1>9. PhaseInv' /\ ctl.phase \notin {"idle", "finalized"}
    BY <1>2, <1>3 DEF LegacyInv, PhaseInv, Full
<1>10. WriterInv'
    BY <1>2, <1>3, <1>4, <1>6 DEF LegacyInv, WriterInv
<1>11. SpillInv'
    BY <1>3, <1>4, <1>6 DEF LegacyInv, SpillInv, EmptySpill
<1>12. OwnInv'
    BY <1>3, <1>4, <1>5, <1>7, OwnKept
<1>13. ApartInv'
    BY <1>3, <1>4, <1>5, <1>6 DEF LegacyInv, ApartInv, Distinct
<1>14. CompleteInv'
    BY <1>2, <1>3, <1>4, <1>5, <1>6, <1>7, <1>9 DEF LegacyInv, CompleteInv
<1>15. OrderInv'
    BY <1>2, <1>4, <1>5, <1>6 DEF LegacyInv, OrderInv, Ordered
<1>16. GrantInv'
    BY <1>4, GrantKept
<1> QED
    BY <1>8, <1>9, <1>10, <1>11, <1>12, <1>13, <1>14, <1>15, <1>16 DEF LegacyInv

LEMMA WriterTopInv == ASSUME LegacyInv, WriterTop PROVE LegacyInv'
<1>1. wr.pc = "top" /\ UNCHANGED <<ext, ring, spill, file, hist>> /\ Types
    BY DEF WriterTop, LegacyInv
<1>2. CASE Draining /\ ctl.local
    <2>1. /\ wr' = [wr EXCEPT !.pc = "exited", !.last = wr.last]
          /\ ctl' \in {ctl, [ctl EXCEPT !.stopRequested = TRUE]} /\ wr.last \in BOOLEAN
        BY ZenonT(30), <1>1, <1>2 DEF WriterTop, Types, WriterType
    <2>2. ~Healthy
        BY <1>2 DEF LegacyInv, WriterInv, Draining
    <2> QED
        BY <1>1, <2>1, <2>2, WriterMoves
<1>3. CASE ~(Draining /\ ctl.local)
    <2> DEFINE last == ~ctl.recording
    <2>1. /\ wr' = [wr EXCEPT !.pc = "ring", !.last = last] /\ ctl' = ctl
          /\ last \in BOOLEAN /\ (last => ~ctl.recording)
        BY <1>1, <1>3 DEF WriterTop
    <2> HIDE DEF last
    <2> QED
        BY <1>1, <2>1, WriterMoves
<1> QED
    BY <1>2, <1>3

(* The end of a look that found nothing.                                   *)
LEMMA NothingInv ==
    ASSUME LegacyInv, wr.pc \in {"ring", "spill"}, wr' = Nothing,
           UNCHANGED <<ctl, ext, ring, spill, file>>,
           hist' \in {hist, [hist EXCEPT !.mishaps = Mishap("unread")]},
           Healthy /\ hist' = hist /\ wr.last => hist.inTime \subseteq InFile
    PROVE  LegacyInv'
<1>1. Types
    BY DEF LegacyInv
<1>2. CASE wr.last
    <2>1. wr' = [wr EXCEPT !.pc = "exited", !.last = wr.last] /\ wr.last \in BOOLEAN
        BY <1>1, <1>2 DEF Nothing, Types, WriterType
    <2>2. ~ctl.recording
        BY <1>2 DEF LegacyInv, WriterInv
    <2> QED
        BY <1>2, <2>1, <2>2, WriterMoves
<1>3. CASE ~wr.last
    <2>1. wr' = [wr EXCEPT !.pc = "top", !.last = wr.last] /\ wr.last \in BOOLEAN
        BY <1>1, <1>3 DEF Nothing, Types, WriterType
    <2> QED
        BY <2>1, WriterMoves
<1> QED
    BY <1>2, <1>3

LEMMA ReadRingInv == ASSUME LegacyInv, ReadRing PROVE LegacyInv'
<1>1. /\ wr.pc = "ring" /\ UNCHANGED <<ctl, ext, ring, spill, file, hist>>
      /\ Types /\ Typed
    BY LegacyTyped DEF ReadRing, LegacyInv
<1>2. wr.last \in BOOLEAN /\ ring.r \in Nat /\ ring.w \in Nat
    BY <1>1 DEF Typed
<1>3. CASE ring.r < ring.w
    <2> DEFINE cell == ring.r % RingSize
    <2>1. wr' = [wr EXCEPT !.pc = "write", !.cell = cell]
        BY <1>3 DEF ReadRing
    <2>2. cell \in 0 .. RingSize - 1 /\ RingSize \in Nat
        BY <1>1, <1>2 DEF Typed
    <2>3. cell \in -1 .. RingSize - 1 /\ cell >= 0
        BY <2>2
    <2> HIDE DEF cell
    <2>4. /\ wr'.pc = "write" /\ wr'.cell = cell
          /\ UNCHANGED <<wr.last, wr.error, wr.copy, wr.at>> /\ wr' \in WriterType
        BY <1>1, <2>1, <2>3 DEF Types, WriterType
    <2>5. /\ Waiting' = Waiting /\ Queued' = Queued /\ \A i : Cell(i)' = Cell(i)
          /\ Unread' = Unread /\ InSpill' = InSpill /\ OnDisk' = OnDisk
        BY <1>1, Unmoved, SpillKept
    <2>6. /\ InFile' = InFile /\ InHand = {} /\ InHand' = {}
          /\ FromRing' /\ Healthy' = Healthy /\ Raced' = Raced
          /\ ExtractionInside' = ExtractionInside /\ ~WriterInside'
        BY <1>1, <2>3, <2>4
           DEF InFile, InHand, FromRing, Healthy, Raced, ExtractionInside, WriterInside
    <2>7. Placed' = Placed
        BY <2>5, <2>6 DEF Placed
    <2>8. Types'
        BY <1>1, <2>4 DEF Types
    <2>9. PhaseInv'
        BY <1>1, <2>4 DEF LegacyInv, PhaseInv, Full
    <2>10. WriterInv'
        BY <1>1, <1>3, <2>4, <2>6 DEF LegacyInv, WriterInv, cell
    <2>11. SpillInv'
        BY <1>1, <2>6 DEF LegacyInv, SpillInv, EmptySpill
    <2>12. OwnInv'
        BY <1>1, <2>5, <2>6, <2>7, OwnKept
    <2>13. ApartInv' /\ CompleteInv' /\ OrderInv'
        BY <1>1, <2>4, <2>5, <2>6, <2>7
        DEF LegacyInv, ApartInv, CompleteInv, OrderInv, Ordered, Distinct, PhaseInv
    <2>14. GrantInv'
        BY <1>1, <2>6, GrantKept
    <2> QED
        BY <2>8, <2>9, <2>10, <2>11, <2>12, <2>13, <2>14 DEF LegacyInv
<1>4. CASE ~(ring.r < ring.w) /\ Draining
    <2>1. wr' = Nothing
        BY <1>4 DEF ReadRing
    <2>2. ~Healthy
        BY <1>4 DEF LegacyInv, WriterInv, Draining
    <2> QED
        BY <1>1, <2>1, <2>2, NothingInv
<1>5. CASE ~(ring.r < ring.w) /\ ~Draining
    <2>1. wr' = [wr EXCEPT !.pc = "spill", !.last = wr.last]
        BY <1>1, <1>5 DEF ReadRing, Types, WriterType
    <2>2. wr.last => ~ctl.recording
        BY <1>1 DEF LegacyInv, WriterInv
    <2>3. Healthy => hist.inTime \subseteq InSpill \cup InFile
        <3>1. Queued = {}
            BY <1>2, <1>5 DEF Queued
        <3>2. Waiting = {} /\ InHand = {}
            BY <1>1, <3>1, WaitingCells DEF InHand
        <3>3. ctl.phase \notin {"idle", "finalized"}
            BY <1>1 DEF LegacyInv, PhaseInv
        <3> QED
            BY <3>2, <3>3 DEF LegacyInv, CompleteInv, Placed
    <2> QED
        BY <1>1, <1>2, <2>1, <2>2, <2>3, WriterMoves
<1> QED
    BY <1>3, <1>4, <1>5

LEMMA ReadSpillInv == ASSUME LegacyInv, ReadSpill PROVE LegacyInv'
<1> DEFINE head == spill.data[spill.r + 1]
<1>1. /\ wr.pc = "spill" /\ UNCHANGED <<ctl, ext, ring, file, hist>>
      /\ Unread # {} /\ spill.r < Len(spill.data)
      /\ wr' = [wr EXCEPT !.pc = "recycle", !.cell = -1, !.copy = head]
      /\ spill' = [spill EXCEPT !.r = @ + 1]
      /\ Types /\ Typed
    BY LegacyTyped DEF ReadSpill, LegacyInv
<1>2. /\ spill' \in SpillType /\ spill'.opened = spill.opened /\ spill'.w = spill.w
      /\ spill'.r = spill.r + 1 /\ spill'.data = spill.data
      /\ spill'.r <= spill.w
      /\ head \in Blocks /\ InSpill = InSpill' \cup {head} /\ OnDisk' = OnDisk
      /\ Unread' \subseteq Unread
      /\ (\A i, j \in Unread : i # j => spill.data[i] # spill.data[j]) => head \notin InSpill'
    BY <1>1, Taken DEF Types
<1> HIDE DEF head
<1> DEFINE none == -1
<1>3. none \in -1 .. RingSize - 1 /\ ~(none >= 0)
    BY LegacyAssumption
<1>4. wr' = [wr EXCEPT !.pc = "recycle", !.cell = none, !.copy = head] /\ none = -1
    BY <1>1
<1> HIDE DEF none
<1>5. /\ wr'.pc = "recycle" /\ wr'.cell = none /\ wr'.copy = head
      /\ UNCHANGED <<wr.last, wr.error, wr.at>> /\ wr' \in WriterType
    BY <1>1, <1>2, <1>3, <1>4 DEF Types, WriterType
<1>6. Waiting' = Waiting /\ Queued' = Queued /\ \A i : Cell(i)' = Cell(i)
    BY <1>1, Unmoved
<1>7. /\ InFile' = InFile /\ InHand = {} /\ InHand' = {head}
      /\ ~FromRing' /\ Healthy' = Healthy /\ Raced' = Raced
      /\ ExtractionInside' = ExtractionInside /\ ~WriterInside /\ ~WriterInside'
    BY <1>1, <1>3, <1>5
       DEF InFile, InHand, Held, FromRing, Healthy, Raced, ExtractionInside, WriterInside
<1>8. Placed' = Placed
    BY <1>2, <1>6, <1>7 DEF Placed
<1>9. Types'
    BY <1>1, <1>2, <1>5 DEF Types
<1>10. PhaseInv'
    BY <1>1, <1>5 DEF LegacyInv, PhaseInv, Full
<1>11. WriterInv'
    BY <1>1, <1>4, <1>5, <1>7 DEF LegacyInv, WriterInv
<1>12. SpillInv'
    <2>1. spill.opened
        <3>1. ~spill.opened => spill.r = 0 /\ spill.w = 0
            BY DEF LegacyInv, SpillInv, EmptySpill
        <3>2. spill.r # 0 \/ spill.w # 0
            BY <1>1 DEF Unread
        <3> QED
            BY <3>1, <3>2
    <2> QED
        BY <1>1, <1>2, <1>7, <2>1 DEF LegacyInv, SpillInv
<1>13. OwnInv'
    BY <1>1, <1>2, <1>7, <1>8, OwnKept
<1>14. ApartInv'
    <2> SUFFICES ASSUME ctl.format = "flac", ~Raced PROVE ApartInv'
        BY <1>1, <1>7 DEF ApartInv
    <2>1. /\ ApartInv /\ head \notin InSpill' /\ head \in InSpill
          /\ \A i, j \in Unread : i # j => spill.data[i] # spill.data[j]
        BY <1>2 DEF LegacyInv, ApartInv
    <2>2. /\ \A i, j \in Unread' : i # j => spill'.data[i] # spill'.data[j]
          /\ Distinct(file')
        BY <1>1, <1>2, <2>1 DEF ApartInv, Distinct
    <2> QED
        BY <1>2, <1>6, <1>7, <2>1, <2>2 DEF ApartInv
<1>15. CompleteInv'
    <2>1. ctl.phase \notin {"idle", "finalized"}
        BY <1>1 DEF LegacyInv, PhaseInv
    <2> QED
        BY <1>1, <1>5, <1>7, <1>8, <2>1 DEF LegacyInv, CompleteInv
<1>16. OrderInv'
    <2>1. hist.spilled
        <3>1. ~hist.spilled => spill.r = 0 /\ spill.w = 0
            BY DEF LegacyInv, OrderInv, Ordered
        <3>2. spill.r # 0 \/ spill.w # 0
            BY <1>1 DEF Unread
        <3> QED
            BY <3>1, <3>2
    <2> QED
        BY <1>1, <2>1 DEF OrderInv, Ordered
<1>17. GrantInv'
    BY <1>1, <1>7, GrantKept
<1> QED
    BY <1>9, <1>10, <1>11, <1>12, <1>13, <1>14, <1>15, <1>16, <1>17 DEF LegacyInv

LEMMA ReadNothingInv == ASSUME LegacyInv, ReadNothing PROVE LegacyInv'
<1>1. /\ wr.pc = "spill" /\ wr' = Nothing /\ UNCHANGED <<ctl, ext, ring, spill, file>>
      /\ hist' \in {hist, [hist EXCEPT !.mishaps = Mishap("unread")]}
      /\ Unread # {} /\ spill.r < Len(spill.data) /\ wr.last =>
            hist' = [hist EXCEPT !.mishaps = Mishap("unread")]
      /\ Types
    BY ZenonT(30) DEF ReadNothing, LegacyInv
<1>2. ASSUME Healthy, hist' = hist, wr.last PROVE hist.inTime \subseteq InFile
    <2>1. hist.mishaps = {} /\ "unread" \in Mishap("unread") /\ ~Raced
        BY <1>2 DEF Healthy, Mishap, Raced
    <2>2. hist' = [hist EXCEPT !.mishaps = Mishap("unread")] => FALSE
        <3>1. hist \in HistType
            BY <1>1 DEF Types
        <3> QED
            BY <1>2, <2>1, <3>1 DEF HistType
    <2>3. ~(Unread # {} /\ spill.r < Len(spill.data))
        BY <1>1, <1>2, <2>2
    <2>4. spill.r <= spill.w /\ spill.w = Len(spill.data) /\ spill.r \in Nat /\ spill.w \in Nat
        BY <1>1, <2>1 DEF LegacyInv, SpillInv, Types, SpillType
    <2>5. Unread = {}
        BY <2>3, <2>4 DEF Unread
    <2>6. InSpill = {}
        BY <2>5 DEF InSpill
    <2> QED
        BY <1>1, <1>2, <2>6 DEF LegacyInv, CompleteInv
<1> QED
    BY <1>1, <1>2, NothingInv

LEMMA RecycleInv == ASSUME LegacyInv, Recycle PROVE LegacyInv'
<1>1. /\ wr.pc = "recycle" /\ wr' = [wr EXCEPT !.pc = "write"]
      /\ UNCHANGED <<ctl, ext, ring, file>>
      /\ Types /\ Typed /\ WriterInv /\ SpillInv
    BY LegacyTyped DEF Recycle, LegacyInv
<1>2. wr.cell = -1 /\ ~FromRing /\ hist.spilled
    BY <1>1 DEF LegacyInv, WriterInv, FromRing, OrderInv, Ordered
<1>3. /\ wr'.pc = "write" /\ UNCHANGED <<wr.last, wr.error, wr.cell, wr.copy, wr.at>>
      /\ wr' \in WriterType
    BY <1>1 DEF Types, WriterType
<1>4. /\ Waiting' = Waiting /\ Queued' = Queued /\ \A i : Cell(i)' = Cell(i)
    BY <1>1, Unmoved
<1>5. /\ InFile' = InFile /\ InHand = {Held} /\ InHand' = InHand /\ ~FromRing'
      /\ ExtractionInside' = ExtractionInside /\ ~WriterInside'
    BY <1>1, <1>2, <1>3
       DEF InFile, InHand, Held, FromRing, ExtractionInside, WriterInside
<1>6. /\ hist' \in HistType /\ hist'.inTime = hist.inTime /\ hist'.failed = hist.failed
      /\ hist'.late = hist.late /\ hist'.spilled = hist.spilled
      /\ hist'.refused = hist.refused /\ hist.mishaps \subseteq hist'.mishaps
      /\ spill' \in SpillType /\ InSpill' = InSpill /\ Unread' \subseteq Unread
      /\ (spill' = spill \/ Unread' = {}) /\ OnDisk' \subseteq OnDisk
      /\ SpillInv'
    <2>1. CASE spill.w = spill.r
        <3>1. spill' = EmptySpill(TRUE) /\ hist' = RacedIf(ExtractionInside, hist)
            BY <2>1 DEF Recycle
        <3>2. /\ hist' \in HistType /\ hist'.inTime = hist.inTime /\ hist'.failed = hist.failed
              /\ hist'.late = hist.late /\ hist'.spilled = hist.spilled
              /\ hist'.refused = hist.refused /\ hist.mishaps \subseteq hist'.mishaps
              /\ ExtractionInside => Raced'
            <4>1. ExtractionInside \in BOOLEAN /\ hist \in HistType
                BY <1>1 DEF ExtractionInside, Types
            <4> QED
                BY <3>1, <4>1, Entered
        <3>3. /\ spill' \in SpillType /\ spill'.opened
              /\ spill'.w = 0 /\ spill'.r = 0 /\ Len(spill'.data) = 0
              /\ Unread' = {} /\ InSpill' = {} /\ OnDisk' = {}
            BY <3>1, Emptied
        <3>4. InSpill = {}
            <4>1. spill.w \in Nat
                BY <1>1 DEF Types, SpillType
            <4> QED
                BY <2>1, <4>1 DEF InSpill, Unread
        <3>5. SpillInv'
            BY <1>5, <3>2, <3>3 DEF SpillInv
        <3> QED
            BY <3>2, <3>3, <3>4, <3>5
    <2>2. CASE spill.w # spill.r
        <3>1. spill' = spill /\ hist' = hist
            BY <2>2 DEF Recycle
        <3>2. SpillInv'
            BY <1>1, <1>5, <3>1 DEF SpillInv, EmptySpill, Raced
        <3> QED
            BY <1>1, <3>1, <3>2, SpillKept DEF Types
    <2> QED
        BY <2>1, <2>2
<1>7. Placed' = Placed /\ (Healthy' => Healthy) /\ (Raced => Raced')
    BY <1>4, <1>5, <1>6 DEF Placed, Healthy, Raced
<1>8. Types'
    BY <1>1, <1>3, <1>6 DEF Types
<1>9. PhaseInv'
    BY <1>1, <1>3 DEF LegacyInv, PhaseInv, Full
<1>10. WriterInv'
    BY <1>1, <1>2, <1>3, <1>5, <1>7 DEF WriterInv
<1>11. OwnInv'
    BY <1>1, <1>6, <1>7, OwnKept
<1>12. ApartInv'
    BY <1>1, <1>4, <1>5, <1>6, <1>7 DEF LegacyInv, ApartInv, Distinct
<1>13. CompleteInv'
    BY <1>1, <1>3, <1>5, <1>6, <1>7 DEF LegacyInv, CompleteInv, PhaseInv
<1>14. OrderInv'
    BY <1>2, <1>6 DEF OrderInv, Ordered
<1>15. GrantInv'
    BY <1>1, <1>6, <1>7, GrantKept
<1> QED
    BY <1>6, <1>8, <1>9, <1>10, <1>11, <1>12, <1>13, <1>14, <1>15 DEF LegacyInv

(* The block in the writer's hands, and what releasing it does.            *)
LEMMA HeldPlaced ==
    ASSUME LegacyInv, wr.pc \in {"write", "respill", "preserve", "rescue"}
    PROVE  /\ Held \in Blocks /\ Held \in Placed
           /\ wr.pc \in {"write", "respill"} /\ FromRing =>
                 Held = Cell(ring.r) /\ ring.r < ring.w /\ InHand = {} /\ Held \in Waiting
           /\ wr.pc = "respill" => FromRing
           /\ wr.pc \in {"preserve", "rescue"} \/ ~FromRing => InHand = {Held}
<1>1. Typed /\ WriterInv /\ ring.r \in Nat /\ ring.w \in Nat
    BY LegacyTyped DEF LegacyInv, Typed
<1>2. Held \in Blocks
    BY <1>1 DEF Typed
<1>3. ASSUME FromRing, wr.pc \in {"write", "respill"}
      PROVE  Held = Cell(ring.r) /\ ring.r < ring.w /\ InHand = {} /\ Held \in Waiting
    <2>1. wr.cell = ring.r % RingSize /\ ring.r < ring.w
        BY <1>1, <1>3 DEF WriterInv
    <2>2. ring.r \in Queued
        BY <1>1, <2>1 DEF Queued
    <2> QED
        BY <1>3, <2>1, <2>2, WaitingCells DEF Held, Cell, InHand
<1>4. wr.pc = "respill" => FromRing
    BY <1>1 DEF WriterInv
<1>5. wr.pc \in {"preserve", "rescue"} \/ ~FromRing => InHand = {Held}
    BY <1>4 DEF InHand
<1> QED
    BY <1>2, <1>3, <1>4, <1>5 DEF Placed

(* The thread is done with the block.                                      *)
LEMMA LeftType ==
    ASSUME Types, NEW place \in {"top", "exited"}, NEW error \in BOOLEAN,
           wr' = [Leave(place) EXCEPT !.error = error]
    PROVE  /\ wr'.pc = place /\ wr'.cell = -1 /\ wr'.error = error /\ wr'.last = wr.last
           /\ wr' \in WriterType
           /\ ~FromRing' /\ InHand' = {} /\ ~WriterInside'
<1> DEFINE none == -1
           zero == 0
<1>1. /\ none \in -1 .. RingSize - 1 /\ zero \in Nat
      /\ wr' = [wr EXCEPT !.pc = place, !.cell = none, !.copy = NoBlock, !.at = zero,
                          !.error = error]
    BY LegacyAssumption DEF Leave
<1>2. none = -1
    OBVIOUS
<1> HIDE DEF none, zero
<1>3. /\ wr'.pc = place /\ wr'.cell = none /\ wr'.error = error /\ wr'.last = wr.last
      /\ wr' \in WriterType
    BY <1>1, Zeros DEF Types, WriterType
<1>4. ~FromRing'
    BY <1>2, <1>3 DEF FromRing
<1> QED
    BY <1>2, <1>3, <1>4 DEF InHand, WriterInside

(* The ring after the writer left a block that came from it, or did not.   *)
LEMMA RingLeft ==
    ASSUME LegacyInv, \/ UNCHANGED ring
                      \/ wr.pc \in {"write", "respill"} /\ FromRing /\ Release
    PROVE  /\ ring' \in RingType
           /\ ring'.r <= ring'.w /\ ring'.w - ring'.r <= RingSize /\ (~Full => ~Full')
           /\ Queued' \subseteq Queued /\ \A i : Cell(i)' = Cell(i)
           /\ Waiting' \subseteq Waiting /\ ring'.cells = ring.cells /\ ring'.w = ring.w
           /\ UNCHANGED ring => Waiting' = Waiting
           /\ wr.pc \in {"write", "respill"} /\ FromRing /\ Release =>
                 /\ Waiting = Waiting' \cup {Held}
                 /\ \A i \in Queued' : ring.r < i /\ ring.r \in Queued
                 /\ ctl.format = "flac" /\ ~Raced => Held \notin Waiting'
<1>1. CASE UNCHANGED ring /\ ~(wr.pc \in {"write", "respill"} /\ FromRing /\ Release)
    <2>1. Waiting' = Waiting /\ Queued' = Queued /\ \A i : Cell(i)' = Cell(i)
        BY <1>1, Unmoved
    <2>2. ring \in RingType /\ ring.r <= ring.w /\ ring.w - ring.r <= RingSize
        BY DEF LegacyInv, Types, WriterInv
    <2> QED
        BY <1>1, <2>1, <2>2 DEF Full
<1>2. CASE wr.pc \in {"write", "respill"} /\ FromRing /\ Release
    <2>1. Held = Cell(ring.r) /\ ring.r < ring.w
        BY <1>2, HeldPlaced
    <2>2. /\ ring' \in RingType
          /\ ring'.r = ring.r + 1 /\ ring'.w = ring.w
          /\ ring'.r <= ring'.w /\ ring'.w - ring'.r <= RingSize
          /\ ring'.cells = ring.cells
          /\ Queued = Queued' \cup {ring.r} /\ \A i \in Queued' : ring.r < i
          /\ \A i : Cell(i)' = Cell(i)
          /\ Waiting = Waiting' \cup {Held}
          /\ (\A i, j \in Queued : i # j => Cell(i) # Cell(j)) => Held \notin Waiting'
        BY <1>2, <2>1, Popped
    <2>3. ctl.format = "flac" /\ ~Raced => Held \notin Waiting'
        BY <2>2 DEF LegacyInv, ApartInv
    <2>4. ~Full' /\ ~UNCHANGED ring
        <3>1. ring.r \in Nat /\ ring.w \in Nat /\ RingSize \in Nat /\ ring.w - ring.r <= RingSize
            BY LegacyTyped DEF Typed
        <3> QED
            BY <2>2, <3>1 DEF Full
    <2> QED
        BY <2>2, <2>3, <2>4
<1> QED
    BY <1>1, <1>2

(* The block is in the file.                                               *)
LEMMA WriteBlockInv == ASSUME LegacyInv, WriteBlock PROVE LegacyInv'
<1>1. /\ wr.pc = "write" /\ UNCHANGED <<ctl, ext, spill, hist>> /\ file' = Append(file, Held)
      /\ wr' = [Leave("top") EXCEPT !.error = FALSE]
      /\ IF FromRing THEN Release ELSE UNCHANGED ring
    BY DEF WriteBlock
<1>2. Typed /\ Types
    BY LegacyTyped DEF LegacyInv
<1> DEFINE held == Held
<1>3. /\ held \in Blocks /\ held \in Placed
      /\ FromRing => held = Cell(ring.r) /\ InHand = {} /\ held \in Waiting
      /\ ~FromRing => InHand = {held}
    BY <1>1, HeldPlaced
<1>4. /\ wr'.pc = "top" /\ wr'.cell = -1 /\ wr'.error = FALSE /\ wr'.last = wr.last
      /\ wr' \in WriterType
      /\ ~FromRing' /\ InHand' = {} /\ ~WriterInside'
    BY <1>1, <1>2, LeftType
<1>5. /\ ring' \in RingType
      /\ ring'.r <= ring'.w /\ ring'.w - ring'.r <= RingSize /\ (~Full => ~Full')
      /\ Queued' \subseteq Queued /\ \A i : Cell(i)' = Cell(i)
      /\ Waiting' \subseteq Waiting /\ ring'.cells = ring.cells /\ ring'.w = ring.w
      /\ FromRing => /\ Waiting = Waiting' \cup {held}
                     /\ \A i \in Queued' : ring.r < i /\ ring.r \in Queued
                     /\ ctl.format = "flac" /\ ~Raced => held \notin Waiting'
      /\ ~FromRing => Waiting' = Waiting
    BY <1>1, RingLeft
<1>6. /\ file' \in Seq(Blocks) /\ InFile' = InFile \cup {held}
      /\ Distinct(file) /\ held \notin InFile => Distinct(file')
    <2>1. file \in Seq(Blocks)
        BY <1>2 DEF Typed
    <2> QED
        BY <1>1, <1>3, <2>1, Grown DEF InFile
<1>7. /\ Unread' = Unread /\ InSpill' = InSpill /\ OnDisk' = OnDisk
      /\ Healthy' = Healthy /\ Raced' = Raced /\ ExtractionInside' = ExtractionInside
    BY <1>1, SpillKept DEF Healthy, Raced, ExtractionInside
<1> HIDE DEF held
<1>8. Placed' = Placed
    BY <1>3, <1>4, <1>5, <1>6, <1>7 DEF Placed
<1>9. Types'
    BY <1>1, <1>2, <1>4, <1>5, <1>6 DEF Types
<1>10. PhaseInv' /\ ctl.phase \notin {"idle", "finalized"}
    BY <1>1, <1>4, <1>5 DEF LegacyInv, PhaseInv
<1>11. WriterInv'
    BY <1>4, <1>5 DEF WriterInv
<1>12. SpillInv'
    BY <1>1, <1>4, <1>7 DEF LegacyInv, SpillInv, EmptySpill
<1>13. OwnInv'
    BY <1>1, <1>7, <1>8, OwnKept
<1>14. ApartInv'
    <2> SUFFICES ASSUME ctl.format = "flac", ~Raced PROVE ApartInv'
        BY <1>1, <1>7 DEF ApartInv
    <2>1. ApartInv
        BY DEF LegacyInv
    <2>2. held \notin InFile /\ held \notin InSpill /\ held \notin Waiting'
        BY <1>3, <1>5, <2>1 DEF ApartInv
    <2>3. Distinct(file') /\ \A i, j \in Unread' : i # j => spill'.data[i] # spill'.data[j]
        BY <1>1, <1>6, <1>7, <2>1, <2>2 DEF ApartInv
    <2>4. \A i, j \in Queued' : i # j => Cell(i)' # Cell(j)'
        BY <1>5, <2>1 DEF ApartInv
    <2>5. /\ Waiting' \cap InSpill' = {} /\ Waiting' \cap InFile' = {}
          /\ InSpill' \cap InFile' = {}
        BY <1>5, <1>6, <1>7, <2>1, <2>2 DEF ApartInv
    <2> QED
        BY <1>4, <2>3, <2>4, <2>5 DEF ApartInv
<1>15. CompleteInv'
    BY <1>1, <1>4, <1>7, <1>8, <1>10 DEF LegacyInv, CompleteInv
<1>16. \/ Ordered' /\ spill.w = 0 /\ spill.r = 0
       \/ hist.spilled
       \/ Raced /\ spill.w = 0 /\ spill.r = 0
    <2> SUFFICES ASSUME ~hist.spilled, ~Raced PROVE Ordered' /\ spill.w = 0 /\ spill.r = 0
        BY DEF LegacyInv, OrderInv
    <2>1. Ordered /\ FromRing /\ spill.w = 0 /\ spill.r = 0
        BY <1>1 DEF LegacyInv, OrderInv
    <2>2. held = Cell(ring.r)
        BY <1>3, <2>1
    <2>3. /\ ring.r \in Queued /\ ring.r < ring.w
        <3>1. ring.r < ring.w /\ ring.r \in Nat /\ ring.w \in Nat
            BY <1>1, <1>2, <2>1, HeldPlaced DEF Typed
        <3> QED
            BY <3>1 DEF Queued
    <2> DEFINE n == Len(file)
    <2>4. /\ n \in Nat /\ DOMAIN file = 1 .. n /\ DOMAIN file' = 1 .. n + 1
          /\ \A i \in 1 .. n : file'[i] = file[i]
          /\ file'[n + 1] = held
        <3>1. file \in Seq(Blocks) /\ file' = Append(file, held)
            BY <1>1, <1>2 DEF Typed, held
        <3> QED
            BY <3>1
    <2> HIDE DEF n
    <2>5. \A i \in 1 .. n + 1 : i \in 1 .. n \/ i = n + 1
        BY <2>4
    <2>6. \A i \in 1 .. n : file[i][2] < held[2]
        BY <2>1, <2>2, <2>3, <2>4 DEF Ordered
    <2>7. ASSUME NEW i \in 1 .. n + 1, NEW j \in 1 .. n + 1, i < j
          PROVE  file'[i][2] < file'[j][2]
        <3>1. i \in 1 .. n
            BY <2>4, <2>7
        <3>2. CASE j \in 1 .. n
            BY <2>1, <2>4, <2>7, <3>1, <3>2 DEF Ordered
        <3>3. CASE j = n + 1
            BY <2>4, <2>6, <3>1, <3>3
        <3> QED
            BY <2>5, <3>2, <3>3
    <2>8. ASSUME NEW i \in 1 .. n + 1, NEW k \in Queued' PROVE file'[i][2] < Cell(k)'[2]
        <3>1. k \in Queued /\ ring.r < k /\ Cell(k)' = Cell(k)
            BY <1>5, <2>1
        <3>2. CASE i \in 1 .. n
            BY <2>1, <2>4, <3>1, <3>2 DEF Ordered
        <3>3. CASE i = n + 1
            BY <2>1, <2>2, <2>3, <2>4, <3>1, <3>3 DEF Ordered
        <3> QED
            BY <2>5, <3>2, <3>3
    <2>9. ASSUME ext.pc # "idle", NEW i \in 1 .. n + 1 PROVE file'[i][2] < ext.taken
        <3>1. CASE i \in 1 .. n
            BY <2>1, <2>4, <2>9, <3>1 DEF Ordered
        <3>2. CASE i = n + 1
            BY <2>1, <2>2, <2>3, <2>4, <2>9, <3>2 DEF Ordered
        <3> QED
            BY <2>5, <3>1, <3>2
    <2> QED
        BY <1>1, <1>5, <2>1, <2>4, <2>7, <2>8, <2>9 DEF Ordered
<1>17. OrderInv'
    BY <1>1, <1>4, <1>7, <1>16 DEF OrderInv
<1>18. GrantInv'
    BY <1>1, <1>5, <1>7, GrantKept
<1> QED
    BY <1>9, <1>10, <1>11, <1>12, <1>13, <1>14, <1>15, <1>17, <1>18 DEF LegacyInv

(* A failure leaves the block: it is spilled or it is gone.                *)
LEMMA FailedInv ==
    ASSUME LegacyInv, wr.pc \in {"write", "respill", "preserve", "rescue"},
           UNCHANGED <<ext, file>>,
           ctl' \in {ctl, [ctl EXCEPT !.stopRequested = TRUE]},
           NEW place \in {"top", "exited"}, NEW error \in BOOLEAN,
           wr' = [Leave(place) EXCEPT !.error = error],
           \/ UNCHANGED ring
           \/ wr.pc \in {"write", "respill"} /\ FromRing /\ Release,
           \/ UNCHANGED spill
           \/ /\ Spilled(Held, wr.at) /\ hist'.spilled
              /\ (wr.pc = "respill" /\ Release) \/ wr.pc = "rescue",
           hist' \in HistType, hist'.late = hist.late, hist'.mishaps = hist.mishaps,
           hist.spilled => hist'.spilled, ~Healthy'
    PROVE  LegacyInv'
<1>1. Typed /\ Types /\ SpillInv /\ WriterInv
    BY LegacyTyped DEF LegacyInv
<1> DEFINE held == Held
<1>2. /\ held \in Blocks /\ held \in Placed
      /\ wr.pc = "respill" => FromRing /\ held \in Waiting
    BY HeldPlaced
<1>3. /\ wr'.pc = place /\ wr'.cell = -1 /\ wr'.error = error /\ wr'.last = wr.last
      /\ wr' \in WriterType
      /\ ~FromRing' /\ InHand' = {} /\ ~WriterInside'
    BY <1>1, LeftType
<1>4. /\ ring' \in RingType
      /\ ring'.r <= ring'.w /\ ring'.w - ring'.r <= RingSize /\ (~Full => ~Full')
      /\ Queued' \subseteq Queued /\ \A i : Cell(i)' = Cell(i)
      /\ Waiting' \subseteq Waiting /\ ring'.cells = ring.cells /\ ring'.w = ring.w
      /\ wr.pc \in {"write", "respill"} /\ FromRing /\ Release /\ ctl.format = "flac" /\ ~Raced =>
            held \notin Waiting'
    BY RingLeft
<1>5. /\ ctl' \in CtlType
      /\ UNCHANGED <<ctl.phase, ctl.session, ctl.format, ctl.recording, ctl.enabled>>
    BY ZenonT(30), <1>1 DEF Types, CtlType
<1>6. /\ InFile' = InFile /\ Raced' = Raced /\ ExtractionInside' = ExtractionInside
    BY DEF InFile, Raced, ExtractionInside
<1>7. /\ spill \in SpillType /\ wr.at \in Nat
    BY <1>1 DEF Typed
<1>8. /\ spill' \in SpillType /\ spill'.opened = spill.opened
      /\ OnDisk' \subseteq OnDisk \cup {held, NoBlock}
      /\ ~spill.opened => spill' = spill
    <2>1. CASE UNCHANGED spill
        BY <1>7, <2>1, SpillKept
    <2>2. CASE Spilled(held, wr.at)
        <3> HIDE DEF held
        <3> QED
            BY <1>2, <1>7, <2>2, SpilledType
    <2> QED
        BY <2>1, <2>2
<1>9. ~Raced /\ spill.opened /\ ~UNCHANGED spill =>
         /\ ~ExtractionInside /\ spill'.r <= spill'.w /\ spill'.w = Len(spill'.data)
         /\ InSpill' = InSpill \cup {held} /\ OnDisk' \subseteq OnDisk \cup {held}
         /\ (\A i, j \in Unread : i # j => spill.data[i] # spill.data[j])
            /\ held \notin InSpill =>
               \A i, j \in Unread' : i # j => spill'.data[i] # spill'.data[j]
    <2> SUFFICES ASSUME ~Raced, spill.opened, ~UNCHANGED spill
                 PROVE  /\ ~ExtractionInside /\ spill'.r <= spill'.w /\ spill'.w = Len(spill'.data)
                        /\ InSpill' = InSpill \cup {held} /\ OnDisk' \subseteq OnDisk \cup {held}
                        /\ (\A i, j \in Unread : i # j => spill.data[i] # spill.data[j])
                           /\ held \notin InSpill =>
                              \A i, j \in Unread' : i # j => spill'.data[i] # spill'.data[j]
        OBVIOUS
    <2>1. /\ ~ExtractionInside /\ WriterInside /\ wr.at = spill.w
          /\ spill.r <= spill.w /\ spill.w = Len(spill.data)
        BY <1>1 DEF SpillInv, WriterInside
    <2>2. Spilled(held, spill.w)
        BY <2>1
    <2> HIDE DEF held
    <2>3. /\ spill'.r = spill.r /\ spill'.w = spill.w + 1 /\ Len(spill'.data) = spill'.w
          /\ InSpill' = InSpill \cup {held} /\ OnDisk' \subseteq OnDisk \cup {held}
          /\ (\A i, j \in Unread : i # j => spill.data[i] # spill.data[j])
              /\ held \notin InSpill =>
                 \A i, j \in Unread' : i # j => spill'.data[i] # spill'.data[j]
        BY <1>2, <1>7, <2>1, <2>2, SpilledBehind
    <2>4. spill'.r <= spill'.w
        BY <1>7, <2>1, <2>3 DEF SpillType
    <2> QED
        BY <2>1, <2>3, <2>4
<1>10. UNCHANGED spill => InSpill' = InSpill /\ OnDisk' = OnDisk /\ Unread' = Unread
    BY SpillKept
<1>11. ~UNCHANGED spill => hist'.spilled /\ (wr.pc = "rescue" \/ (wr.pc = "respill" /\ Release))
    OBVIOUS
<1>12. InSpill' \subseteq OnDisk'
    BY UnreadOnDisk DEF InSpill, OnDisk, Range
<1> HIDE DEF held
<1>13. Types'
    BY <1>1, <1>3, <1>4, <1>5, <1>8 DEF Types
<1>14. PhaseInv'
    BY <1>3, <1>4, <1>5 DEF LegacyInv, PhaseInv
<1>15. WriterInv'
    BY <1>3, <1>4 DEF WriterInv
<1>16. SpillInv'
    <2>1. ~spill'.opened => spill' = EmptySpill(FALSE)'
        BY <1>1, <1>8 DEF SpillInv, EmptySpill
    <2>2. CASE UNCHANGED spill
        BY <1>1, <1>3, <1>5, <1>6, <2>1, <2>2 DEF SpillInv
    <2>3. CASE ~UNCHANGED spill
        BY <1>3, <1>6, <1>8, <1>9, <2>1, <2>3 DEF SpillInv
    <2> QED
        BY <2>2, <2>3
<1>17. OwnInv'
    <2>1. Placed' \cup OnDisk' \subseteq Placed \cup OnDisk \cup {NoBlock}
        BY <1>2, <1>3, <1>4, <1>6, <1>8, <1>12 DEF Placed
    <2>2. ~Raced' => Placed' \subseteq Placed /\ OnDisk' \subseteq Placed \cup OnDisk
        <3>1. CASE UNCHANGED spill
            BY <1>3, <1>4, <1>6, <1>10, <3>1 DEF Placed
        <3>2. CASE ~UNCHANGED spill
            BY <1>2, <1>3, <1>4, <1>6, <1>8, <1>9, <3>2 DEF Placed
        <3> QED
            BY <3>1, <3>2
    <2> QED
        BY <1>5, <1>6, <2>1, <2>2, OwnKept
<1>18. ApartInv'
    <2> SUFFICES ASSUME ctl.format = "flac", ~Raced PROVE ApartInv'
        BY <1>5, <1>6 DEF ApartInv
    <2>1. ApartInv /\ wr.pc \notin {"preserve", "rescue"}
        BY <1>1 DEF LegacyInv, WriterInv
    <2>2. /\ \A i, j \in Queued' : i # j => Cell(i)' # Cell(j)'
          /\ Distinct(file') /\ Waiting' \cap InFile' = {}
        BY <1>4, <1>6, <2>1 DEF ApartInv, Distinct
    <2>3. /\ \A i, j \in Unread' : i # j => spill'.data[i] # spill'.data[j]
          /\ Waiting' \cap InSpill' = {} /\ InSpill' \cap InFile' = {}
        <3>1. CASE UNCHANGED spill
            BY <1>4, <1>6, <1>10, <2>1, <3>1 DEF ApartInv, Distinct
        <3>2. CASE ~UNCHANGED spill
            <4>1. /\ spill.opened /\ wr.pc = "respill" /\ Release /\ FromRing /\ held \in Waiting
                  /\ held \notin Waiting'
                BY <1>2, <1>4, <1>8, <1>11, <2>1, <3>2
            <4>2. held \notin InSpill /\ held \notin InFile
                BY <2>1, <4>1 DEF ApartInv
            <4> QED
                BY <1>4, <1>6, <1>9, <2>1, <3>2, <4>1, <4>2 DEF ApartInv
        <3> QED
            BY <3>1, <3>2
    <2> QED
        BY <1>3, <2>2, <2>3 DEF ApartInv
<1>19. CompleteInv'
    BY DEF CompleteInv
<1>20. OrderInv'
    <2> SUFFICES ASSUME ~hist'.spilled PROVE OrderInv'
        BY DEF OrderInv
    <2>1. OrderInv /\ ~hist.spilled /\ UNCHANGED spill
        BY <1>11 DEF LegacyInv
    <2> QED
        BY <1>3, <1>4, <1>6, <2>1 DEF OrderInv, Ordered
<1>21. GrantInv'
    BY <1>4, <1>6, GrantKept
<1> QED
    BY <1>13, <1>14, <1>15, <1>16, <1>17, <1>18, <1>19, <1>20, <1>21 DEF LegacyInv

(* What a failure writes into the history.                                 *)
LEMMA FailureHistory ==
    ASSUME LegacyInv, wr.pc \in {"write", "respill", "preserve", "rescue"},
           \/ hist' = Failing
           \/ Refused(Held)
           \/ hist' = [hist EXCEPT !.spilled = TRUE] /\ wr.pc \in {"respill", "rescue"}
    PROVE  /\ hist' \in HistType /\ hist'.late = hist.late /\ hist'.inTime = hist.inTime
           /\ hist'.mishaps = hist.mishaps /\ (hist.spilled => hist'.spilled)
           /\ hist' = [hist EXCEPT !.spilled = TRUE] => hist'.spilled
           /\ ~Healthy'
<1>1. hist \in HistType /\ Held \in Blocks /\ WriterInv
    BY LegacyTyped DEF LegacyInv, Types, Typed
<1> DEFINE more == hist.failed \cup {Held}
           less == hist.failed \ {Held}
<1>2. more \in SUBSET Blocks /\ more # {} /\ less \in SUBSET Blocks
    BY <1>1 DEF HistType
<1>3. \/ hist' = [hist EXCEPT !.failed = more]
      \/ hist' = [hist EXCEPT !.refused = TRUE, !.failed = less]
      \/ hist' = [hist EXCEPT !.spilled = TRUE] /\ wr.pc \in {"respill", "rescue"}
    BY DEF Failing, Refused
<1> HIDE DEF more, less
<1>4. hist' = [hist EXCEPT !.spilled = TRUE] => hist'.spilled
    BY <1>1 DEF HistType
<1>5. CASE hist' = [hist EXCEPT !.failed = more]
    <2>1. /\ hist' \in HistType /\ hist'.late = hist.late /\ hist'.inTime = hist.inTime
          /\ hist'.mishaps = hist.mishaps /\ hist'.spilled = hist.spilled /\ hist'.failed = more
        BY <1>1, <1>2, <1>5 DEF HistType
    <2> QED
        BY <1>2, <1>4, <2>1 DEF Healthy
<1>6. CASE hist' = [hist EXCEPT !.refused = TRUE, !.failed = less]
    <2>1. /\ hist' \in HistType /\ hist'.late = hist.late /\ hist'.inTime = hist.inTime
          /\ hist'.mishaps = hist.mishaps /\ hist'.spilled = hist.spilled /\ hist'.refused
        BY <1>1, <1>2, <1>6 DEF HistType
    <2> QED
        BY <1>4, <2>1 DEF Healthy
<1>7. CASE hist' = [hist EXCEPT !.spilled = TRUE] /\ wr.pc \in {"respill", "rescue"}
    <2>1. /\ hist' \in HistType /\ hist'.late = hist.late /\ hist'.inTime = hist.inTime
          /\ hist'.mishaps = hist.mishaps /\ hist'.spilled
          /\ hist'.failed = hist.failed /\ hist'.refused = hist.refused
        BY <1>1, <1>7 DEF HistType
    <2>2. ~Healthy
        BY <1>1, <1>7 DEF WriterInv
    <2> QED
        BY <2>1, <2>2 DEF Healthy
<1> QED
    BY <1>3, <1>5, <1>6, <1>7

LEMMA FlacLocalFailsInv == ASSUME LegacyInv, FlacLocalFails PROVE LegacyInv'
<1>1. hist \in HistType
    BY DEF LegacyInv, Types
<1>2. /\ wr.pc = "write" /\ UNCHANGED <<ext, file, spill>>
      /\ wr' = [Leave("exited") EXCEPT !.error = TRUE]
      /\ ctl' \in {ctl, [ctl EXCEPT !.stopRequested = TRUE]}
      /\ UNCHANGED ring \/ (wr.pc \in {"write", "respill"} /\ FromRing /\ Release)
      /\ hist' = [hist EXCEPT !.refused = TRUE]
    BY DEF FlacLocalFails, WriteFails
<1>3. /\ hist' \in HistType /\ hist'.late = hist.late /\ hist'.spilled = hist.spilled
      /\ hist'.mishaps = hist.mishaps /\ hist'.refused
    BY <1>1, <1>2 DEF HistType
<1>4. ~Healthy'
    BY <1>3 DEF Healthy
<1> QED
    BY <1>2, <1>3, <1>4, FailedInv

(* The writer enters an enqueue with the block it failed to write.         *)
LEMMA Respilling ==
    ASSUME LegacyInv, UNCHANGED <<ctl, ext, ring, file>>,
           \/ wr.pc = "write" /\ FromRing /\ wr'.pc = "respill"
           \/ wr.pc = "preserve" /\ wr'.pc = "rescue",
           wr' \in WriterType, wr'.cell = wr.cell, wr'.copy = wr.copy, wr'.last = wr.last,
           wr'.error, wr'.at = spill'.w, OpenSpill,
           NEW past \in HistType, past.mishaps = hist.mishaps, past.late = hist.late,
           past.spilled = hist.spilled, hist' = RacedIf(ExtractionInside, past),
           past.failed # {} \/ past.refused \/ past.mishaps # {}
    PROVE  LegacyInv'
<1>1. Types /\ Typed /\ SpillInv /\ WriterInv
    BY LegacyTyped DEF LegacyInv
<1>2. /\ hist' \in HistType /\ hist'.failed = past.failed /\ hist'.late = hist.late
      /\ hist'.spilled = hist.spilled /\ hist'.refused = past.refused
      /\ hist.mishaps \subseteq hist'.mishaps
      /\ ExtractionInside => Raced'
    <2>1. ExtractionInside \in BOOLEAN
        BY DEF ExtractionInside
    <2> QED
        BY <2>1, Entered
<1>3. ~Healthy' /\ (Raced => Raced')
    BY <1>2 DEF Healthy, Raced
<1>4. /\ spill' \in SpillType /\ spill'.opened
      /\ spill'.w = spill.w /\ spill'.r = spill.r /\ spill'.data = spill.data
      /\ Unread' = Unread /\ InSpill' = InSpill /\ OnDisk' = OnDisk
    BY <1>1, Opened DEF Types
<1>5. /\ Waiting' = Waiting /\ Queued' = Queued /\ \A i : Cell(i)' = Cell(i) /\ Full' = Full
    BY Unmoved DEF Full
<1>6. /\ InFile' = InFile /\ FromRing' = FromRing /\ Held' = Held /\ InHand' = InHand
      /\ ExtractionInside' = ExtractionInside
    BY DEF InFile, FromRing, Held, InHand, ExtractionInside
<1>7. Placed' = Placed
    BY <1>4, <1>5, <1>6 DEF Placed
<1>8. Types'
    BY <1>1, <1>2, <1>4 DEF Types
<1>9. PhaseInv'
    BY <1>5 DEF LegacyInv, PhaseInv
<1>10. WriterInv'
    BY <1>1, <1>3, <1>6 DEF WriterInv
<1>11. SpillInv'
    <2> SUFFICES ASSUME ~Raced'
                 PROVE  /\ spill'.r <= spill'.w /\ spill'.w = Len(spill'.data)
                        /\ ~ExtractionInside' /\ wr'.at = spill'.w
        BY <1>4 DEF SpillInv
    <2> QED
        BY <1>1, <1>2, <1>3, <1>4, <1>6 DEF SpillInv
<1>12. OwnInv'
    BY <1>2, <1>3, <1>4, <1>7, OwnKept
<1>13. ApartInv'
    BY <1>3, <1>4, <1>5, <1>6 DEF LegacyInv, ApartInv, Distinct
<1>14. CompleteInv'
    BY <1>3 DEF CompleteInv
<1>15. OrderInv'
    BY <1>2, <1>3, <1>4, <1>5 DEF LegacyInv, OrderInv, Ordered
<1>16. GrantInv'
    BY <1>2, <1>3, GrantKept
<1> QED
    BY <1>8, <1>9, <1>10, <1>11, <1>12, <1>13, <1>14, <1>15, <1>16 DEF LegacyInv

LEMMA SpillBeforeReleaseInv == ASSUME LegacyInv, SpillBeforeRelease PROVE LegacyInv'
<1> DEFINE past == Failing
           at == spill'.w
<1>1. /\ wr.pc = "write" /\ FromRing /\ OpenSpill /\ UNCHANGED <<ctl, ext, ring, file>>
      /\ hist' = RacedIf(ExtractionInside, past)
      /\ wr' = [wr EXCEPT !.pc = "respill", !.error = TRUE, !.at = at]
      /\ Types /\ SpillInv
    BY DEF SpillBeforeRelease, WriteFails, LegacyInv
<1>2. /\ past \in HistType /\ past.mishaps = hist.mishaps /\ past.late = hist.late
      /\ past.spilled = hist.spilled /\ past.failed # {}
    <2> DEFINE more == hist.failed \cup {Held}
    <2>1. more \in SUBSET Blocks /\ more # {} /\ hist \in HistType
        BY <1>1, LegacyTyped DEF Types, Typed, HistType
    <2>2. past = [hist EXCEPT !.failed = more]
        BY DEF Failing
    <2> HIDE DEF more, past
    <2> QED
        BY <2>1, <2>2 DEF HistType
<1>3. at \in Nat
    BY <1>1, Opened DEF Types, SpillType
<1> HIDE DEF past
<1>4. /\ wr' \in WriterType /\ wr'.pc = "respill" /\ wr'.error /\ wr'.at = spill'.w
      /\ UNCHANGED <<wr.cell, wr.copy, wr.last>>
    <2> HIDE DEF at
    <2>1. /\ wr' \in WriterType /\ wr'.pc = "respill" /\ wr'.error /\ wr'.at = at
          /\ UNCHANGED <<wr.cell, wr.copy, wr.last>>
        BY <1>1, <1>3 DEF Types, WriterType
    <2> QED
        BY <2>1 DEF at
<1> QED
    BY <1>1, <1>2, <1>4, Respilling

LEMMA RespillEndsInv == ASSUME LegacyInv, RespillEnds PROVE LegacyInv'
<1>1. /\ wr.pc = "respill" /\ wr' = Leave("top") /\ Release /\ UNCHANGED <<ctl, ext, file>>
      /\ \/ Spilled(Held, wr.at) /\ hist' = [hist EXCEPT !.spilled = TRUE]
         \/ Refused(Held) /\ UNCHANGED spill
      /\ FromRing /\ Types /\ wr.error \in BOOLEAN
    BY LegacyTyped DEF RespillEnds, KeepRingBlock, Refused, LegacyInv, WriterInv, Typed
<1>2. wr' = [Leave("top") EXCEPT !.error = wr.error]
    BY <1>1 DEF Leave, Types, WriterType
<1>3. /\ hist' \in HistType /\ hist'.late = hist.late /\ hist'.mishaps = hist.mishaps
      /\ (hist.spilled => hist'.spilled)
      /\ hist' = [hist EXCEPT !.spilled = TRUE] => hist'.spilled
      /\ ~Healthy'
    BY <1>1, FailureHistory
<1> QED
    BY <1>1, <1>2, <1>3, FailedInv

LEMMA SpilledBlockFailsInv == ASSUME LegacyInv, SpilledBlockFails PROVE LegacyInv'
<1>1. /\ wr.pc = "write" /\ UNCHANGED <<ext, file, ctl, ring, spill>>
      /\ wr' = [Leave("top") EXCEPT !.error = TRUE] /\ hist' = Failing
    BY DEF SpilledBlockFails, WriteFails
<1>2. /\ hist' \in HistType /\ hist'.late = hist.late /\ hist'.mishaps = hist.mishaps
      /\ (hist.spilled => hist'.spilled) /\ ~Healthy'
    BY <1>1, FailureHistory
<1> QED
    BY <1>1, <1>2, FailedInv

(* The RAW writer goes on with a pointer into the cell it released.        *)
LEMMA RawReleasesInv == ASSUME LegacyInv, RawReleases PROVE LegacyInv'
<1>1. /\ wr.pc = "write" /\ FromRing /\ Release /\ UNCHANGED <<ext, file, ctl, spill>>
      /\ hist' = Failing /\ ctl.format = "raw"
      /\ wr' = [IF ctl.app THEN [wr EXCEPT !.pc = "preserve"] ELSE Leave("top")
                EXCEPT !.error = TRUE]
    BY DEF RawReleases, WriteFails
<1>2. /\ hist' \in HistType /\ hist'.late = hist.late /\ hist'.mishaps = hist.mishaps
      /\ (hist.spilled => hist'.spilled) /\ ~Healthy' /\ Raced' = Raced
    BY <1>1, FailureHistory DEF Raced
<1>3. CASE ~ctl.app
    <2>1. wr' = [Leave("top") EXCEPT !.error = TRUE]
        BY <1>1, <1>3
    <2> QED
        BY <1>1, <1>2, <2>1, FailedInv
<1>4. CASE ctl.app
    <2>1. wr' = [[wr EXCEPT !.pc = "preserve"] EXCEPT !.error = TRUE] /\ Types
        BY <1>1, <1>4 DEF LegacyInv
    <2>2. /\ wr'.pc = "preserve" /\ wr'.error /\ UNCHANGED <<wr.last, wr.cell, wr.copy, wr.at>>
          /\ wr' \in WriterType
        BY <2>1 DEF Types, WriterType
    <2>3. /\ ring' \in RingType
          /\ ring'.r <= ring'.w /\ ring'.w - ring'.r <= RingSize /\ (~Full => ~Full')
          /\ Queued' \subseteq Queued /\ \A i : Cell(i)' = Cell(i)
          /\ Waiting' \subseteq Waiting /\ ring'.cells = ring.cells /\ ring'.w = ring.w
        BY <1>1, RingLeft
    <2>4. FromRing' /\ Held' = Held /\ Held \in Waiting
        BY <1>1, <2>2, <2>3, HeldPlaced DEF FromRing, Held
    <2>5. /\ InFile' = InFile /\ InHand' = {Held} /\ ~WriterInside'
          /\ Unread' = Unread /\ InSpill' = InSpill /\ OnDisk' = OnDisk
          /\ ExtractionInside' = ExtractionInside
        BY <1>1, <2>2, <2>4, SpillKept DEF InFile, InHand, WriterInside, ExtractionInside
    <2>6. Placed' \subseteq Placed
        BY <2>3, <2>4, <2>5 DEF Placed
    <2>7. Types'
        BY <1>1, <1>2, <2>1, <2>2, <2>3 DEF Types
    <2>8. PhaseInv'
        BY <1>1, <2>2, <2>3 DEF LegacyInv, PhaseInv
    <2>9. WriterInv'
        BY <1>1, <1>2, <2>2, <2>3, <2>4 DEF WriterInv
    <2>10. SpillInv'
        BY <1>1, <1>2, <2>5 DEF LegacyInv, SpillInv, EmptySpill
    <2>11. OwnInv'
        BY <1>1, <1>2, <2>5, <2>6, OwnKept
    <2>12. ApartInv' /\ CompleteInv'
        BY <1>1, <1>2 DEF ApartInv, CompleteInv
    <2>13. OrderInv'
        BY <1>1, <1>2, <2>2, <2>3 DEF LegacyInv, OrderInv, Ordered
    <2>14. GrantInv'
        BY <1>1, <1>2, <2>3, GrantKept
    <2> QED
        BY <2>7, <2>8, <2>9, <2>10, <2>11, <2>12, <2>13, <2>14 DEF LegacyInv
<1> QED
    BY <1>3, <1>4

(* It spills what the cell holds by then.                                  *)
LEMMA RawPreservesInv == ASSUME LegacyInv, RawPreserves PROVE LegacyInv'
<1> DEFINE at == spill'.w
<1>1. /\ wr.pc = "preserve" /\ OpenSpill /\ UNCHANGED <<ctl, ext, ring, file>>
      /\ hist' = RacedIf(ExtractionInside, hist)
      /\ wr' = [wr EXCEPT !.pc = "rescue", !.at = at]
      /\ Types /\ SpillInv /\ WriterInv
    BY DEF RawPreserves, LegacyInv
<1>2. at \in Nat
    BY <1>1, Opened DEF Types, SpillType
<1>3. wr.error /\ ~Healthy
    BY <1>1 DEF WriterInv
<1>4. /\ wr' \in WriterType /\ wr'.pc = "rescue" /\ wr'.error /\ wr'.at = spill'.w
      /\ UNCHANGED <<wr.cell, wr.copy, wr.last>>
    <2> HIDE DEF at
    <2>1. /\ wr' \in WriterType /\ wr'.pc = "rescue" /\ wr'.error = wr.error /\ wr'.at = at
          /\ UNCHANGED <<wr.cell, wr.copy, wr.last>>
        BY <1>1, <1>2 DEF Types, WriterType
    <2> QED
        BY <1>3, <2>1 DEF at
<1>5. hist \in HistType /\ (hist.failed # {} \/ hist.refused \/ hist.mishaps # {})
    BY <1>1, <1>3 DEF Types, Healthy
<1> QED
    BY <1>1, <1>4, <1>5, Respilling

LEMMA RawRescueInv ==
    ASSUME LegacyInv, RawPreserved \/ RawNotPreserved PROVE LegacyInv'
<1>1. /\ wr.pc \in {"rescue", "preserve"} /\ wr' = Leave("top") /\ UNCHANGED <<ctl, ext, ring, file>>
      /\ \/ /\ Spilled(Held, wr.at) /\ hist' = [hist EXCEPT !.spilled = TRUE]
            /\ wr.pc = "rescue"
         \/ Refused(Held) /\ UNCHANGED spill
      /\ Types /\ wr.error \in BOOLEAN
    BY LegacyTyped DEF RawPreserved, RawNotPreserved, Refused, LegacyInv, Typed
<1>2. wr' = [Leave("top") EXCEPT !.error = wr.error]
    BY <1>1 DEF Leave, Types, WriterType
<1>3. /\ hist' \in HistType /\ hist'.late = hist.late /\ hist'.mishaps = hist.mishaps
      /\ (hist.spilled => hist'.spilled)
      /\ hist' = [hist EXCEPT !.spilled = TRUE] => hist'.spilled
      /\ ~Healthy'
    BY <1>1, FailureHistory
<1> QED
    BY <1>1, <1>2, <1>3, FailedInv

-----------------------------------------------------------------------------
(* The user interface's steps.                                             *)

(* What a reset leaves of a hand-over it comes in the middle of.           *)
LEMMA Caught ==
    ASSUME LegacyInv, NEW past \in HistType, Reset(past), UNCHANGED ext
    PROVE  /\ hist' \in HistType /\ hist'.inTime = past.inTime /\ hist'.failed = past.failed
           /\ hist'.spilled = past.spilled /\ hist'.refused = past.refused
           /\ past.late \cup Extracted \subseteq hist'.late
           /\ past.mishaps \subseteq hist'.mishaps
           /\ ExtractionInside => Raced'
           /\ GrantInv'
<1>1. Typed /\ Types /\ GrantInv
    BY LegacyTyped DEF LegacyInv
<1> DEFINE caught == past.late \cup Extracted \cup IF ext.pc = "granted" THEN {ring.cells[0]} ELSE {}
           harm == past.mishaps \cup IF ExtractionInside \/ (ext.pc = "granted" /\ ext.at # 0)
                                     THEN {"raced"} ELSE {}
<1>2. hist' = [past EXCEPT !.late = caught, !.mishaps = harm]
    BY DEF Reset
<1>3. 0 \in 0 .. RingSize - 1 /\ ring.cells \in [0 .. RingSize - 1 -> Blocks]
    <2>1. RingSize \in Nat \ {0} /\ ring.cells \in [0 .. RingSize - 1 -> Blocks]
        BY <1>1 DEF Typed
    <2>2. 0 \in 0 .. RingSize - 1
        BY <2>1
    <2> QED
        BY <2>1, <2>2
<1>4. caught \in SUBSET Blocks /\ harm \in SUBSET {"raced", "unread", "unpublished"}
    <2>1. Extracted \subseteq Blocks /\ past.late \subseteq Blocks
        BY <1>1 DEF Typed, Extracted, HistType
    <2>2. ring.cells[0] \in Blocks
        BY <1>3
    <2>3. past.mishaps \subseteq {"raced", "unread", "unpublished"}
        BY DEF HistType
    <2> QED
        BY <2>1, <2>2, <2>3
<1>5. /\ past.late \cup Extracted \subseteq caught /\ past.mishaps \subseteq harm
      /\ ext.pc = "granted" => ring.cells[0] \in caught
      /\ ExtractionInside \/ (ext.pc = "granted" /\ ext.at # 0) => "raced" \in harm
    OBVIOUS
<1> HIDE DEF caught, harm
<1>6. /\ hist' \in HistType /\ hist'.inTime = past.inTime /\ hist'.failed = past.failed
      /\ hist'.spilled = past.spilled /\ hist'.refused = past.refused
      /\ hist'.late = caught /\ hist'.mishaps = harm
    BY <1>2, <1>4 DEF HistType
<1>7. GrantInv'
    <2>1. ring'.cells = ring.cells /\ ring'.w = 0
        BY <1>1, EmptiedRing DEF Reset, Types
    <2>2. 0 % RingSize = 0
        <3>1. RingSize \in Nat \ {0}
            BY <1>1 DEF Typed
        <3> QED
            BY <3>1
    <2>3. ext.pc = "granted" /\ ext.at # 0 => Raced' /\ ring.cells[0] \in hist'.late
        BY <1>5, <1>6 DEF Raced
    <2> QED
        BY <1>1, <2>1, <2>2, <2>3 DEF GrantInv
<1> QED
    BY <1>5, <1>6, <1>7 DEF Raced

(* A recording starts with empty buffers and an empty file.                *)
LEMMA StartInv == ASSUME LegacyInv, Start PROVE LegacyInv'
<1>1. Types /\ Typed /\ wr.pc = "exited" /\ wr.cell = -1
    BY LegacyTyped DEF LegacyInv, Start, PhaseInv, WriterInv
<1>2. /\ UNCHANGED ext /\ spill' = EmptySpill(FALSE) /\ file' = <<>> /\ ResetRing
      /\ Reset(NoHistory) /\ wr' = [wr EXCEPT !.pc = "top", !.error = FALSE]
    BY DEF Start, Reset
<1>3. PICK format \in Formats, local \in BOOLEAN :
         ctl' = [phase |-> "starting", session |-> ctl.session + 1, format |-> format,
                 local |-> local, recording |-> TRUE, enabled |-> FALSE,
                 stopRequested |-> ctl.stopRequested, app |-> ctl.app \/ format = "flac"]
    BY DEF Start
<1>4. /\ ctl' \in CtlType
      /\ ctl'.phase = "starting" /\ ctl'.recording = TRUE /\ ctl'.enabled = FALSE
    <2> DEFINE next == ctl.session + 1
               app == ctl.app \/ format = "flac"
    <2>1. next \in Nat
        <3>1. ctl.session \in Nat
            BY <1>1 DEF Typed
        <3> QED
            BY <3>1
    <2>2. app \in BOOLEAN /\ ctl.stopRequested \in BOOLEAN /\ format \in {"flac", "raw"}
        BY <1>1, LegacyAssumption DEF Types, CtlType
    <2>3. ctl' = [phase |-> "starting", session |-> next, format |-> format,
                  local |-> local, recording |-> TRUE, enabled |-> FALSE,
                  stopRequested |-> ctl.stopRequested, app |-> app]
        BY <1>3
    <2> HIDE DEF next, app
    <2> QED
        BY <2>1, <2>2, <2>3 DEF Phases, CtlType
<1>5. NoHistory \in HistType /\ NoHistory.inTime = {} /\ NoHistory.spilled = FALSE
    BY DEF NoHistory, HistType
<1>6. /\ hist' \in HistType /\ hist'.inTime = {} /\ Extracted \subseteq hist'.late
      /\ ExtractionInside => Raced'
      /\ GrantInv'
    BY <1>2, <1>5, Caught
<1>7. /\ wr'.pc = "top" /\ wr'.cell = -1 /\ wr'.error = FALSE /\ wr' \in WriterType
    BY <1>1, <1>2 DEF Types, WriterType
<1>8. /\ Queued' = {} /\ Waiting' = {} /\ ring'.r <= ring'.w /\ ring'.w - ring'.r <= RingSize
      /\ ring' \in RingType /\ ~Full'
    BY <1>1, <1>2, EmptiedRing DEF Types
<1>9. /\ spill' \in SpillType /\ ~spill'.opened
      /\ spill'.w = 0 /\ spill'.r = 0 /\ Len(spill'.data) = 0
      /\ Unread' = {} /\ InSpill' = {} /\ OnDisk' = {}
    BY <1>2, Emptied
<1>10. /\ InFile' = {} /\ InHand' = {} /\ Extracted' = Extracted /\ DOMAIN file' = {}
       /\ ~WriterInside' /\ ExtractionInside' = ExtractionInside /\ file' \in Seq(Blocks)
    BY <1>2, <1>7 DEF InFile, InHand, Extracted, Range, WriterInside, ExtractionInside
<1>11. Placed' = {}
    BY <1>8, <1>9, <1>10 DEF Placed
<1>12. Types'
    BY <1>1, <1>2, <1>4, <1>6, <1>7, <1>8, <1>9, <1>10 DEF Types
<1>13. PhaseInv'
    BY <1>2, <1>4, <1>8 DEF LegacyInv, PhaseInv
<1>14. WriterInv'
    BY <1>7, <1>8 DEF WriterInv, FromRing
<1>15. SpillInv'
    <2>1. spill' = EmptySpill(FALSE)'
        BY <1>2 DEF EmptySpill
    <2>2. ~Raced' => ~ExtractionInside'
        BY <1>6, <1>10
    <2>3. spill'.r <= spill'.w /\ spill'.w = Len(spill'.data)
        BY <1>9
    <2> QED
        BY <1>10, <2>1, <2>2, <2>3 DEF SpillInv
<1>16. OwnInv'
    <2>1. ASSUME NEW block \in Extracted PROVE Own(block)' /\ block[2] <= ext'.taken
        <3>1. block = ext.block /\ ext.pc # "idle"
            BY <2>1 DEF Extracted
        <3>2. block[2] = ext.taken /\ ext.taken \in Nat
            BY <1>1, <3>1 DEF LegacyInv, PhaseInv, Typed
        <3>3. block[2] <= ext'.taken
            BY <1>2, <3>2
        <3> QED
            BY <1>6, <2>1, <3>3 DEF Own
    <2> QED
        BY <1>9, <1>10, <1>11, <2>1 DEF OwnInv
<1>17. ApartInv'
    BY <1>8, <1>9, <1>10 DEF ApartInv, Distinct
<1>18. CompleteInv'
    BY <1>6, <1>7 DEF CompleteInv
<1>19. OrderInv'
    <2>1. Ordered' <=> TRUE
        BY <1>2, <1>8, <1>10, <1>11 DEF Ordered
    <2> QED
        BY <1>7, <1>9, <2>1 DEF OrderInv
<1> QED
    BY <1>6, <1>12, <1>13, <1>14, <1>15, <1>16, <1>17, <1>18, <1>19 DEF LegacyInv

(* The buffers are emptied while no writer runs.                           *)
LEMMA EmptiedInv ==
    ASSUME LegacyInv, UNCHANGED <<ext, wr, file>>, wr.pc = "exited", ctl' \in CtlType,
           ctl'.session = ctl.session, ctl'.format = ctl.format,
           ctl'.recording = FALSE,
           ctl'.phase \in {"idle", "finalized"}, PhaseInv',
           spill' = EmptySpill(FALSE), ResetRing \/ UNCHANGED ring,
           hist' \in HistType, hist'.inTime = hist.inTime, hist'.failed = hist.failed,
           hist'.spilled = hist.spilled, hist'.refused = hist.refused,
           hist.late \subseteq hist'.late, hist.mishaps \subseteq hist'.mishaps, GrantInv'
    PROVE  LegacyInv'
<1>1. /\ ring' \in RingType
      /\ ring'.r <= ring'.w /\ ring'.w - ring'.r <= RingSize
      /\ Queued' \subseteq Queued /\ \A i \in Queued' : Cell(i)' = Cell(i)
      /\ Waiting' \subseteq Waiting
    <2>1. CASE ResetRing
        BY <2>1, EmptiedRing DEF LegacyInv, Types
    <2>2. CASE UNCHANGED ring
        BY <2>2, Unmoved DEF LegacyInv, Types, WriterInv
    <2> QED
        BY <2>1, <2>2
<1>2. /\ spill' \in SpillType /\ ~spill'.opened
      /\ spill'.w = 0 /\ spill'.r = 0 /\ Len(spill'.data) = 0
      /\ Unread' = {} /\ InSpill' = {} /\ OnDisk' = {}
    BY Emptied
<1>3. /\ InFile' = InFile /\ InHand' = {} /\ FromRing' = FromRing
      /\ (Healthy' => Healthy) /\ (Raced => Raced')
      /\ ExtractionInside' = ExtractionInside /\ ~WriterInside /\ ~WriterInside'
    BY DEF InFile, InHand, Healthy, FromRing, Raced, ExtractionInside, WriterInside
<1>4. Placed' \subseteq Placed
    BY <1>1, <1>2, <1>3 DEF Placed
<1>5. Types'
    BY <1>1, <1>2 DEF LegacyInv, Types
<1>6. WriterInv'
    BY <1>1, <1>3 DEF LegacyInv, WriterInv
<1>7. SpillInv'
    <2>1. spill' = EmptySpill(FALSE)'
        BY DEF EmptySpill
    <2>2. ~Raced' => ~(ExtractionInside' /\ WriterInside')
        BY <1>3 DEF LegacyInv, SpillInv
    <2>3. spill'.r <= spill'.w /\ spill'.w = Len(spill'.data)
        <3>1. spill'.r = 0 /\ spill'.w = 0 /\ Len(spill'.data) = 0
            BY <1>2
        <3> QED
            BY ONLY <3>1
    <2> QED
        BY <1>2, <1>3, <2>1, <2>2, <2>3 DEF SpillInv
<1>8. OwnInv'
    <2>1. \A block : Own(block) => Own(block)'
        BY <1>3 DEF Own
    <2>2. Extracted' = Extracted
        BY DEF Extracted
    <2> QED
        BY <1>2, <1>3, <1>4, <2>1, <2>2 DEF LegacyInv, OwnInv
<1>9. ApartInv'
    BY <1>1, <1>2, <1>3 DEF LegacyInv, ApartInv, Distinct
<1>10. CompleteInv'
    BY <1>3 DEF LegacyInv, CompleteInv
<1>11. OrderInv'
    BY <1>1, <1>2, <1>3 DEF LegacyInv, OrderInv, Ordered
<1> QED
    BY <1>5, <1>6, <1>7, <1>8, <1>9, <1>10, <1>11 DEF LegacyInv

LEMMA StartFailsInv == ASSUME LegacyInv, StartFails PROVE LegacyInv'
<1>1. /\ ctl.phase \in {"idle", "finalized"} /\ UNCHANGED <<ctl, ext, wr, file>>
      /\ spill' = EmptySpill(FALSE) /\ ResetRing /\ Reset(hist) /\ Types
    BY DEF StartFails, Reset, LegacyInv
<1>2. wr.pc = "exited" /\ ctl.recording = FALSE /\ PhaseInv'
    <2>1. PhaseInv /\ ctl.recording \in BOOLEAN
        BY LegacyTyped DEF LegacyInv, Typed
    <2>2. ~Full'
        BY <1>1, EmptiedRing DEF Types
    <2> QED
        BY <1>1, <2>1, <2>2 DEF PhaseInv
<1>3. ctl' \in CtlType /\ hist \in HistType
    BY <1>1 DEF Types
<1>4. /\ hist' \in HistType /\ hist'.inTime = hist.inTime /\ hist'.failed = hist.failed
      /\ hist'.spilled = hist.spilled /\ hist'.refused = hist.refused
      /\ hist.late \subseteq hist'.late /\ hist.mishaps \subseteq hist'.mishaps /\ GrantInv'
    BY <1>1, <1>3, Caught
<1> QED
    BY <1>1, <1>2, <1>3, <1>4, EmptiedInv

LEMMA FinalizeInv == ASSUME LegacyInv, Finalize PROVE LegacyInv'
<1>1. /\ ctl.phase = "finalizing" /\ wr.pc = "exited"
      /\ ctl' = [ctl EXCEPT !.phase = "finalized"]
      /\ spill' = EmptySpill(FALSE) /\ UNCHANGED <<ext, ring, wr, file, hist>>
    BY DEF Finalize
<1>2. /\ ctl' \in CtlType /\ ctl'.phase = "finalized" /\ ctl.recording \in BOOLEAN
      /\ UNCHANGED <<ctl.session, ctl.format, ctl.recording, ctl.enabled>>
    BY <1>1 DEF LegacyInv, Types, Phases, CtlType
<1>3. PhaseInv' /\ ctl'.recording = FALSE
    BY <1>1, <1>2 DEF LegacyInv, PhaseInv, Full
<1>4. GrantInv' /\ hist' \in HistType
    BY <1>1, GrantKept DEF LegacyInv, Types, Raced
<1> QED
    BY <1>1, <1>2, <1>3, <1>4, EmptiedInv
(* Start and stop, step by step.                                           *)
LEMMA FlagsInv ==
    ASSUME LegacyInv, EnableExtraction \/ StopExtraction \/ HonourRequest \/ StopWriter
    PROVE  LegacyInv'
<1>1. UNCHANGED <<ext, ring, spill, wr, file, hist>> /\ Types /\ PhaseInv
    BY DEF EnableExtraction, StopExtraction, HonourRequest, StopWriter, LegacyInv
<1>2. CASE EnableExtraction
    <2>1. /\ ctl' \in CtlType
          /\ ctl.phase = "starting" /\ ctl'.phase = "recording"
          /\ UNCHANGED <<ctl.session, ctl.format, ctl.recording>>
        BY <1>1, <1>2 DEF EnableExtraction, Types, Phases, CtlType
    <2>2. PhaseInv'
        BY <1>1, <2>1 DEF PhaseInv, Full
    <2> QED
        BY <1>1, <2>1, <2>2, QuietControl
<1>3. CASE StopExtraction
    <2>1. /\ ctl' \in CtlType
          /\ ctl.phase = "recording" /\ ctl'.phase = "stopping" /\ ctl'.enabled = FALSE
          /\ UNCHANGED <<ctl.session, ctl.format, ctl.recording>>
        BY <1>1, <1>3 DEF StopExtraction, Types, Phases, CtlType
    <2>2. PhaseInv'
        BY <1>1, <2>1 DEF PhaseInv, Full
    <2> QED
        BY <1>1, <2>1, <2>2, QuietControl
<1>4. CASE HonourRequest
    <2> DEFINE phase == IF ctl.phase = "recording" THEN "stopping" ELSE ctl.phase
    <2>1. /\ ctl' = [ctl EXCEPT !.stopRequested = FALSE, !.enabled = FALSE, !.phase = phase]
          /\ ctl.phase \notin {"starting", "stopping"}
        BY <1>4 DEF HonourRequest
    <2>2. /\ phase \in Phases
          /\ \/ ctl.phase = "recording" /\ phase = "stopping"
             \/ ctl.phase # "recording" /\ phase = ctl.phase
        BY <1>1 DEF Types, Phases, CtlType
    <2> HIDE DEF phase
    <2>3. /\ ctl' \in CtlType
          /\ ctl'.phase = phase /\ ctl'.enabled = FALSE
          /\ UNCHANGED <<ctl.session, ctl.format, ctl.recording>>
        BY <1>1, <2>1, <2>2 DEF Types, CtlType
    <2>4. PhaseInv'
        BY <1>1, <2>2, <2>3 DEF PhaseInv, Full
    <2> QED
        BY <1>1, <2>2, <2>3, <2>4, QuietControl
<1>5. CASE StopWriter
    <2>1. /\ ctl' \in CtlType
          /\ ctl.phase = "stopping" /\ ctl'.phase = "finalizing" /\ ctl'.recording = FALSE
          /\ UNCHANGED <<ctl.session, ctl.format, ctl.enabled>>
        BY <1>1, <1>5 DEF StopWriter, Types, Phases, CtlType
    <2>2. PhaseInv'
        BY <1>1, <2>1 DEF PhaseInv, Full
    <2> QED
        BY <1>1, <2>1, <2>2, QuietControl
<1> QED
    BY <1>2, <1>3, <1>4, <1>5

LEMMA NextLegacyInv == LegacyInv /\ [Next]_vars => LegacyInv'
<1> SUFFICES ASSUME LegacyInv, [Next]_vars PROVE LegacyInv'
    OBVIOUS
<1>1. CASE UNCHANGED vars
    <2>1. UNCHANGED <<ctl, ext, ring, spill, wr, file, hist>>
        BY <1>1 DEF vars
    <2>2. Types /\ PhaseInv
        BY DEF LegacyInv
    <2>3. ctl' \in CtlType
        BY <2>1, <2>2 DEF Types
    <2>4. PhaseInv'
        BY <2>1, <2>2 DEF PhaseInv, Full
    <2> QED
        BY <2>1, <2>3, <2>4, QuietControl
<1>2. CASE TakeBlock \/ GuardTrips \/ HandOver
    BY <1>2, TakeBlockInv, GuardTripsInv, HandOverInv
<1>3. CASE WriterTop \/ ReadRing \/ ReadSpill \/ ReadNothing \/ Recycle \/ WriteBlock
    BY <1>3, WriterTopInv, ReadRingInv, ReadSpillInv, ReadNothingInv, RecycleInv, WriteBlockInv
<1>4. CASE \/ FlacLocalFails \/ SpillBeforeRelease \/ RespillEnds \/ SpilledBlockFails
           \/ RawReleases \/ RawPreserves \/ RawPreserved \/ RawNotPreserved
    BY <1>4, FlacLocalFailsInv, SpillBeforeReleaseInv, RespillEndsInv, SpilledBlockFailsInv,
        RawReleasesInv, RawPreservesInv, RawRescueInv
<1>5. CASE Start \/ StartFails \/ Finalize
    BY <1>5, StartInv, StartFailsInv, FinalizeInv
<1>6. CASE EnableExtraction \/ StopExtraction \/ HonourRequest \/ StopWriter
    BY <1>6, FlagsInv
<1> QED
    BY <1>1, <1>2, <1>3, <1>4, <1>5, <1>6 DEF Next, Extraction, Writer, Control

-----------------------------------------------------------------------------
LEMMA LegacyInvariant == Spec => []LegacyInv
    BY InitLegacyInv, NextLegacyInv, PTL DEF Spec

(* The rings, flags and places of a converted recording keep their types,  *)
(* the record ring holds at most its size, and a FLAC or RAW writer about  *)
(* to write a ring block stands at the ring's read end                     *)
(* (gui_record.c:1157-1340, 1447-1600).                                    *)
THEOREM LegacyTypeCorrect == Spec => []TypeOK
<1>1. ASSUME LegacyInv PROVE TypeOK
    <2>1. Types /\ Typed /\ PhaseInv /\ WriterInv
        BY <1>1, LegacyTyped DEF LegacyInv
    <2>2. /\ ring.r \in Nat /\ ring.w \in Nat /\ RingSize \in Nat
          /\ ring.r <= ring.w /\ ring.w - ring.r <= RingSize
        BY <2>1, LegacyAssumption DEF Typed
    <2>3. ring.r \in 0 .. ring.w /\ ring.w - ring.r \in 0 .. RingSize
        BY <2>2
    <2>4. /\ wr.pc \in {"top", "ring", "spill", "recycle", "write", "respill", "preserve", "rescue",
                      "exited"}
          /\ wr.cell \in -1 .. RingSize - 1
        BY <2>1 DEF Types, WriterType
    <2>5. ctl.enabled => ctl.recording
        BY <2>1 DEF PhaseInv, Full
    <2> QED
        BY <2>1, <2>3, <2>4, <2>5 DEF TypeOK, WriterInv
<1> QED
    BY <1>1, LegacyInvariant, PTL

(* A file holds blocks of its own recording, but for what a reset caught   *)
(* half handed over, and zeros once an enqueue was disturbed:              *)
(* gui_record_start resets ring and spill file first                       *)
(* (gui_record.c:2845-2853).                                               *)
THEOREM FilesHoldTheirOwn == Spec => []OwnSession
<1>1. ASSUME LegacyInv PROVE OwnSession
    BY <1>1 DEF LegacyInv, OwnInv, Own, Placed, OwnSession
<1> QED
    BY <1>1, LegacyInvariant, PTL

(* The ring's positions and its blocks are as many when the blocks differ. *)
LEMMA WaitingCount ==
    ASSUME Typed, \A i, j \in Queued : i # j => Cell(i) # Cell(j)
    PROVE  IsFiniteSet(Waiting) /\ Cardinality(Waiting) = ring.w - ring.r
<1>1. ring.r \in Nat /\ ring.w \in Nat /\ ring.r <= ring.w
    BY DEF Typed
<1> DEFINE blocks == [i \in Queued |-> Cell(i)]
<1>2. blocks \in Bijection(Queued, Waiting)
    <2>1. blocks \in [Queued -> Waiting]
        BY DEF Waiting, Queued, Cell
    <2>2. \A i, j \in Queued : blocks[i] = blocks[j] => i = j
        OBVIOUS
    <2>3. \A x \in Waiting : \E i \in Queued : blocks[i] = x
        BY DEF Waiting, Queued, Cell
    <2> QED
        BY <2>1, <2>2, <2>3 DEF Bijection, Injection, Surjection, IsInjective
<1>3. IsFiniteSet(Queued) /\ Cardinality(Queued) = ring.w - ring.r
    <2>1. ring.r \in Int /\ ring.w - 1 \in Int
        BY <1>1
    <2>2. /\ IsFiniteSet(Queued)
          /\ Cardinality(Queued) = IF ring.r > ring.w - 1 THEN 0 ELSE ring.w - 1 - ring.r + 1
        BY <2>1, FS_Interval DEF Queued
    <2> QED
        BY <1>1, <2>2
<1>4. ExistsBijection(Queued, Waiting)
    BY <1>2 DEF ExistsBijection
<1> QED
    BY <1>3, <1>4, FS_Bijection

(* Until an enqueue is disturbed the unread blocks are all in the file.    *)
LEMMA UnreadCount ==
    ASSUME LegacyInv, ~Raced, \A i, j \in Unread : i # j => spill.data[i] # spill.data[j]
    PROVE  IsFiniteSet(InSpill) /\ Cardinality(Unread) = Cardinality(InSpill)
<1>1. /\ spill.r \in Nat /\ spill.w \in Nat /\ spill.r <= spill.w
      /\ spill.w = Len(spill.data) /\ spill.data \in Seq(Blocks)
    BY DEF LegacyInv, Types, SpillType, SpillInv
<1>2. DOMAIN spill.data = 1 .. spill.w
    BY <1>1
<1>3. Unread \subseteq DOMAIN spill.data
    BY <1>1, <1>2 DEF Unread
<1>4. InSpill = {spill.data[i] : i \in Unread}
    BY <1>3 DEF InSpill
<1> DEFINE blocks == [i \in Unread |-> spill.data[i]]
<1>5. blocks \in Bijection(Unread, InSpill)
    <2>1. blocks \in [Unread -> InSpill]
        BY <1>4
    <2>2. \A i, j \in Unread : blocks[i] = blocks[j] => i = j
        OBVIOUS
    <2>3. \A x \in InSpill : \E i \in Unread : blocks[i] = x
        BY <1>4
    <2> QED
        BY <2>1, <2>2, <2>3 DEF Bijection, Injection, Surjection, IsInjective
<1>6. IsFiniteSet(Unread)
    <2>1. spill.r + 1 \in Int /\ spill.w \in Int
        BY <1>1
    <2> QED
        BY <2>1, FS_Interval DEF Unread
<1>7. ExistsBijection(Unread, InSpill)
    BY <1>5 DEF ExistsBijection
<1> QED
    BY <1>6, <1>7, FS_Bijection

(* Disjoint finite sets add up.                                            *)
LEMMA DisjointSum ==
    ASSUME NEW S, NEW T, IsFiniteSet(S), IsFiniteSet(T), S \cap T = {}
    PROVE  /\ IsFiniteSet(S \cup T)
           /\ Cardinality(S \cup T) = Cardinality(S) + Cardinality(T)
<1>1. Cardinality(S) \in Nat /\ Cardinality(T) \in Nat
    BY FS_CardinalityType
<1>2. /\ IsFiniteSet(S \cup T)
      /\ Cardinality(S \cup T) = Cardinality(S) + Cardinality(T) - Cardinality(S \cap T)
    BY FS_Union
<1>3. Cardinality(S \cap T) = 0
    BY FS_EmptySet
<1> QED
    BY <1>1, <1>2, <1>3

(* While the writer encodes FLAC a block is in one place, and there once:  *)
(* its error branch spills a ring block before it releases it and never    *)
(* spills one that came from the spill file (gui_record.c:1245-1340).      *)
THEOREM FlacBlocksOnce == Spec => []NothingTwice
<1>1. ASSUME LegacyInv, ctl.format = "flac", ~Raced
      PROVE  /\ Cardinality(Unread) = Cardinality(InSpill) /\ Len(file) = Cardinality(InFile)
             /\ ring.w - ring.r = Cardinality(Waiting)
             /\ Cardinality(Waiting) + Cardinality(InSpill) + Cardinality(InFile)
                  + Cardinality(InHand)
                  = Cardinality(Waiting \cup InSpill \cup InFile \cup InHand)
    <2>1. /\ \A i, j \in Queued : i # j => Cell(i) # Cell(j)
          /\ \A i, j \in Unread : i # j => spill.data[i] # spill.data[j]
          /\ Distinct(file)
          /\ Waiting \cap InSpill = {} /\ Waiting \cap InFile = {} /\ Waiting \cap InHand = {}
          /\ InSpill \cap InFile = {} /\ InSpill \cap InHand = {} /\ InFile \cap InHand = {}
        BY <1>1 DEF LegacyInv, ApartInv
    <2>2. Typed /\ file \in Seq(Blocks)
        BY <1>1, LegacyTyped DEF Typed
    <2>3. IsFiniteSet(Waiting) /\ Cardinality(Waiting) = ring.w - ring.r
        BY <2>1, <2>2, WaitingCount
    <2>4. /\ IsFiniteSet(InSpill) /\ Cardinality(Unread) = Cardinality(InSpill)
          /\ IsFiniteSet(InFile) /\ Cardinality(InFile) = Len(file)
        BY <1>1, <2>1, <2>2, UnreadCount, DistinctCount DEF InFile
    <2>5. IsFiniteSet(InHand)
        BY FS_EmptySet, FS_Singleton DEF InHand
    <2> HIDE DEF Waiting, InSpill, InFile, InHand
    <2>6. /\ IsFiniteSet(Waiting \cup InSpill)
          /\ Cardinality(Waiting \cup InSpill) = Cardinality(Waiting) + Cardinality(InSpill)
        BY <2>1, <2>3, <2>4, DisjointSum
    <2>7. (Waiting \cup InSpill) \cap InFile = {}
        BY <2>1
    <2>8. /\ IsFiniteSet(Waiting \cup InSpill \cup InFile)
          /\ Cardinality(Waiting \cup InSpill \cup InFile)
               = Cardinality(Waiting \cup InSpill) + Cardinality(InFile)
        BY <2>4, <2>6, <2>7, DisjointSum
    <2>9. (Waiting \cup InSpill \cup InFile) \cap InHand = {}
        BY <2>1
    <2>10. Cardinality(Waiting \cup InSpill \cup InFile \cup InHand)
             = Cardinality(Waiting \cup InSpill \cup InFile) + Cardinality(InHand)
        BY <2>5, <2>8, <2>9, DisjointSum
    <2> QED
        BY <2>3, <2>4, <2>6, <2>8, <2>10
<1>2. ASSUME LegacyInv PROVE NothingTwice
    BY <1>1, <1>2 DEF NothingTwice
<1> QED
    BY <1>2, LegacyInvariant, PTL

(* When every write and every spill worked and no mishap happened, the     *)
(* finalized file holds each block handed over before is_recording was     *)
(* cleared, in order when none was spilled: the writer reads the flag      *)
(* before it looks for a block (gui_record.c:1157-1179, 3508-3565).        *)
THEOREM HealthyIsWhole == Spec => []HealthyIsComplete
<1>1. ASSUME LegacyInv, Ended, hist.mishaps = {}
      PROVE  hist.inTime \subseteq InFile
    <2>1. wr.pc = "exited" /\ Healthy
        BY <1>1 DEF LegacyInv, PhaseInv, Ended, Healthy
    <2> QED
        BY <1>1, <2>1 DEF LegacyInv, CompleteInv
<1>2. ASSUME LegacyInv, hist.mishaps = {}, ~hist.spilled
      PROVE  \A i, j \in DOMAIN file : i < j => file[i][2] < file[j][2]
    BY <1>2 DEF LegacyInv, OrderInv, Ordered, Raced
<1>3. ASSUME LegacyInv PROVE HealthyIsComplete
    BY <1>1, <1>2, <1>3 DEF HealthyIsComplete, Complete
<1> QED
    BY <1>3, LegacyInvariant, PTL
=============================================================================
