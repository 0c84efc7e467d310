----------------------------- MODULE SpillProofs -----------------------------
(***************************************************************************)
(* Proofs about SpillFile, for any number of threads that enqueue: until   *)
(* two threads have held write_offset at once, the spill file is a         *)
(* first-in first-out queue of what it accepted, for chunks and reads of   *)
(* any length and however often it is drained and truncated.               *)
(***************************************************************************)
EXTENDS MCSpillFile, SequenceTheorems, TLAPS

Byte == Nat \cup {Hole}

Taken == Len(delivered)

(* No offset passes what was offered, in any schedule.                     *)
RangeInv ==
    /\ TypeOK
    /\ write_offset <= offered
    /\ read_offset <= offered
    /\ \A p \in Producers : Enqueueing(p) => write_off[p] + esize[p] <= offered
    /\ rpc = "store" => read_offset + Len(block) <= offered

(* The one enqueue at hand writes behind everything published, and only a  *)
(* recycle that has already reset write_offset may be beside it.           *)
EnqueueInv ==
    /\ accepted <= offered
    /\ \A p \in Producers : Enqueueing(p) =>
          /\ write_off[p] = write_offset
          /\ esize[p] \in Chunks
          /\ accepted + esize[p] <= offered
          /\ rpc \notin {"locked", "truncated"}
          /\ rpc = "write_reset" => epc[p] = "write"
          /\ \A q \in Producers : Enqueueing(q) => q = p
    /\ rpc \in {"locked", "truncated", "write_reset"} => io_lock
    /\ ~opened => /\ write_offset = 0 /\ read_offset = 0 /\ accepted = 0 /\ Taken = 0
                  /\ rpc = "idle"
                  /\ \A p \in Producers : ~Enqueueing(p)

(* The backlog is what was accepted and not yet delivered; between the two *)
(* resets of a recycle only write_offset says so.                          *)
OffsetInv ==
    /\ read_offset <= Taken
    /\ rpc \in {"locked", "truncated"} => write_offset = read_offset
    /\ rpc = "write_reset" => write_offset = 0 /\ accepted = Taken
    /\ rpc # "write_reset" => write_offset - read_offset = accepted - Taken
    /\ Taken <= accepted

(* The bytes of the file, of a read and of the output.                     *)
DataInv ==
    /\ rpc # "write_reset" =>
         \A j \in 1 .. accepted - Taken :
            read_offset + j <= Len(file) /\ file[read_offset + j] = Taken + j - 1
    /\ \A p \in Producers : epc[p] = "publish" =>
         \A j \in 1 .. esize[p] :
            write_offset + j <= Len(file) /\ file[write_offset + j] = accepted + j - 1
    /\ rpc = "store" =>
         /\ Len(block) \in 1 .. accepted - Taken
         /\ \A j \in 1 .. Len(block) : block[j] = Taken + j - 1
    /\ \A i \in 1 .. Taken : delivered[i] = i - 1

SpillInv == RangeInv /\ EnqueueInv /\ OffsetInv /\ DataInv

-----------------------------------------------------------------------------
(* Bytes written behind an offset leave what lies before it alone.         *)
LEMMA WrittenContents ==
    ASSUME NEW f \in Seq(Byte), NEW bytes \in Seq(Byte), NEW offset \in Nat
    PROVE  LET w == WrittenAt(f, offset, bytes)
           IN  /\ w \in Seq(Byte)
               /\ Len(w) >= offset + Len(bytes)
               /\ \A j \in 1 .. Len(bytes) : w[offset + j] = bytes[j]
               /\ \A x \in 1 .. Len(f) : x <= offset => w[x] = f[x]
<1> DEFINE n == offset + Len(bytes)
           head == [x \in 1 .. n |-> IF x > offset THEN bytes[x - offset]
                                     ELSE IF x <= Len(f) THEN f[x] ELSE Hole]
           tail == SubSeq(f, n + 1, Len(f))
<1>1. Len(bytes) \in Nat /\ Len(f) \in Nat /\ n \in Nat
    OBVIOUS
<1>2. head \in Seq(Byte) /\ Len(head) = n
    <2>1. \A x \in 1 .. n : head[x] \in Byte
        BY <1>1 DEF Byte
    <2> QED
        BY <1>1, <2>1
<1>3. tail \in Seq(Byte)
    <2>1. \A x \in n + 1 .. Len(f) : f[x] \in Byte
        BY <1>1
    <2> QED
        BY <1>1, <2>1, SubSeqProperties
<1>4. WrittenAt(f, offset, bytes) = head \o tail
    BY DEF WrittenAt
<1> DEFINE w == head \o tail
<1>5. \A x \in 1 .. n : head[x] = IF x > offset THEN bytes[x - offset]
                                  ELSE IF x <= Len(f) THEN f[x] ELSE Hole
    OBVIOUS
<1> HIDE DEF head, tail
<1>6. /\ w \in Seq(Byte) /\ Len(w) = n + Len(tail) /\ Len(tail) \in Nat
      /\ \A x \in 1 .. n : w[x] = head[x]
    <2>1. /\ w \in Seq(Byte) /\ Len(w) = Len(head) + Len(tail)
          /\ \A x \in 1 .. Len(head) + Len(tail) :
                w[x] = IF x <= Len(head) THEN head[x] ELSE tail[x - Len(head)]
        <3>1. \A s, t \in Seq(Byte) :
                 /\ s \o t \in Seq(Byte) /\ Len(s \o t) = Len(s) + Len(t)
                 /\ \A x \in 1 .. Len(s) + Len(t) :
                       (s \o t)[x] = IF x <= Len(s) THEN s[x] ELSE t[x - Len(s)]
            BY ConcatProperties
        <3> QED
            BY <1>2, <1>3, <3>1
    <2>2. Len(tail) \in Nat
        BY <1>3
    <2> HIDE DEF w
    <2> QED
        BY <1>1, <1>2, <2>1, <2>2
<1> HIDE DEF w
<1>7. \A j \in 1 .. Len(bytes) : w[offset + j] = bytes[j]
    <2> SUFFICES ASSUME NEW j \in 1 .. Len(bytes) PROVE w[offset + j] = bytes[j]
        OBVIOUS
    <2>1. offset + j \in 1 .. n /\ offset + j > offset /\ (offset + j) - offset = j
        BY <1>1
    <2> QED
        BY <1>5, <1>6, <2>1
<1>8. \A x \in 1 .. Len(f) : x <= offset => w[x] = f[x]
    <2> SUFFICES ASSUME NEW x \in 1 .. Len(f), x <= offset PROVE w[x] = f[x]
        OBVIOUS
    <2>1. x \in 1 .. n /\ ~(x > offset)
        BY <1>1
    <2> QED
        BY <1>5, <1>6, <2>1
<1> QED
    BY <1>1, <1>4, <1>6, <1>7, <1>8 DEF w

Typed ==
    /\ accepted \in Nat /\ Taken \in Nat
    /\ MaxOffered \in Nat /\ MaxBlock \in Nat /\ MaxBlock > 0
    /\ write_offset \in Nat /\ read_offset \in Nat /\ offered \in Nat
    /\ offered <= MaxOffered
    /\ Len(file) \in Nat /\ Len(block) \in Nat
    /\ file \in Seq(Byte) /\ block \in Seq(Byte) /\ delivered \in Seq(Byte)
    /\ \A c \in Chunks : c \in Nat /\ c > 0
    /\ \A p \in Producers : esize[p] \in Nat /\ write_off[p] \in Nat

LEMMA SpillTyped == ASSUME RangeInv PROVE Typed
<1>1. \A c \in Chunks : c \in Nat /\ c > 0
    BY SpillAssumption
<1>2. /\ file \in Seq(Byte) /\ block \in Seq(Byte) /\ delivered \in Seq(Byte)
    BY DEF RangeInv, TypeOK, Byte
<1>3. ASSUME NEW p \in Producers PROVE esize[p] \in Nat /\ write_off[p] \in Nat
    <2>1. esize[p] \in {0} \cup Chunks /\ write_off[p] \in 0 .. MaxOffered
        BY DEF RangeInv, TypeOK
    <2> QED
        BY <1>1, <2>1, SpillAssumption
<1>4. /\ write_offset \in Nat /\ read_offset \in Nat /\ offered \in Nat
      /\ accepted \in Nat /\ offered <= MaxOffered
    BY SpillAssumption DEF RangeInv, TypeOK
<1>5. Len(file) \in Nat /\ Len(block) \in Nat /\ Taken \in Nat
    BY <1>2 DEF Taken
<1> QED
    BY <1>1, <1>2, <1>3, <1>4, <1>5, SpillAssumption DEF Typed

(* The bytes of an enqueue carry the next numbers.                         *)
LEMMA ChunkBytes ==
    ASSUME NEW p \in Producers, RangeInv
    PROVE  /\ ChunkOf(p) \in Seq(Byte) /\ Len(ChunkOf(p)) = esize[p]
           /\ \A j \in 1 .. esize[p] : ChunkOf(p)[j] = accepted + j - 1
<1>1. esize[p] \in Nat /\ accepted \in Nat
    BY SpillTyped DEF Typed
<1> DEFINE n == esize[p]
<1>2. \A j \in 1 .. n : accepted + j - 1 \in Byte
    BY <1>1 DEF Byte
<1>3. ChunkOf(p) = [j \in 1 .. n |-> accepted + j - 1]
    BY DEF ChunkOf
<1> HIDE DEF n
<1>4. n \in Nat
    BY <1>1 DEF n
<1>5. [j \in 1 .. n |-> accepted + j - 1] \in Seq(Byte)
    BY <1>2, <1>4
<1> QED
    BY <1>3, <1>4, <1>5 DEF n

(* What an fwrite leaves in the file, whole or cut short, is bytes.        *)
LEMMA WriteOutcome ==
    ASSUME NEW p \in Producers, RangeInv, EnqueueWrite(p) \/ EnqueueFails(p)
    PROVE  \E bytes \in Seq(Byte) :
              /\ file' = WrittenAt(file, write_off[p], bytes)
              /\ EnqueueWrite(p) => bytes = ChunkOf(p)
<1>1. CASE EnqueueWrite(p)
    BY <1>1, ChunkBytes DEF EnqueueWrite
<1>2. CASE EnqueueFails(p) /\ ~EnqueueWrite(p)
    <2>1. PICK k \in 0 .. esize[p] - 1 :
             file' = WrittenAt(file, write_off[p], SubSeq(ChunkOf(p), 1, k))
        BY <1>2 DEF EnqueueFails
    <2>2. SubSeq(ChunkOf(p), 1, k) \in Seq(Byte)
        <3>1. \A x \in 1 .. k : ChunkOf(p)[x] \in Byte
            BY SMTT(30), ChunkBytes, SpillTyped DEF Typed
        <3>2. k \in Nat
            BY SpillTyped DEF Typed
        <3> QED
            BY <3>1, <3>2, SubSeqProperties
    <2> QED
        BY <1>2, <2>1, <2>2
<1> QED
    BY <1>1, <1>2

-----------------------------------------------------------------------------
(* RangeInv holds in every schedule.                                       *)

LEMMA InitRangeInv == Init => RangeInv
<1> SUFFICES ASSUME Init PROVE RangeInv
    OBVIOUS
<1> USE SpillAssumption DEF Init
<1>1. <<>> \in Seq(Nat \cup {Hole})
    OBVIOUS
<1>2. /\ epc \in [Producers -> {"idle", "open", "write", "publish"}]
      /\ write_off \in [Producers -> 0 .. MaxOffered]
      /\ esize \in [Producers -> {0} \cup Chunks]
    OBVIOUS
<1>3. TypeOK
    <2>1. /\ write_offset \in 0 .. MaxOffered /\ read_offset \in 0 .. MaxOffered
          /\ offered \in 0 .. MaxOffered /\ accepted \in Nat
        OBVIOUS
    <2>2. /\ opened \in BOOLEAN /\ io_lock \in BOOLEAN /\ raced \in BOOLEAN
          /\ rpc \in {"idle", "store", "check", "recycle", "locked", "truncated",
                      "write_reset"}
        OBVIOUS
    <2> QED
        BY <1>1, <1>2, <2>1, <2>2 DEF TypeOK
<1>4. \A p \in Producers : ~Enqueueing(p)
    BY DEF Enqueueing
<1> QED
    BY <1>3, <1>4 DEF RangeInv

LEMMA EnqueueRangeInv ==
    ASSUME NEW p \in Producers, RangeInv, EnqueueStep(p) PROVE RangeInv'
<1>0. Typed
    BY SpillTyped
<1> USE DEF RangeInv
<1>1. CASE OpenChannel(p) \/ OpenFails(p)
    <2>1. /\ UNCHANGED <<fileVars, write_off, esize, offered, accepted, readerVars, raced>>
          /\ epc' \in [Producers -> {"idle", "open", "write", "publish"}]
          /\ \A q \in Producers : Enqueueing(q)' => Enqueueing(q)
        BY <1>1 DEF OpenChannel, OpenFails, TypeOK, Enqueueing
    <2> QED
        BY <2>1 DEF TypeOK, fileVars, readerVars
<1>2. CASE OpenCreates(p)
    <2>1. /\ UNCHANGED <<io_lock, write_off, esize, offered, accepted, readerVars>>
          /\ epc' \in [Producers -> {"idle", "open", "write", "publish"}]
          /\ \A q \in Producers : Enqueueing(q)' => Enqueueing(q)
          /\ opened' = TRUE /\ write_offset' = 0 /\ read_offset' = 0 /\ file' = <<>>
          /\ raced' \in BOOLEAN
        BY <1>2 DEF OpenCreates, TypeOK, Enqueueing
    <2>2. <<>> \in Seq(Nat \cup {Hole})
        OBVIOUS
    <2>3. rpc' = "store" => read_offset' + Len(block') <= offered'
        BY <1>0, <2>1 DEF readerVars, Typed
    <2> QED
        BY <1>0, <2>1, <2>2, <2>3 DEF TypeOK, readerVars, Typed
<1>3. CASE \E n \in Chunks : EnqueueLoad(p, n)
    <2>1. PICK n \in Chunks : EnqueueLoad(p, n)
        BY <1>3
    <2>2. /\ UNCHANGED <<fileVars, accepted, readerVars>>
          /\ offered' = offered + n /\ offered + n <= MaxOffered /\ n \in Nat
          /\ raced' \in BOOLEAN
        BY <1>0, <2>1 DEF EnqueueLoad, Typed
    <2>3. /\ epc' \in [Producers -> {"idle", "open", "write", "publish"}]
          /\ write_off' \in [Producers -> 0 .. MaxOffered]
          /\ esize' \in [Producers -> {0} \cup Chunks]
        BY <2>1 DEF EnqueueLoad, TypeOK
    <2>4. ASSUME NEW q \in Producers, Enqueueing(q)'
          PROVE  write_off'[q] + esize'[q] <= offered'
        <3>1. CASE q = p
            BY <1>0, <2>1, <2>2, <3>1 DEF EnqueueLoad, TypeOK, Typed
        <3>2. CASE q # p
            <4>1. Enqueueing(q) /\ write_off'[q] = write_off[q] /\ esize'[q] = esize[q]
                BY <2>1, <2>4, <3>2 DEF EnqueueLoad, TypeOK, Enqueueing
            <4> QED
                BY <1>0, <2>2, <4>1 DEF Typed
        <3> QED
            BY <3>1, <3>2
    <2>5. offered' \in 0 .. MaxOffered /\ offered <= offered'
        BY <1>0, <2>2 DEF Typed
    <2>6. write_offset' <= offered' /\ read_offset' <= offered'
          /\ (rpc' = "store" => read_offset' + Len(block') <= offered')
        BY <1>0, <2>2, <2>5 DEF Typed, fileVars, readerVars
    <2>7. TypeOK'
        BY <2>2, <2>3, <2>5 DEF TypeOK, fileVars, readerVars
    <2> QED
        BY <2>4, <2>6, <2>7
<1>4. CASE EnqueueWrite(p) \/ EnqueueFails(p)
    <2>1. PICK bytes \in Seq(Byte) : file' = WrittenAt(file, write_off[p], bytes)
        BY <1>4, WriteOutcome
    <2>2. file' \in Seq(Byte)
        <3>1. file \in Seq(Byte) /\ write_off[p] \in Nat
            BY <1>0 DEF Typed
        <3> QED
            BY <2>1, <3>1, WrittenContents
    <2>3. /\ UNCHANGED <<opened, write_offset, read_offset, io_lock, write_off, esize, offered,
                         accepted, readerVars, raced>>
          /\ epc' \in [Producers -> {"idle", "open", "write", "publish"}]
          /\ \A q \in Producers : Enqueueing(q)' => Enqueueing(q)
        BY <1>4 DEF EnqueueWrite, EnqueueFails, TypeOK, Enqueueing
    <2> QED
        BY <2>2, <2>3 DEF TypeOK, readerVars, Byte
<1>5. CASE EnqueuePublish(p)
    <2>1. /\ UNCHANGED <<opened, read_offset, io_lock, file, write_off, esize, offered,
                         readerVars, raced>>
          /\ epc' \in [Producers -> {"idle", "open", "write", "publish"}]
          /\ \A q \in Producers : Enqueueing(q)' => Enqueueing(q)
          /\ write_offset' = write_off[p] + esize[p] /\ accepted' = accepted + esize[p]
          /\ Enqueueing(p)
        BY <1>5 DEF EnqueuePublish, TypeOK, Enqueueing
    <2>2. write_offset' \in 0 .. MaxOffered /\ write_offset' <= offered' /\ accepted' \in Nat
        BY SMTT(30), <1>0, <2>1 DEF Typed
    <2> QED
        BY <2>1, <2>2 DEF TypeOK, readerVars
<1> QED
    BY <1>1, <1>2, <1>3, <1>4, <1>5 DEF EnqueueStep, EnqueueGoesOn

LEMMA ReaderRangeInv == ASSUME RangeInv, ReaderStep PROVE RangeInv'
<1>0. Typed
    BY SpillTyped
<1> USE DEF RangeInv
<1>1. CASE ReadBlock
    <2>1. UNCHANGED <<fileVars, enqueueVars, delivered, raced>> /\ rpc' = "store"
          /\ block' = SubSeq(file, read_offset + 1, read_offset + Wanted)
          /\ read_offset + Wanted <= Len(file) /\ Backlog > 0
        BY <1>1 DEF ReadBlock
    <2>2. /\ Wanted \in Nat /\ Wanted >= 1
          /\ read_offset + Wanted <= write_offset
        <3>1. Backlog = write_offset - read_offset /\ write_offset > read_offset
            BY <1>0, <2>1 DEF Backlog, Typed
        <3> QED
            BY <1>0, <3>1 DEF Wanted, Typed
    <2>3. block' \in Seq(Byte) /\ Len(block') = Wanted
        <3>1. \A x \in read_offset + 1 .. read_offset + Wanted : file[x] \in Byte
            BY <1>0, <2>1, <2>2 DEF Typed
        <3> HIDE DEF Wanted
        <3> QED
            BY <1>0, <2>1, <2>2, <3>1, SubSeqProperties DEF Typed
    <2>4. TypeOK'
        BY <2>1, <2>3 DEF TypeOK, fileVars, enqueueVars, Byte
    <2>5. read_offset' + Len(block') <= offered'
        <3>1. read_offset' = read_offset /\ offered' = offered /\ Len(block') = Wanted
            BY <2>1, <2>3 DEF fileVars, enqueueVars
        <3>2. write_offset <= offered /\ write_offset \in Nat /\ read_offset \in Nat
              /\ offered \in Nat
            BY <1>0 DEF Typed
        <3> HIDE DEF RangeInv
        <3> QED
            BY <2>2, <3>1, <3>2
    <2> QED
        BY <2>1, <2>4, <2>5 DEF fileVars, enqueueVars, Enqueueing
<1>2. CASE ReadStore
    <2>1. /\ UNCHANGED <<opened, write_offset, io_lock, file, enqueueVars, raced>>
          /\ rpc' = "check" /\ block' = <<>> /\ rpc = "store"
          /\ read_offset' = read_offset + Len(block) /\ delivered' = delivered \o block
        BY <1>2 DEF ReadStore
    <2>2. delivered' \in Seq(Byte)
        BY <1>0, <2>1, ConcatProperties DEF Typed
    <2>3. read_offset' \in 0 .. MaxOffered /\ read_offset' <= offered'
        BY <1>0, <2>1 DEF Typed, enqueueVars
    <2>4. <<>> \in Seq(Nat \cup {Hole})
        OBVIOUS
    <2>5. TypeOK'
        BY <2>1, <2>2, <2>3, <2>4 DEF TypeOK, enqueueVars, Byte
    <2> QED
        BY <2>1, <2>3, <2>5 DEF enqueueVars, Enqueueing
<1>3. CASE RecycleCheck \/ RecycleLock
    <2>1. /\ UNCHANGED <<opened, write_offset, read_offset, file, enqueueVars, block, delivered>>
          /\ io_lock' \in BOOLEAN /\ raced' \in BOOLEAN
          /\ rpc' \in {"recycle", "locked", "idle"}
        BY <1>3 DEF RecycleCheck, RecycleLock, fileVars, TypeOK
    <2> QED
        BY <2>1 DEF TypeOK, enqueueVars, Enqueueing
<1>4. CASE RecycleTruncate \/ RecycleResetsWrite \/ RecycleResetsRead
    <2>1. /\ UNCHANGED <<opened, enqueueVars, block, delivered, raced>>
          /\ write_offset' \in {0, write_offset} /\ read_offset' \in {0, read_offset}
          /\ file' \in {<<>>, file} /\ io_lock' \in BOOLEAN
          /\ rpc' \in {"truncated", "write_reset", "idle"}
        BY <1>4 DEF RecycleTruncate, RecycleResetsWrite, RecycleResetsRead, TypeOK
    <2>2. <<>> \in Seq(Nat \cup {Hole})
        OBVIOUS
    <2>3. file' \in Seq(Nat \cup {Hole})
        BY <2>1, <2>2 DEF TypeOK
    <2>4. /\ write_offset' \in 0 .. MaxOffered /\ read_offset' \in 0 .. MaxOffered
          /\ write_offset' <= offered /\ read_offset' <= offered
        BY <1>0, <2>1 DEF Typed
    <2> QED
        BY <2>1, <2>3, <2>4 DEF TypeOK, enqueueVars, Enqueueing
<1> QED
    BY <1>1, <1>2, <1>3, <1>4 DEF ReaderStep

LEMMA NextRangeInv == RangeInv /\ [Next]_vars => RangeInv'
<1> SUFFICES ASSUME RangeInv, [Next]_vars PROVE RangeInv'
    OBVIOUS
<1>1. CASE UNCHANGED vars
    BY <1>1 DEF vars, fileVars, enqueueVars, readerVars, RangeInv, TypeOK, Enqueueing
<1> QED
    BY <1>1, EnqueueRangeInv, ReaderRangeInv DEF Next

LEMMA InitSpillInv == ASSUME Init PROVE SpillInv
<1>1. RangeInv
    BY InitRangeInv
<1> USE SpillAssumption DEF Init
<1>2. EnqueueInv
    BY DEF EnqueueInv, Enqueueing, Taken
<1>3. OffsetInv
    <2>1. Taken = 0 /\ accepted = 0 /\ write_offset = 0 /\ read_offset = 0 /\ rpc = "idle"
        BY DEF Taken
    <2> QED
        BY <2>1 DEF OffsetInv
<1>4. DataInv
    BY DEF DataInv, Taken
<1> QED
    BY <1>1, <1>2, <1>3, <1>4 DEF SpillInv

-----------------------------------------------------------------------------
(* gui_record_spill_enqueue, as long as nobody has raced for write_offset. *)

Core == EnqueueInv /\ OffsetInv /\ DataInv

(* The history variable never comes back to FALSE.                         *)
LEMMA RacedStays == TypeOK /\ [Next]_vars => (raced => raced')
<1> SUFFICES ASSUME TypeOK, [Next]_vars, raced PROVE raced'
    OBVIOUS
<1>1. ASSUME NEW p \in Producers, EnqueueStep(p) PROVE raced'
    BY <1>1 DEF EnqueueStep, EnqueueGoesOn, OpenChannel, OpenCreates, OpenFails, EnqueueLoad,
        EnqueueWrite, EnqueueFails, EnqueuePublish
<1>2. CASE ReaderStep
    BY <1>2 DEF ReaderStep, ReadBlock, ReadStore, RecycleCheck, RecycleLock, RecycleTruncate,
        RecycleResetsWrite, RecycleResetsRead
<1>3. CASE UNCHANGED vars
    BY <1>3 DEF vars
<1> QED
    BY <1>1, <1>2, <1>3 DEF Next

LEMMA OpenInv ==
    ASSUME NEW p \in Producers, SpillInv, OpenChannel(p) \/ OpenFails(p)
    PROVE  Core'
<1>1. /\ UNCHANGED <<fileVars, write_off, esize, offered, accepted, readerVars>>
      /\ \A q \in Producers : /\ Enqueueing(q)' <=> Enqueueing(q)
                              /\ Enqueueing(q) => epc'[q] = epc[q]
                              /\ epc'[q] = "publish" <=> epc[q] = "publish"
    BY DEF OpenChannel, OpenFails, Free, SpillInv, RangeInv, TypeOK, Enqueueing
<1>2. EnqueueInv'
    BY <1>1 DEF SpillInv, EnqueueInv, Taken, fileVars, readerVars
<1>3. OffsetInv' /\ DataInv'
    BY <1>1 DEF SpillInv, OffsetInv, DataInv, Taken, fileVars, readerVars
<1> QED
    BY <1>2, <1>3 DEF Core

(* The file is created while it is not there, so there is nothing in it.   *)
LEMMA OpenCreatesInv ==
    ASSUME NEW p \in Producers, SpillInv, OpenCreates(p), ~raced'
    PROVE  Core'
<1>0. Typed
    BY SpillTyped DEF SpillInv
<1>1. /\ UNCHANGED <<io_lock, write_off, esize, offered, accepted, readerVars>>
      /\ opened' = TRUE /\ write_offset' = 0 /\ read_offset' = 0 /\ ~opened
      /\ \A q \in Producers : /\ Enqueueing(q)' => Enqueueing(q)
                              /\ epc'[q] = "publish" => epc[q] = "publish"
    BY DEF OpenCreates, SpillInv, RangeInv, TypeOK, Enqueueing
<1>2. /\ write_offset = 0 /\ read_offset = 0 /\ accepted = 0 /\ Taken = 0 /\ rpc = "idle"
      /\ \A q \in Producers : ~Enqueueing(q)
    BY <1>1 DEF SpillInv, EnqueueInv
<1>3. /\ accepted' = 0 /\ Taken' = 0 /\ rpc' = "idle" /\ offered' = offered
      /\ \A q \in Producers : ~Enqueueing(q)' /\ epc'[q] # "publish"
    BY <1>1, <1>2 DEF Taken, readerVars, Enqueueing
<1>4. EnqueueInv'
    BY <1>0, <1>1, <1>3 DEF EnqueueInv, Typed
<1>5. OffsetInv' /\ DataInv'
    BY <1>1, <1>3 DEF OffsetInv, DataInv
<1> QED
    BY <1>4, <1>5 DEF Core

(* Nobody else holds the offset that is loaded.                            *)
LEMMA EnqueueLoadInv ==
    ASSUME NEW p \in Producers, SpillInv, NEW n \in Chunks, EnqueueLoad(p, n), ~raced'
    PROVE  Core'
<1>0. Typed
    BY SpillTyped DEF SpillInv
<1>1. /\ UNCHANGED <<fileVars, accepted, readerVars>> /\ opened /\ Taken' = Taken
      /\ offered' = offered + n /\ offered + n <= MaxOffered /\ n \in Nat
      /\ rpc \notin {"locked", "truncated"}
      /\ \A q \in Producers : ~Enqueueing(q)
    BY <1>0 DEF EnqueueLoad, HoldsOffset, Typed, Taken, readerVars
<1>2. /\ epc'[p] = "write" /\ esize'[p] = n /\ write_off'[p] = write_offset
      /\ \A q \in Producers : q # p => epc'[q] = epc[q]
    BY DEF EnqueueLoad, SpillInv, RangeInv, TypeOK
<1>3. /\ \A q \in Producers : Enqueueing(q)' => q = p
      /\ \A q \in Producers : epc'[q] # "publish"
    BY <1>1, <1>2 DEF Enqueueing
<1>4. accepted' + n <= offered' /\ accepted' <= offered'
    <2>1. accepted <= offered /\ accepted \in Nat /\ offered \in Nat
        BY <1>0 DEF SpillInv, EnqueueInv, Typed
    <2> QED
        BY <1>1, <2>1
<1>5. EnqueueInv'
    <2>1. (rpc' \in {"locked", "truncated", "write_reset"} => io_lock') /\ opened'
        BY <1>1 DEF SpillInv, EnqueueInv, fileVars, readerVars
    <2>2. write_offset' = write_offset /\ rpc' = rpc
        BY <1>1 DEF fileVars, readerVars
    <2> QED
        BY <1>1, <1>2, <1>3, <1>4, <2>1, <2>2 DEF EnqueueInv
<1>6. OffsetInv'
    BY <1>1 DEF SpillInv, OffsetInv, fileVars, readerVars
<1>7. DataInv'
    BY <1>1, <1>3 DEF SpillInv, DataInv, fileVars, readerVars
<1> QED
    BY <1>5, <1>6, <1>7 DEF Core

(* Arithmetic: the x-th unread byte lies before write_offset.              *)
LEMMA BeforeWriteOffset ==
    ASSUME NEW w \in Nat, NEW r \in Nat, NEW a \in Nat, NEW t \in Nat, NEW l \in Nat,
           w - r = a - t, NEW j \in 1 .. a - t, r + j <= l
    PROVE  r + j \in 1 .. l /\ r + j <= w
    OBVIOUS

(* A write behind the published bytes keeps them.                          *)
LEMMA WriteKeepsBytes ==
    ASSUME NEW p \in Producers, SpillInv, epc[p] = "write", ~io_lock,
           NEW bytes \in Seq(Byte), file' = WrittenAt(file, write_off[p], bytes)
    PROVE  /\ rpc # "write_reset"
           /\ \A j \in 1 .. accepted - Taken :
                 read_offset + j <= Len(file') /\ file'[read_offset + j] = Taken + j - 1
           /\ \A j \in 1 .. Len(bytes) :
                 write_offset + j <= Len(file') /\ file'[write_offset + j] = bytes[j]
<1>0. Typed
    BY SpillTyped DEF SpillInv
<1>1. write_off[p] = write_offset /\ rpc # "write_reset"
    BY DEF SpillInv, EnqueueInv, Enqueueing
<1>2. /\ write_offset - read_offset = accepted - Taken
      /\ \A j \in 1 .. accepted - Taken :
            read_offset + j <= Len(file) /\ file[read_offset + j] = Taken + j - 1
    BY <1>1 DEF SpillInv, OffsetInv, DataInv
<1>3. /\ file' \in Seq(Byte) /\ Len(file') >= write_offset + Len(bytes)
      /\ \A j \in 1 .. Len(bytes) : file'[write_offset + j] = bytes[j]
      /\ \A x \in 1 .. Len(file) : x <= write_offset => file'[x] = file[x]
    <2>1. file \in Seq(Byte) /\ write_offset \in Nat
        BY <1>0 DEF Typed
    <2> DEFINE contents == WrittenAt(file, write_offset, bytes)
    <2>2. /\ contents \in Seq(Byte) /\ Len(contents) >= write_offset + Len(bytes)
          /\ \A j \in 1 .. Len(bytes) : contents[write_offset + j] = bytes[j]
          /\ \A x \in 1 .. Len(file) : x <= write_offset => contents[x] = file[x]
        BY <2>1, WrittenContents
    <2>3. file' = contents
        BY <1>1
    <2> HIDE DEF contents
    <2> QED
        BY <2>2, <2>3
<1>4. Len(file') \in Nat /\ Len(bytes) \in Nat /\ Len(file) \in Nat
    BY <1>0, <1>3 DEF Typed
<1>5. /\ write_offset \in Nat /\ read_offset \in Nat /\ accepted \in Nat /\ Taken \in Nat
    BY <1>0 DEF Typed
<1>6. ASSUME NEW j \in 1 .. accepted - Taken
      PROVE  read_offset + j <= Len(file') /\ file'[read_offset + j] = Taken + j - 1
    <2>1. read_offset + j \in 1 .. Len(file) /\ read_offset + j <= write_offset
        BY <1>2, <1>4, <1>5, BeforeWriteOffset
    <2>2. file'[read_offset + j] = Taken + j - 1
        BY <1>2, <1>3, <2>1
    <2>3. read_offset + j <= Len(file')
        BY <1>3, <1>4, <1>5, <2>1
    <2> QED
        BY <2>2, <2>3
<1>7. \A j \in 1 .. Len(bytes) : write_offset + j <= Len(file')
    BY <1>3, <1>4, <1>5
<1> QED
    BY <1>1, <1>3, <1>6, <1>7

LEMMA EnqueueWriteInv ==
    ASSUME NEW p \in Producers, SpillInv, EnqueueWrite(p) \/ EnqueueFails(p)
    PROVE  Core'
<1>0. Typed
    BY SpillTyped DEF SpillInv
<1>1. /\ UNCHANGED <<opened, write_offset, read_offset, io_lock, write_off, esize, offered,
                     accepted, readerVars>>
      /\ epc[p] = "write" /\ ~io_lock /\ Taken' = Taken
    BY DEF EnqueueWrite, EnqueueFails, Taken, readerVars
<1>2. PICK bytes \in Seq(Byte) :
         /\ file' = WrittenAt(file, write_off[p], bytes)
         /\ EnqueueWrite(p) => bytes = ChunkOf(p)
    BY WriteOutcome DEF SpillInv
<1>3. /\ rpc # "write_reset"
      /\ \A j \in 1 .. accepted - Taken :
            read_offset + j <= Len(file') /\ file'[read_offset + j] = Taken + j - 1
      /\ \A j \in 1 .. Len(bytes) :
            write_offset + j <= Len(file') /\ file'[write_offset + j] = bytes[j]
    BY <1>1, <1>2, WriteKeepsBytes
<1>4. epc' = [epc EXCEPT ![p] = "publish"] \/ epc' = [epc EXCEPT ![p] = "idle"]
    BY DEF EnqueueWrite, EnqueueFails
<1>5. epc'[p] \in {"publish", "idle"} /\ (epc'[p] = "publish" => EnqueueWrite(p))
      /\ \A q \in Producers : q # p => epc'[q] = epc[q]
    BY DEF EnqueueWrite, EnqueueFails, SpillInv, RangeInv, TypeOK
<1>6. \A q \in Producers : Enqueueing(q) => q = p
    BY <1>1 DEF SpillInv, EnqueueInv, Enqueueing
<1>7. \A q \in Producers : (Enqueueing(q)' => Enqueueing(q)) /\ (epc'[q] = "publish" => q = p)
    BY <1>1, <1>5, <1>6 DEF Enqueueing
<1>8. EnqueueInv'
    BY <1>1, <1>3, <1>7 DEF SpillInv, EnqueueInv, readerVars
<1>9. OffsetInv'
    BY <1>1 DEF SpillInv, OffsetInv, readerVars
<1>10. DataInv'
    <2>1. ASSUME NEW q \in Producers, epc'[q] = "publish"
          PROVE  \A j \in 1 .. esize'[q] :
                    write_offset' + j <= Len(file')
                    /\ file'[write_offset' + j] = accepted' + j - 1
        <3>1. q = p /\ bytes = ChunkOf(p)
            BY <1>2, <1>5, <1>7, <2>1
        <3>2. /\ Len(bytes) = esize[p]
              /\ \A j \in 1 .. esize[p] : bytes[j] = accepted + j - 1
            BY <3>1, ChunkBytes DEF SpillInv
        <3> QED
            BY <1>1, <1>3, <3>1, <3>2
    <2> QED
        BY <1>1, <1>3, <2>1 DEF SpillInv, DataInv, readerVars
<1> QED
    BY <1>8, <1>9, <1>10 DEF Core
(* Arithmetic of a publication: the new bytes follow the unread ones.      *)
LEMMA PublishedOffsets ==
    ASSUME NEW w \in Nat, NEW r \in Nat, NEW a \in Nat, NEW t \in Nat, NEW k \in Nat,
           w - r = a - t, t <= a, NEW j \in 1 .. (a + k) - t, ~(j <= a - t)
    PROVE  /\ j - (a - t) \in 1 .. k
           /\ r + j = w + (j - (a - t))
           /\ t + j - 1 = a + (j - (a - t)) - 1
    OBVIOUS

LEMMA EnqueuePublishInv ==
    ASSUME NEW p \in Producers, SpillInv, EnqueuePublish(p)
    PROVE  Core'
<1>0. Typed
    BY SpillTyped DEF SpillInv
<1> DEFINE k == esize[p]
<1>1. /\ UNCHANGED <<opened, read_offset, io_lock, file, write_off, esize, offered, readerVars>>
      /\ epc[p] = "publish" /\ write_offset' = write_off[p] + k /\ accepted' = accepted + k
      /\ Taken' = Taken /\ rpc' = rpc
    BY DEF EnqueuePublish, Taken, readerVars
<1>2. /\ write_off[p] = write_offset /\ rpc \notin {"locked", "truncated", "write_reset"}
      /\ accepted + k <= offered /\ opened
      /\ \A q \in Producers : Enqueueing(q) => q = p
    BY <1>1 DEF SpillInv, EnqueueInv, Enqueueing
<1>3. \A q \in Producers : ~Enqueueing(q)' /\ epc'[q] # "publish"
    BY <1>2 DEF EnqueuePublish, SpillInv, RangeInv, TypeOK, Enqueueing
<1>4. /\ write_offset - read_offset = accepted - Taken
      /\ read_offset <= Taken /\ Taken <= accepted
    BY <1>2 DEF SpillInv, OffsetInv
<1>5. /\ accepted \in Nat /\ k \in Nat /\ Taken \in Nat /\ write_offset \in Nat
      /\ read_offset \in Nat /\ Len(file) \in Nat
    BY <1>0 DEF Typed
<1> HIDE DEF k
<1>6. EnqueueInv'
    BY <1>1, <1>2, <1>3 DEF EnqueueInv
<1>7. OffsetInv'
    <2>1. Taken <= accepted + k /\ (write_offset + k) - read_offset = (accepted + k) - Taken
        BY <1>4, <1>5
    <2>2. write_offset' = write_offset + k
        BY <1>1, <1>2
    <2> QED
        BY <1>1, <1>2, <1>4, <2>1, <2>2 DEF OffsetInv
<1>8. DataInv'
    <2>1. ASSUME NEW j \in 1 .. (accepted + k) - Taken
          PROVE  read_offset + j <= Len(file) /\ file[read_offset + j] = Taken + j - 1
        <3>1. CASE j <= accepted - Taken
            <4>1. j \in 1 .. accepted - Taken
                BY <1>5, <3>1
            <4> QED
                BY <1>2, <4>1 DEF SpillInv, DataInv
        <3>2. CASE ~(j <= accepted - Taken)
            <4> DEFINE i == j - (accepted - Taken)
            <4>1. i \in 1 .. k /\ read_offset + j = write_offset + i
                  /\ Taken + j - 1 = accepted + i - 1
                BY <1>4, <1>5, <3>2, PublishedOffsets
            <4>2. write_offset + i <= Len(file) /\ file[write_offset + i] = accepted + i - 1
                BY <1>1, <4>1 DEF SpillInv, DataInv, k
            <4> QED
                BY <4>1, <4>2
        <3> QED
            BY <3>1, <3>2
    <2>2. rpc = "store" =>
             /\ Len(block) \in 1 .. (accepted + k) - Taken
             /\ \A j \in 1 .. Len(block) : block[j] = Taken + j - 1
        <3>1. rpc = "store" =>
                 /\ Len(block) \in 1 .. accepted - Taken
                 /\ \A j \in 1 .. Len(block) : block[j] = Taken + j - 1
            BY DEF SpillInv, DataInv
        <3>2. 1 .. accepted - Taken \subseteq 1 .. (accepted + k) - Taken
            BY <1>5
        <3> QED
            BY <3>1, <3>2
    <2>3. \A i \in 1 .. Taken : delivered[i] = i - 1
        BY DEF SpillInv, DataInv
    <2> QED
        BY <1>1, <1>3, <2>1, <2>2, <2>3 DEF DataInv, readerVars
<1> QED
    BY <1>6, <1>7, <1>8 DEF Core

-----------------------------------------------------------------------------
(* gui_record_spill_read_block.                                            *)
LEMMA ReadBlockInv == ASSUME SpillInv, ReadBlock PROVE Core'
<1>0. Typed
    BY SpillTyped DEF SpillInv
<1>1. /\ UNCHANGED <<fileVars, enqueueVars, delivered>> /\ Taken' = Taken
      /\ rpc = "idle" /\ opened /\ Backlog > 0 /\ rpc' = "store"
      /\ read_offset + Wanted <= Len(file)
      /\ block' = SubSeq(file, read_offset + 1, read_offset + Wanted)
    BY DEF ReadBlock, Taken
<1>2. Backlog = accepted - Taken /\ accepted - Taken \in Nat
    BY <1>0, <1>1 DEF SpillInv, OffsetInv, Backlog, Typed
<1>3. Wanted \in 1 .. accepted - Taken
    BY <1>0, <1>1, <1>2 DEF Wanted, Typed
<1> DEFINE k == Wanted
<1>4. k \in Nat /\ k >= 1 /\ k \in 1 .. accepted - Taken /\ read_offset + k <= Len(file)
    BY <1>1, <1>2, <1>3
<1>5. file \in Seq(Byte) /\ read_offset \in Nat /\ Taken \in Nat
    BY <1>0 DEF Typed
<1> HIDE DEF k
<1>6. /\ Len(SubSeq(file, read_offset + 1, read_offset + k)) = k
      /\ \A j \in 1 .. k : SubSeq(file, read_offset + 1, read_offset + k)[j]
                            = file[read_offset + j]
    <2>1. \A x \in read_offset + 1 .. read_offset + k : file[x] \in Byte
        BY <1>4, <1>5
    <2>2. /\ Len(SubSeq(file, read_offset + 1, read_offset + k)) = k
          /\ \A j \in 1 .. k : SubSeq(file, read_offset + 1, read_offset + k)[j]
                                = file[(read_offset + 1) + j - 1]
        BY <1>4, <1>5, <2>1, SubSeqProperties
    <2>3. \A j \in 1 .. k : (read_offset + 1) + j - 1 = read_offset + j
        BY <1>5
    <2> QED
        BY <2>2, <2>3
<1>7. Len(block') = k /\ \A j \in 1 .. k : block'[j] = Taken + j - 1
    <2>1. ASSUME NEW j \in 1 .. k PROVE file[read_offset + j] = Taken + j - 1
        <3>1. j \in 1 .. accepted - Taken
            BY <1>2, <1>4
        <3> QED
            BY <1>1, <3>1 DEF SpillInv, DataInv
    <2>2. block' = SubSeq(file, read_offset + 1, read_offset + k)
        BY <1>1 DEF k
    <2> QED
        BY <1>6, <2>1, <2>2
<1>8. EnqueueInv' /\ OffsetInv'
    BY <1>1 DEF SpillInv, EnqueueInv, OffsetInv, Enqueueing, fileVars, enqueueVars
<1>9. DataInv'
    <2>1. /\ Len(block') \in 1 .. accepted' - Taken'
          /\ \A j \in 1 .. Len(block') : block'[j] = Taken' + j - 1
        BY <1>1, <1>4, <1>7 DEF enqueueVars
    <2> QED
        BY <1>1, <2>1 DEF SpillInv, DataInv, fileVars, enqueueVars
<1> QED
    BY <1>8, <1>9 DEF Core

(* Arithmetic of a delivery: the unread bytes lose the block at their head.*)
LEMMA StoredOffsets ==
    ASSUME NEW w \in Nat, NEW r \in Nat, NEW a \in Nat, NEW t \in Nat, NEW l \in 1 .. a - t,
           w - r = a - t, r <= t
    PROVE  /\ r + l <= t + l /\ t + l <= a /\ w - (r + l) = a - (t + l)
           /\ \A j \in 1 .. a - (t + l) : /\ l + j \in 1 .. a - t
                                          /\ (r + l) + j = r + (l + j)
                                          /\ (t + l) + j - 1 = t + (l + j) - 1
    OBVIOUS

(* The block joins what was delivered, and read_offset passes it.          *)
LEMMA ReadStoreInv == ASSUME SpillInv, ReadStore PROVE Core' /\ Taken' = Taken + Len(block)
<1>0. Typed
    BY SpillTyped DEF SpillInv
<1>1. /\ UNCHANGED <<opened, write_offset, io_lock, file, enqueueVars>>
      /\ rpc = "store" /\ rpc' = "check" /\ block' = <<>> /\ accepted' = accepted
      /\ read_offset' = read_offset + Len(block) /\ delivered' = delivered \o block
    BY DEF ReadStore, enqueueVars
<1>2. /\ write_offset - read_offset = accepted - Taken /\ read_offset <= Taken
      /\ Len(block) \in 1 .. accepted - Taken
      /\ \A j \in 1 .. Len(block) : block[j] = Taken + j - 1
      /\ \A i \in 1 .. Taken : delivered[i] = i - 1
    BY <1>1 DEF SpillInv, OffsetInv, DataInv
<1>3. /\ Len(delivered') = Taken + Len(block)
      /\ \A i \in 1 .. Taken + Len(block) :
            delivered'[i] = IF i <= Taken THEN delivered[i] ELSE block[i - Taken]
    <2>1. delivered \in Seq(Byte) /\ block \in Seq(Byte)
        BY <1>0 DEF Typed
    <2> QED
        BY <1>1, <2>1, ConcatProperties DEF Taken
<1>4. Taken' = Taken + Len(block)
    BY <1>3 DEF Taken
<1> DEFINE l == Len(block)
<1>5. /\ accepted \in Nat /\ Taken \in Nat /\ write_offset \in Nat /\ read_offset \in Nat
      /\ l \in Nat
    BY <1>0 DEF Typed
<1>6. /\ read_offset + l <= Taken + l /\ Taken + l <= accepted
      /\ write_offset - (read_offset + l) = accepted - (Taken + l)
      /\ \A j \in 1 .. accepted - (Taken + l) : /\ l + j \in 1 .. accepted - Taken
                                                /\ (read_offset + l) + j = read_offset + (l + j)
                                                /\ (Taken + l) + j - 1 = Taken + (l + j) - 1
    BY <1>2, <1>5, StoredOffsets
<1>7. EnqueueInv'
    BY <1>1 DEF SpillInv, EnqueueInv, Enqueueing, enqueueVars
<1>8. OffsetInv'
    BY <1>1, <1>4, <1>6 DEF OffsetInv
<1>9. DataInv'
    <2>1. ASSUME NEW j \in 1 .. accepted' - Taken'
          PROVE  /\ read_offset' + j <= Len(file')
                 /\ file'[read_offset' + j] = Taken' + j - 1
        <3>1. j \in 1 .. accepted - (Taken + l)
            BY <1>1, <1>4
        <3>2. /\ read_offset + (l + j) <= Len(file)
              /\ file[read_offset + (l + j)] = Taken + (l + j) - 1
            BY <1>1, <1>6, <3>1 DEF SpillInv, DataInv
        <3> QED
            BY <1>1, <1>4, <1>6, <3>1, <3>2
    <2>2. ASSUME NEW i \in 1 .. Taken' PROVE delivered'[i] = i - 1
        <3>0. i \in 1 .. Taken + l
            BY <1>4
        <3>1. CASE i <= Taken
            <4>1. i \in 1 .. Taken
                BY <1>5, <3>0, <3>1
            <4> QED
                BY <1>2, <1>3, <3>0, <3>1, <4>1
        <3>2. CASE ~(i <= Taken)
            <4>1. i - Taken \in 1 .. l /\ Taken + (i - Taken) - 1 = i - 1
                BY <1>5, <3>0, <3>2
            <4>2. block[i - Taken] = Taken + (i - Taken) - 1
                BY <1>2, <4>1
            <4> QED
                BY <1>3, <3>0, <3>2, <4>1, <4>2
        <3> QED
            BY <3>1, <3>2
    <2>3. ASSUME NEW q \in Producers, epc'[q] = "publish"
          PROVE  \A j \in 1 .. esize'[q] : write_offset' + j <= Len(file')
                                           /\ file'[write_offset' + j] = accepted' + j - 1
        BY <1>1, <2>3 DEF SpillInv, DataInv, enqueueVars
    <2> QED
        BY <1>1, <2>1, <2>2, <2>3 DEF DataInv
<1> QED
    BY <1>4, <1>7, <1>8, <1>9 DEF Core

-----------------------------------------------------------------------------
(* gui_record_spill_recycle_if_drained.                                    *)
LEMMA RecycleCheckInv == ASSUME SpillInv, RecycleCheck PROVE Core'
<1>1. /\ UNCHANGED <<fileVars, enqueueVars, block, delivered>> /\ rpc = "check"
      /\ rpc' \in {"recycle", "idle"}
    BY DEF RecycleCheck
<1>2. EnqueueInv'
    BY <1>1 DEF SpillInv, EnqueueInv, Enqueueing, enqueueVars, fileVars, Taken
<1>3. OffsetInv' /\ DataInv'
    BY <1>1 DEF SpillInv, OffsetInv, DataInv, enqueueVars, fileVars, Taken
<1> QED
    BY <1>2, <1>3 DEF Core

(* A recycle that goes on has found no enqueue under way.                  *)
LEMMA RecycleLockInv == ASSUME SpillInv, RecycleLock, ~raced' PROVE Core'
<1>1. /\ UNCHANGED <<opened, write_offset, read_offset, file, enqueueVars, block, delivered>>
      /\ rpc = "recycle" /\ rpc' \in {"locked", "idle"}
      /\ rpc' = "locked" => io_lock' /\ write_offset = read_offset /\ ~HoldsOffset
    BY DEF RecycleLock
<1>2. \A q \in Producers : Enqueueing(q)' <=> Enqueueing(q)
    BY <1>1 DEF Enqueueing, enqueueVars
<1>3. rpc' = "locked" => \A q \in Producers : ~Enqueueing(q)
    BY <1>1 DEF HoldsOffset
<1>4. EnqueueInv'
    BY <1>1, <1>2, <1>3 DEF SpillInv, EnqueueInv, enqueueVars, Taken
<1>5. OffsetInv' /\ DataInv'
    BY <1>1 DEF SpillInv, OffsetInv, DataInv, enqueueVars, Taken
<1> QED
    BY <1>4, <1>5 DEF Core

(* Everything accepted has been delivered while the offsets go back to 0.  *)
LEMMA RecycleEmptiesInv ==
    ASSUME SpillInv, RecycleTruncate \/ RecycleResetsWrite \/ RecycleResetsRead
    PROVE  Core'
<1>0. Typed
    BY SpillTyped DEF SpillInv
<1>1. /\ UNCHANGED <<opened, enqueueVars, block, delivered>> /\ Taken' = Taken
      /\ rpc \in {"locked", "truncated", "write_reset"} /\ accepted' = accepted
    BY DEF RecycleTruncate, RecycleResetsWrite, RecycleResetsRead, Taken, enqueueVars
<1>2. /\ opened /\ accepted = Taken /\ read_offset <= Taken
      /\ rpc \in {"locked", "truncated"} => write_offset = read_offset
    BY <1>0, <1>1 DEF SpillInv, EnqueueInv, OffsetInv, Typed
<1>3. /\ \A q \in Producers : epc[q] # "publish"
      /\ rpc # "write_reset" => \A q \in Producers : ~Enqueueing(q)
    BY <1>1 DEF SpillInv, EnqueueInv, Enqueueing
<1>4. /\ rpc' \in {"truncated", "write_reset", "idle"}
      /\ rpc' = "truncated" => /\ write_offset' = write_offset /\ read_offset' = read_offset
                               /\ write_offset = read_offset /\ rpc = "locked" /\ io_lock'
      /\ rpc' = "write_reset" => /\ write_offset' = 0 /\ read_offset' = read_offset
                                 /\ rpc = "truncated" /\ io_lock'
      /\ rpc' = "idle" => /\ write_offset' = 0 /\ read_offset' = 0 /\ rpc = "write_reset"
    <2>1. io_lock /\ (rpc = "write_reset" => write_offset = 0)
        BY <1>1 DEF SpillInv, EnqueueInv, OffsetInv
    <2> QED
        BY <1>2, <2>1 DEF RecycleTruncate, RecycleResetsWrite, RecycleResetsRead
<1>5. EnqueueInv'
    <2>1. \A q \in Producers : Enqueueing(q)' <=> Enqueueing(q)
        BY <1>1 DEF Enqueueing, enqueueVars
    <2>2. \A q \in Producers : Enqueueing(q) => rpc' = "idle"
        BY <1>3, <1>4
    <2>3. ASSUME NEW q \in Producers, Enqueueing(q)
          PROVE  /\ write_off[q] = 0 /\ esize[q] \in Chunks /\ accepted + esize[q] <= offered
                 /\ write_offset' = 0
                 /\ \A o \in Producers : Enqueueing(o) => o = q
        <3>1. rpc = "write_reset" /\ write_offset' = 0
            BY <1>4, <2>2, <2>3
        <3>2. write_offset = 0
            BY <3>1 DEF SpillInv, OffsetInv
        <3> QED
            BY <2>3, <3>1, <3>2 DEF SpillInv, EnqueueInv
    <2>4. accepted <= offered
        BY DEF SpillInv, EnqueueInv
    <2> QED
        BY <1>1, <1>2, <1>4, <2>1, <2>2, <2>3, <2>4 DEF EnqueueInv, enqueueVars
<1>6. OffsetInv'
    <2>1. Taken \in Nat /\ accepted \in Nat /\ read_offset \in Nat
        BY <1>0 DEF Typed
    <2> QED
        BY <1>1, <1>2, <1>4, <2>1 DEF OffsetInv
<1>7. DataInv'
    <2>1. accepted' - Taken' = 0
        BY <1>0, <1>1, <1>2 DEF Typed
    <2>2. rpc' # "store" /\ \A q \in Producers : epc'[q] # "publish"
        BY <1>1, <1>3, <1>4 DEF enqueueVars
    <2>3. \A i \in 1 .. Taken' : delivered'[i] = i - 1
        BY <1>1 DEF SpillInv, DataInv
    <2> QED
        BY <2>1, <2>2, <2>3 DEF DataInv
<1> QED
    BY <1>5, <1>6, <1>7 DEF Core

LEMMA NextSpillInv == SpillInv /\ [Next]_vars /\ ~raced' => SpillInv'
<1> SUFFICES ASSUME SpillInv, [Next]_vars, ~raced' PROVE SpillInv'
    OBVIOUS
<1>0. RangeInv'
    BY NextRangeInv DEF SpillInv
<1>1. ASSUME NEW p \in Producers, EnqueueStep(p) PROVE Core'
    BY <1>1, OpenInv, OpenCreatesInv, EnqueueLoadInv, EnqueueWriteInv, EnqueuePublishInv
    DEF EnqueueStep, EnqueueGoesOn
<1>2. ASSUME ReaderStep PROVE Core'
    BY <1>2, ReadBlockInv, ReadStoreInv, RecycleCheckInv, RecycleLockInv, RecycleEmptiesInv
    DEF ReaderStep
<1>3. ASSUME UNCHANGED vars PROVE Core'
    <2>1. EnqueueInv'
        BY <1>3 DEF vars, fileVars, enqueueVars, readerVars, SpillInv, EnqueueInv, Enqueueing, Taken
    <2>2. OffsetInv' /\ DataInv'
        BY <1>3 DEF vars, fileVars, enqueueVars, readerVars, SpillInv, OffsetInv, DataInv, Taken
    <2> QED
        BY <2>1, <2>2 DEF Core
<1> QED
    BY <1>0, <1>1, <1>2, <1>3 DEF Next, Core, SpillInv
-----------------------------------------------------------------------------
(* Types and ranges, in every schedule: gui_record_spill_enqueue never     *)
(* stores an offset behind what it was offered, and                        *)
(* gui_record_spill_read_block never one behind that, however the recycles *)
(* and the enqueues of several threads fall together.                      *)
THEOREM SpillTypeCorrect == Spec => []TypeOK
<1>1. RangeInv => TypeOK
    BY DEF RangeInv
<1> QED
    BY <1>1, InitRangeInv, NextRangeInv, PTL DEF Spec

(* What holds in every schedule until write_offset is raced for.           *)
LEMMA UntilRaced == Spec => [](RangeInv /\ (raced \/ SpillInv))
<1>1. Init => RangeInv /\ SpillInv
    BY InitRangeInv, InitSpillInv
<1>2. RangeInv /\ (raced \/ SpillInv) /\ [Next]_vars => RangeInv' /\ (raced' \/ SpillInv')
    <2> SUFFICES ASSUME RangeInv, raced \/ SpillInv, [Next]_vars, ~raced'
                 PROVE  SpillInv'
        BY NextRangeInv
    <2>1. ~raced
        BY RacedStays DEF RangeInv
    <2> QED
        BY <2>1, NextSpillInv
<1> QED
    BY <1>1, <1>2, PTL DEF Spec

(* The subtraction write_offset - read_offset of                           *)
(* gui_record_spill_backlog_bytes never wraps outside the two resets of    *)
(* gui_record_spill_recycle_if_drained, unless two threads have held       *)
(* write_offset at once.                                                   *)
THEOREM ReaderStaysBehind == Spec => []ReadFollowsWrite
<1>1. ASSUME RangeInv, raced \/ SpillInv PROVE ReadFollowsWrite
    <2>1. CASE raced
        BY <2>1 DEF ReadFollowsWrite
    <2>2. CASE SpillInv
        <3>1. Typed
            BY <1>1, SpillTyped
        <3> QED
            BY <2>2, <3>1 DEF SpillInv, OffsetInv, ReadFollowsWrite, Typed
    <2> QED
        BY <1>1, <2>1, <2>2
<1> QED
    BY <1>1, UntilRaced, PTL

-----------------------------------------------------------------------------
(* The n stream positions from a on, as a sequence.                        *)
Stretch(a, n) == [j \in 1 .. n |-> a + j - 1]

LEMMA StretchSeq ==
    ASSUME NEW a \in Int, NEW n \in Nat
    PROVE  /\ Stretch(a, n) \in Seq(Int)
           /\ Len(Stretch(a, n)) = n
           /\ \A j \in 1 .. n : Stretch(a, n)[j] = a + j - 1
BY DEF Stretch

LEMMA StretchConcat ==
    ASSUME NEW a \in Int, NEW m \in Nat, NEW n \in Nat
    PROVE  Stretch(a, m) \o Stretch(a + m, n) = Stretch(a, m + n)
<1> DEFINE s == Stretch(a, m)
           t == Stretch(a + m, n)
           u == Stretch(a, m + n)
<1>1. s \in Seq(Int) /\ t \in Seq(Int) /\ u \in Seq(Int)
    BY StretchSeq
<1>2. Len(s) = m /\ Len(t) = n /\ Len(u) = m + n
    BY StretchSeq
<1> HIDE DEF s, t, u
<1>3. /\ s \o t \in Seq(Int)
      /\ Len(s \o t) = m + n
      /\ \A i \in 1 .. m + n : (s \o t)[i] = IF i <= m THEN s[i] ELSE t[i - m]
    BY <1>1, <1>2, ConcatProperties
<1>4. \A i \in 1 .. m + n : (s \o t)[i] = u[i]
    BY <1>3 DEF s, t, u, Stretch
<1> QED
    BY <1>1, <1>2, <1>3, <1>4, SeqEqual DEF s, t, u

LEMMA StretchSplit ==
    ASSUME NEW a \in Int, NEW n \in Nat, NEW k \in 0 .. n
    PROVE  /\ SubSeq(Stretch(a, n), 1, k) = Stretch(a, k)
           /\ SubSeq(Stretch(a, n), k + 1, n) = Stretch(a + k, n - k)
BY DEF Stretch

(* The bytes between the offsets are the ones accepted and not delivered,  *)
(* and what was delivered is the ones before them.                         *)
HoldsStretches ==
    /\ Unread = Stretch(Taken, accepted - Taken)
    /\ delivered = Stretch(0, Taken)

LEMMA MappedNow == SpillInv => HoldsStretches
<1> SUFFICES ASSUME SpillInv PROVE HoldsStretches
    OBVIOUS
<1> DEFINE n == accepted - Taken
<1>1. Typed
    BY SpillTyped DEF SpillInv
<1>2. n \in Nat /\ Backlog = n
    <2>1. CASE rpc = "write_reset"
        BY <1>1, <2>1 DEF SpillInv, OffsetInv, Backlog, Typed
    <2>2. CASE rpc # "write_reset"
        BY <1>1, <2>2 DEF SpillInv, OffsetInv, Backlog, Typed
    <2> QED
        BY <2>1, <2>2
<1>3. ASSUME NEW j \in 1 .. n
      PROVE  read_offset + j <= Len(file) /\ file[read_offset + j] = Taken + j - 1
    <2>1. rpc # "write_reset"
        BY <1>1, <1>3 DEF SpillInv, OffsetInv, Typed
    <2> QED
        BY <2>1 DEF SpillInv, DataInv
<1>4. Unread = Stretch(Taken, n)
    BY <1>2, <1>3 DEF Unread, Stretch
<1>5. delivered = Stretch(0, Taken)
    <2>1. delivered \in Seq(Byte) /\ Taken \in Nat
        BY <1>1 DEF Typed
    <2>2. \A j \in 1 .. Taken : delivered[j] = 0 + j - 1
        BY <2>1 DEF SpillInv, DataInv
    <2>3. delivered = [j \in 1 .. Taken |-> delivered[j]]
        BY <2>1 DEF Taken
    <2> QED
        BY <2>2, <2>3 DEF Stretch
<1> QED
    BY <1>4, <1>5 DEF HoldsStretches

LEMMA MappedNext == SpillInv' => HoldsStretches'
BY MappedNow, PTL

(* The counts that every step below needs.                                 *)
LEMMA Counts ==
    ASSUME SpillInv
    PROVE  /\ Taken \in Nat /\ accepted \in Nat /\ accepted - Taken \in Nat
           /\ Taken + (accepted - Taken) = accepted
<1>1. Typed
    BY SpillTyped DEF SpillInv
<1>2. Taken <= accepted
    BY DEF SpillInv, OffsetInv
<1> QED
    BY <1>1, <1>2 DEF Typed

(* Every byte gui_record_spill_enqueue accepted comes back exactly once    *)
(* and in order, and no read returns a gap of the file, until two threads  *)
(* have held write_offset at once.                                         *)
THEOREM SpillLosesNothing == Spec => []AcceptedComesBack
<1>1. ASSUME SpillInv PROVE Intact
    <2>1. Taken \in Nat /\ accepted - Taken \in Nat /\ Taken + (accepted - Taken) = accepted
          /\ accepted \in Nat
        BY <1>1, Counts
    <2>2. delivered \o Unread = Stretch(0, accepted)
        <3> DEFINE z == 0
        <3>1. z \in Int /\ z + Taken = Taken
            BY <2>1
        <3>2. delivered = Stretch(z, Taken) /\ Unread = Stretch(Taken, accepted - Taken)
            BY <1>1, MappedNow DEF HoldsStretches
        <3> HIDE DEF z
        <3>3. Stretch(z, Taken) \o Stretch(z + Taken, accepted - Taken)
                = Stretch(z, Taken + (accepted - Taken))
            BY <2>1, <3>1, StretchConcat
        <3> QED
            BY <2>1, <3>1, <3>2, <3>3 DEF z
    <2>3. /\ Len(Stretch(0, accepted)) = accepted
          /\ \A i \in DOMAIN Stretch(0, accepted) : Stretch(0, accepted)[i] = i - 1
        BY <2>1 DEF Stretch
    <2> QED
        BY <2>2, <2>3 DEF Intact
<1>2. RangeInv /\ (raced \/ SpillInv) => AcceptedComesBack
    BY <1>1 DEF AcceptedComesBack
<1> QED
    BY <1>2, UntilRaced, PTL

-----------------------------------------------------------------------------
(* The spill file implements ByteFifo.                                     *)

(* The store of write_offset is a put of the bytes of one enqueue.         *)
LEMMA PublishIsPut ==
    ASSUME NEW p \in Producers, SpillInv, SpillInv', EnqueuePublish(p)
    PROVE  Fifo!Next
<1> DEFINE n == accepted - Taken
           k == esize[p]
<1>0. Typed
    BY SpillTyped DEF SpillInv
<1>1. /\ Taken \in Nat /\ Taken \in Int /\ n \in Nat
      /\ k \in 1 .. MaxOffered /\ k \in Nat
      /\ n + k <= MaxOffered
    <2>1. Taken <= accepted /\ accepted + k <= offered /\ offered <= MaxOffered
        BY <1>0 DEF SpillInv, OffsetInv, EnqueueInv, EnqueuePublish, Enqueueing, Typed
    <2>2. k \in Chunks
        BY DEF SpillInv, EnqueueInv, EnqueuePublish, Enqueueing
    <2>3. k \in Nat /\ k > 0 /\ accepted \in Nat /\ Taken \in Nat /\ MaxOffered \in Nat
          /\ offered \in Nat
        BY <1>0, <2>2 DEF Typed
    <2> HIDE DEF k
    <2> QED
        BY <2>1, <2>3
<1>2. Taken' = Taken /\ accepted' - Taken' = n + k
    <2>1. accepted' = accepted + k
        BY DEF EnqueuePublish
    <2>2. Taken' = Taken
        BY DEF EnqueuePublish, readerVars, Taken
    <2>3. accepted \in Nat
        BY Counts
    <2> HIDE DEF k
    <2> QED
        BY <1>1, <2>1, <2>2, <2>3
<1>3. /\ Unread = Stretch(Taken, n)
      /\ Unread' = Stretch(Taken, n + k)
      /\ delivered = Stretch(0, Taken)
      /\ delivered' = delivered
    <2>1. Unread' = Stretch(Taken', accepted' - Taken')
        BY MappedNext DEF HoldsStretches, Stretch
    <2>2. delivered' = delivered
        BY DEF EnqueuePublish, readerVars
    <2> QED
        BY <1>2, <2>1, <2>2, MappedNow DEF HoldsStretches
<1> HIDE DEF n, k
<1>4. Len(Unread) = n /\ Len(delivered) = Taken
    BY <1>1, <1>3, StretchSeq
<1>5. Fifo!NextBytes(k) = Stretch(Taken + n, k)
    BY <1>4 DEF Fifo!NextBytes, Stretch
<1>6. Unread' = Unread \o Fifo!NextBytes(k)
    BY <1>1, <1>3, <1>5, StretchConcat
<1>7. Len(Fifo!NextBytes(k)) = k
    <2>1. Taken + n \in Int
        BY <1>1
    <2> QED
        BY <1>1, <1>5, <2>1, StretchSeq
<1>8. Fifo!Put(Fifo!NextBytes(k))
    BY <1>1, <1>3, <1>4, <1>6, <1>7 DEF Fifo!Put
<1> QED
    BY <1>1, <1>8 DEF Fifo!Next

(* The store of read_offset is a get of the block read.                    *)
LEMMA StoreIsGet ==
    ASSUME SpillInv, SpillInv', ReadStore
    PROVE  Fifo!Next
<1> DEFINE n == accepted - Taken
           k == Len(block)
<1>0. Typed
    BY SpillTyped DEF SpillInv
<1>1. /\ Taken \in Nat /\ Taken \in Int /\ n \in Nat
      /\ k \in 1 .. MaxOffered /\ k \in 0 .. n /\ k \in Nat
    <2>1. k \in 1 .. n
        BY DEF SpillInv, DataInv, ReadStore
    <2>2. accepted <= offered /\ offered <= MaxOffered /\ Taken \in Nat /\ accepted \in Nat
          /\ offered \in Nat /\ MaxOffered \in Nat
        BY <1>0 DEF SpillInv, EnqueueInv, Typed
    <2> HIDE DEF k
    <2> QED
        BY <2>1, <2>2
<1>2. Taken' = Taken + k /\ accepted' - Taken' = n - k
    <2>1. Taken' = Taken + k
        BY ReadStoreInv
    <2>2. accepted' = accepted
        BY DEF ReadStore, enqueueVars
    <2>3. accepted \in Nat
        BY Counts
    <2> HIDE DEF k
    <2> QED
        BY <1>1, <2>1, <2>2, <2>3
<1>3. /\ Unread = Stretch(Taken, n)
      /\ Unread' = Stretch(Taken + k, n - k)
      /\ delivered = Stretch(0, Taken)
      /\ delivered' = Stretch(0, Taken + k)
    <2>1. /\ Unread' = Stretch(Taken', accepted' - Taken')
          /\ delivered' = Stretch(0, Taken')
        BY MappedNext DEF HoldsStretches, Stretch
    <2> QED
        BY <1>2, <2>1, MappedNow DEF HoldsStretches
<1> HIDE DEF n, k
<1>4. Len(Unread) = n
    BY <1>1, <1>3, StretchSeq
<1>5. /\ SubSeq(Unread, 1, k) = Stretch(Taken, k)
      /\ SubSeq(Unread, k + 1, n) = Stretch(Taken + k, n - k)
    BY ZenonT(30), <1>1, <1>3, StretchSplit
<1>6. Stretch(0, Taken) \o Stretch(Taken, k) = Stretch(0, Taken + k)
    <2> DEFINE z == 0
    <2>1. z \in Int /\ z + Taken = Taken
        BY <1>1
    <2> HIDE DEF z
    <2>2. Stretch(z, Taken) \o Stretch(z + Taken, k) = Stretch(z, Taken + k)
        BY <1>1, <2>1, StretchConcat
    <2> QED
        BY <2>1, <2>2 DEF z
<1>7. Fifo!Get(k)
    <2>1. k <= Len(Unread)
        BY <1>1, <1>4
    <2>2. delivered' = delivered \o SubSeq(Unread, 1, k)
        BY <1>3, <1>5, <1>6
    <2>3. Unread' = SubSeq(Unread, k + 1, Len(Unread))
        BY <1>3, <1>4, <1>5
    <2> QED
        BY <2>1, <2>2, <2>3 DEF Fifo!Get
<1> QED
    BY <1>1, <1>7 DEF Fifo!Next

(* Every other step leaves both abstract variables alone.                  *)
LEMMA OthersStutter ==
    ASSUME SpillInv, SpillInv', accepted' = accepted, delivered' = delivered
    PROVE  UNCHANGED Fifo!vars
<1>1. Unread' = Stretch(Taken', accepted' - Taken')
    BY MappedNext DEF HoldsStretches, Stretch
<1>2. Taken' = Taken
    BY DEF Taken
<1>3. Unread' = Unread
    BY <1>1, <1>2, MappedNow DEF HoldsStretches
<1> QED
    BY <1>3 DEF Fifo!vars

LEMMA StepsRefine ==
    ASSUME SpillInv, SpillInv', [Next]_vars
    PROVE  Fifo!Next \/ UNCHANGED Fifo!vars
<1>1. ASSUME NEW p \in Producers, EnqueueStep(p)
      PROVE  Fifo!Next \/ UNCHANGED Fifo!vars
    <2>1. CASE EnqueuePublish(p)
        BY <2>1, PublishIsPut
    <2>2. CASE ~EnqueuePublish(p)
        <3>1. accepted' = accepted /\ delivered' = delivered
            BY <1>1, <2>2 DEF EnqueueStep, EnqueueGoesOn, OpenChannel, OpenCreates, OpenFails,
                EnqueueLoad, EnqueueWrite, EnqueueFails, enqueueVars, readerVars
        <3> QED
            BY <3>1, OthersStutter
    <2> QED
        BY <2>1, <2>2
<1>2. CASE ReadStore
    BY <1>2, StoreIsGet
<1>3. CASE ReaderStep /\ ~ReadStore
    <2>1. accepted' = accepted /\ delivered' = delivered
        BY <1>3 DEF ReaderStep, ReadBlock, RecycleCheck, RecycleLock, RecycleTruncate,
            RecycleResetsWrite, RecycleResetsRead, enqueueVars
    <2> QED
        BY <2>1, OthersStutter
<1>4. CASE UNCHANGED vars
    BY <1>4, OthersStutter DEF vars, enqueueVars, readerVars
<1> QED
    BY <1>1, <1>2, <1>3, <1>4 DEF Next

LEMMA InitRefines == Init => Fifo!Init
<1> SUFFICES ASSUME Init PROVE Fifo!Init
    OBVIOUS
<1>1. Backlog = 0
    BY DEF Init, Backlog
<1>2. Unread = <<>> /\ delivered = <<>>
    BY <1>1 DEF Unread, Init
<1> QED
    BY <1>2 DEF Fifo!Init

(* The spill file is the lossless queue the record paths take it for,      *)
(* whoever enqueues, whatever the lengths gui_record_spill_enqueue is      *)
(* called with, however much gui_record_spill_read_block takes at a time   *)
(* and however often gui_record_spill_recycle_if_drained truncates the     *)
(* file, step by step until two threads have held write_offset at once.    *)
THEOREM SpillIsFifo == Spec => ImplementsFifo
<1>1. /\ RangeInv /\ (raced \/ SpillInv)
      /\ (RangeInv /\ (raced \/ SpillInv))'
      /\ [Next]_vars
      => [raced' \/ Fifo!Next \/ UNCHANGED Fifo!vars]_vars
    <2> SUFFICES ASSUME RangeInv, raced \/ SpillInv, raced' \/ SpillInv', [Next]_vars, ~raced'
                 PROVE  Fifo!Next \/ UNCHANGED Fifo!vars
        OBVIOUS
    <2>1. ~raced
        BY RacedStays DEF RangeInv
    <2> QED
        BY <2>1, StepsRefine
<1> QED
    BY <1>1, InitRefines, UntilRaced, PTL DEF Spec, ImplementsFifo
=============================================================================
