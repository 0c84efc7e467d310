------------------------- MODULE RecordDirectProofs -------------------------
(***************************************************************************)
(* Proofs about the direct record path.                                    *)
(*                                                                         *)
(* RecordDirect: for a ring of any size, blocks of any length and any      *)
(* number of pushes and failures, the ring, the spill file and the block   *)
(* in hand are one lossless queue until one of the mishaps happens, and    *)
(* the writer that leaves the drain at the stop leaves nothing behind that *)
(* it could still read.                                                    *)
(*                                                                         *)
(* RecordTaps: for any number of recordings and capture iterations, unless *)
(* an iteration straddles the enabling of a tap, no push follows the wait  *)
(* for idle taps, the channels stay in lockstep, and the handshake makes   *)
(* only the steps RecordDirect takes from it.                              *)
(***************************************************************************)
EXTENDS MCRecordDirect, RecordTapsDirect, SequenceTheorems, TLAPS

Chunks == Nat \cup {NoChunk}

(* The oldest slot whose contents still matter, counted like rhead.        *)
Oldest == rhead - ReleasedUncopied

(* What of the ring is in the file already, its release still to come.     *)
WrittenUnreleased == IF wpc = "release" /\ from_ring /\ write_ok THEN len ELSE 0

(* The number of the chunk in that slot.                                   *)
First == Len(file) + Len(block) - WrittenUnreleased

InHand == wpc \in {"write", "release", "hold"}

(* Where a block can be, and what the writer still has to release.         *)
HandInv ==
    /\ have_pending => wpc \in {"top", "retry", "gave_up"} /\ Len(block) \in 1 .. MaxBlock
    /\ wpc = "retry" => have_pending
    /\ InHand => len \in 1 .. MaxBlock
    /\ wpc \in {"write", "release"} /\ from_ring => len <= RingFill
    /\ InHand /\ ~from_ring /\ (wpc = "release" => ~write_ok) => Len(block) = len
    /\ wpc = "hold" => ~write_ok /\ (from_ring => len <= rhead)
    /\ block # <<>> => have_pending \/ (InHand /\ ~from_ring /\ (wpc = "release" => ~write_ok))

(* A push that goes to the ring has found the spill file empty, and there  *)
(* is room for what it has copied.                                         *)
PushInv ==
    /\ ppc # "idle" => accepted < pushes
    /\ ppc \in {"ring", "publish"} => spill = <<>>
    /\ ppc = "publish" => RingFill < RingSlots

(* Once is_recording is seen cleared nothing is pushed any more.           *)
StopInv ==
    /\ tap = "stopped" => ppc = "idle"
    /\ stopping => tap = "stopped"
    /\ wpc = "backlog" /\ stopping => RingFill = 0
    /\ wpc = "exit" => stopping /\ RingFill = 0 /\ (spill = <<>> \/ "unread" \in mishaps)

(* These hold in every schedule.                                           *)
BaseInv == TypeOK /\ HandInv /\ PushInv /\ StopInv

(* Every chunk has its number, wherever it is: until the first mishap.     *)
DataInv ==
    /\ file \in Seq(Nat) /\ block \in Seq(Nat)
    /\ accepted = First + (rtail - Oldest) + Len(spill)
    /\ rtail - Oldest <= RingSlots
    /\ \A i \in 1 .. Len(file) : file[i] = i - 1
    /\ \A i \in 1 .. Len(block) : block[i] = Len(file) + i - 1
    /\ \A i \in 0 .. (rtail - Oldest) - 1 : ring[(Oldest + i) % RingSlots] = First + i
    /\ \A i \in 1 .. Len(spill) : spill[i] = First + (rtail - Oldest) + i - 1
    /\ ppc = "publish" => ring[rtail % RingSlots] = accepted /\ rtail - Oldest < RingSlots

DirectInv == BaseInv /\ DataInv

-----------------------------------------------------------------------------
(* Two counter values less than a ring apart name one slot only when equal. *)
LEMMA SlotsDiffer ==
    ASSUME NEW n \in Nat \ {0}, NEW a \in Nat, NEW b \in Nat,
           a <= b, b - a < n, a % n = b % n
    PROVE  a = b
<1> DEFINE x == a \div n
           y == b \div n
<1>1. a = n * x + (a % n)
    OBVIOUS
<1>2. b = n * y + (b % n)
    OBVIOUS
<1>3. x \in Int /\ y \in Int
    OBVIOUS
<1> HIDE DEF x, y
<1>4. b - a = n * (y - x)
    BY <1>1, <1>2, <1>3
<1>5. y - x >= 1 => n * (y - x) >= n
    BY <1>3
<1>6. y - x <= 0 => n * (y - x) <= 0
    BY <1>3
<1> QED
    BY <1>3, <1>4, <1>5, <1>6

LEMMA SlotInRing == \A c \in Nat : c % RingSlots \in 0 .. RingSlots - 1
BY DirectAssumption

(* A stream that is continued at its end.                                  *)
LEMMA Continued ==
    ASSUME NEW s \in Seq(Nat), NEW t \in Seq(Nat),
           \A i \in 1 .. Len(s) : s[i] = i - 1,
           \A i \in 1 .. Len(t) : t[i] = Len(s) + i - 1
    PROVE  /\ s \o t \in Seq(Nat)
           /\ Len(s \o t) = Len(s) + Len(t)
           /\ \A i \in 1 .. Len(s) + Len(t) : (s \o t)[i] = i - 1
<1>1. /\ s \o t \in Seq(Nat) /\ Len(s \o t) = Len(s) + Len(t)
      /\ \A i \in 1 .. Len(s) + Len(t) :
            (s \o t)[i] = IF i <= Len(s) THEN s[i] ELSE t[i - Len(s)]
    BY ConcatProperties
<1> DEFINE u == s \o t
           m == Len(s)
           n == Len(t)
<1>2. m \in Nat /\ n \in Nat
    OBVIOUS
<1>3. /\ \A i \in 1 .. m + n : u[i] = IF i <= m THEN s[i] ELSE t[i - m]
      /\ \A i \in 1 .. m : s[i] = i - 1
      /\ \A i \in 1 .. n : t[i] = m + i - 1
    BY <1>1
<1> HIDE DEF u, m, n
<1>4. ASSUME NEW i \in 1 .. m + n PROVE u[i] = i - 1
    <2>1. CASE i <= m
        <3>1. i \in 1 .. m
            BY <1>2, <2>1
        <3> QED
            BY <1>3, <2>1, <3>1
    <2>2. CASE ~(i <= m)
        <3>1. i - m \in 1 .. n /\ m + (i - m) - 1 = i - 1
            BY <1>2, <2>2
        <3> QED
            BY <1>3, <2>2, <3>1
    <2> QED
        BY <2>1, <2>2
<1> QED
    BY <1>1, <1>4 DEF u, m, n

-----------------------------------------------------------------------------
(* What holds in every schedule.                                           *)

BaseTyped ==
    /\ RingSlots \in Nat \ {0} /\ MaxBlock \in Nat \ {0} /\ MaxPushes \in Nat
    /\ rhead \in Nat /\ rtail \in Nat /\ RingFill \in Nat /\ RingFill = rtail - rhead
    /\ RingFill <= RingSlots
    /\ len \in Nat /\ accepted \in Nat /\ pushes \in Nat
    /\ file \in Seq(Chunks) /\ block \in Seq(Chunks) /\ spill \in Seq(Nat)
    /\ Len(file) \in Nat /\ Len(block) \in Nat /\ Len(spill) \in Nat
    /\ ReleasedUncopied \in Nat /\ WrittenUnreleased \in Nat
    /\ Oldest \in Nat /\ Oldest = rhead - ReleasedUncopied
    /\ First \in Int /\ First = Len(file) + Len(block) - WrittenUnreleased

LEMMA BaseIsTyped == ASSUME BaseInv PROVE BaseTyped
<1>1. /\ RingSlots \in Nat \ {0} /\ MaxBlock \in Nat \ {0} /\ MaxPushes \in Nat
    BY DirectAssumption
<1>2. /\ rhead \in Nat /\ rtail \in Nat /\ RingFill \in Nat /\ RingFill = rtail - rhead
      /\ RingFill <= RingSlots
    BY <1>1 DEF BaseInv, TypeOK, RingFill
<1>3. /\ len \in Nat /\ pushes \in Nat /\ accepted \in Nat
      /\ file \in Seq(Chunks) /\ block \in Seq(Chunks) /\ spill \in Seq(Nat)
    BY <1>1 DEF BaseInv, TypeOK, Chunks
<1>4. Len(file) \in Nat /\ Len(block) \in Nat /\ Len(spill) \in Nat
    BY <1>3
<1>5. ReleasedUncopied \in Nat /\ WrittenUnreleased \in Nat /\ rhead - ReleasedUncopied \in Nat
    BY <1>2, <1>3 DEF ReleasedUncopied, WrittenUnreleased, BaseInv, HandInv
<1> QED
    BY <1>1, <1>2, <1>3, <1>4, <1>5 DEF BaseTyped, Oldest, First

(* Whatever the ring holds, a stretch of it is a sequence of chunks.       *)
LEMMA RingSequence ==
    ASSUME BaseInv, NEW c \in Nat, NEW n \in Nat
    PROVE  RingFrom(c, n) \in Seq(Chunks) /\ Len(RingFrom(c, n)) = n
<1>1. ring \in [0 .. RingSlots - 1 -> Chunks]
    BY DEF BaseInv, TypeOK, Chunks
<1>2. ASSUME NEW j \in 1 .. n PROVE ring[(c + j - 1) % RingSlots] \in Chunks
    <2>1. c + j - 1 \in Nat
        OBVIOUS
    <2>2. (c + j - 1) % RingSlots \in 0 .. RingSlots - 1
        BY <2>1, SlotInRing
    <2> QED
        BY <1>1, <2>2
<1>3. RingFrom(c, n) \in [1 .. n -> Chunks]
    BY <1>2 DEF RingFrom
<1>4. RingFrom(c, n) \in Seq(Chunks)
    BY <1>3, SeqDef
<1>5. Len(RingFrom(c, n)) = n
    BY DEF RingFrom
<1> QED
    BY <1>4, <1>5

LEMMA DataSequence ==
    ASSUME BaseInv, wpc = "write" PROVE Data \in Seq(Chunks) /\ Len(Data) = len
<1>1. BaseTyped
    BY BaseIsTyped
<1>2. CASE from_ring
    BY <1>1, <1>2, RingSequence DEF Data, BaseTyped
<1>3. CASE ~from_ring
    BY <1>1, <1>3 DEF Data, BaseTyped, BaseInv, HandInv, InHand
<1> QED
    BY <1>2, <1>3

LEMMA ReleasedSequence ==
    ASSUME BaseInv, wpc = "hold" PROVE ReleasedData \in Seq(Chunks) /\ Len(ReleasedData) = len
<1>1. BaseTyped
    BY BaseIsTyped
<1>2. CASE from_ring
    <2>1. rhead - len \in Nat /\ len \in Nat
        BY <1>1, <1>2 DEF BaseTyped, BaseInv, HandInv
    <2> QED
        BY <1>2, <2>1, RingSequence DEF ReleasedData
<1>3. CASE ~from_ring
    BY <1>1, <1>3 DEF ReleasedData, BaseTyped, BaseInv, HandInv, InHand
<1> QED
    BY <1>2, <1>3

(* What a failed write leaves is still a file of chunks and pieces.        *)
LEMMA FailedWriteTyped ==
    ASSUME BaseInv, NEW bytes \in Seq(Chunks), FailedWrite(bytes)
    PROVE  /\ file' \in Seq(Chunks)
           /\ mishaps' \subseteq {"gap", "reuse", "partial", "unread", "unpublished"}
<1>1. file \in Seq(Chunks)
    BY DEF BaseInv, TypeOK, Chunks
<1>2. PICK k \in 0 .. Len(bytes) - 1, piece \in {<<>>, <<NoChunk>>} :
        file' = file \o SubSeq(bytes, 1, k) \o piece
    BY DEF FailedWrite
<1>3. piece \in Seq(Chunks)
    <2>1. NoChunk \in Chunks
        BY DEF Chunks
    <2>2. <<>> \in Seq(Chunks) /\ <<NoChunk>> \in Seq(Chunks)
        BY <2>1
    <2> QED
        BY <2>2
<1>4. SubSeq(bytes, 1, k) \in Seq(Chunks)
    OBVIOUS
<1>5. file \o SubSeq(bytes, 1, k) \in Seq(Chunks)
    BY <1>1, <1>4
<1>6. (file \o SubSeq(bytes, 1, k)) \o piece \in Seq(Chunks)
    BY <1>3, <1>5
<1>7. mishaps' \subseteq mishaps \cup {"partial"}
    BY DEF FailedWrite
<1>8. mishaps \subseteq {"gap", "reuse", "partial", "unread", "unpublished"}
    BY DEF BaseInv, TypeOK
<1> QED
    BY <1>2, <1>6, <1>7, <1>8

LEMMA InitBase == Init => BaseInv
<1> SUFFICES ASSUME Init PROVE BaseInv
    OBVIOUS
<1>1. TypeOK
    <2>1. <<>> \in Seq(Nat) /\ <<>> \in Seq(Nat \cup {NoChunk})
        OBVIOUS
    <2>2. ring \in [0 .. RingSlots - 1 -> Nat \cup {NoChunk}]
        BY DEF Init
    <2> QED
        BY <2>1, <2>2, DirectAssumption DEF Init, TypeOK
<1>2. HandInv /\ PushInv /\ StopInv
    BY DEF Init, HandInv, PushInv, StopInv, InHand, RingFill
<1> QED
    BY <1>1, <1>2 DEF BaseInv

LEMMA PushBeginBase == ASSUME BaseInv, PushBegin PROVE BaseInv'
<1>1. BaseTyped
    BY BaseIsTyped
<1>2. /\ UNCHANGED <<queueVars, tap, accepted, writerVars, mishaps>>
      /\ tap = "on" /\ pushes < MaxPushes /\ pushes' = pushes + 1
      /\ ppc' = IF spill # <<>> THEN "spill" ELSE "ring"
    BY DEF PushBegin
<1>3. TypeOK'
    <2>1. pushes' \in 0 .. MaxPushes /\ accepted \in 0 .. pushes'
        BY <1>1, <1>2 DEF BaseTyped, BaseInv, TypeOK
    <2> QED
        BY <1>2, <2>1 DEF BaseInv, TypeOK, queueVars, writerVars
<1>4. HandInv' /\ PushInv' /\ StopInv'
    BY <1>1, <1>2 DEF BaseInv, HandInv, PushInv, StopInv, queueVars, writerVars, RingFill,
        InHand, BaseTyped, TypeOK
<1> QED
    BY <1>3, <1>4 DEF BaseInv

LEMMA PushCopiesBase == ASSUME BaseInv, PushCopies PROVE BaseInv'
<1>1. BaseTyped
    BY BaseIsTyped
<1>2. /\ UNCHANGED <<rhead, rtail, spill, tap, pushes, accepted, writerVars>>
      /\ ppc = "ring" /\ RingFill < RingSlots /\ ppc' = "publish"
      /\ ring' = [ring EXCEPT ![rtail % RingSlots] = accepted]
      /\ mishaps' = mishaps \/ mishaps' = mishaps \cup {"reuse"}
    BY DEF PushCopies
<1>3. TypeOK'
    <2>1. ring' \in [0 .. RingSlots - 1 -> Nat \cup {NoChunk}]
        BY <1>1, <1>2, SlotInRing DEF BaseInv, TypeOK, BaseTyped
    <2>2. mishaps' \subseteq {"gap", "reuse", "partial", "unread", "unpublished"}
        BY <1>2 DEF BaseInv, TypeOK
    <2> QED
        BY <1>2, <2>1, <2>2 DEF BaseInv, TypeOK, writerVars
<1>4. HandInv' /\ PushInv' /\ StopInv'
    BY <1>2 DEF BaseInv, HandInv, PushInv, StopInv, writerVars, RingFill, InHand
<1> QED
    BY <1>3, <1>4 DEF BaseInv

LEMMA PushPublishBase == ASSUME BaseInv, PushRing \/ PushUnpublished PROVE BaseInv'
<1>1. BaseTyped
    BY BaseIsTyped
<1>2. /\ UNCHANGED <<ring, rhead, spill, tap, pushes, writerVars>>
      /\ ppc = "publish" /\ ppc' = "idle" /\ accepted' = accepted + 1
      /\ rtail' = rtail \/ rtail' = rtail + 1
      /\ mishaps' = mishaps \/ mishaps' = mishaps \cup {"unpublished"}
    BY DEF PushRing, PushUnpublished, queueVars
<1>3. accepted < pushes /\ RingFill < RingSlots
    BY <1>2 DEF BaseInv, PushInv
<1>4. RingFill' = RingFill \/ RingFill' = RingFill + 1
    BY <1>1, <1>2 DEF RingFill, BaseTyped
<1>5. TypeOK'
    <2>1. rtail' \in rhead .. rhead + RingSlots
        BY <1>1, <1>2, <1>3 DEF BaseTyped
    <2>2. accepted' \in 0 .. pushes
        BY <1>1, <1>2, <1>3 DEF BaseTyped
    <2>3. mishaps' \subseteq {"gap", "reuse", "partial", "unread", "unpublished"}
        BY <1>2 DEF BaseInv, TypeOK
    <2> QED
        BY <1>2, <2>1, <2>2, <2>3 DEF BaseInv, TypeOK, writerVars
<1>6. HandInv'
    BY <1>1, <1>2, <1>4 DEF BaseInv, HandInv, InHand, BaseTyped, writerVars
<1>7. tap # "stopped"
    BY <1>2 DEF BaseInv, StopInv
<1>8. PushInv' /\ StopInv'
    BY <1>2, <1>7 DEF BaseInv, PushInv, StopInv, writerVars
<1> QED
    BY <1>5, <1>6, <1>8 DEF BaseInv

LEMMA PushSpillBase == ASSUME BaseInv, PushSpill PROVE BaseInv'
<1>1. BaseTyped
    BY BaseIsTyped
<1>2. /\ UNCHANGED <<ring, rhead, rtail, tap, pushes, writerVars, mishaps>>
      /\ ppc = "spill" /\ ppc' = "idle"
      /\ spill' = Append(spill, accepted) /\ accepted' = accepted + 1
    BY DEF PushSpill
<1>3. accepted < pushes /\ tap # "stopped"
    BY <1>2 DEF BaseInv, PushInv, StopInv
<1>4. spill' \in Seq(Nat)
    BY <1>1, <1>2 DEF BaseTyped
<1>5. TypeOK'
    <2>1. accepted' \in 0 .. pushes
        BY <1>1, <1>2, <1>3 DEF BaseTyped
    <2> QED
        BY <1>2, <1>4, <2>1 DEF BaseInv, TypeOK, writerVars
<1>6. HandInv' /\ PushInv' /\ StopInv'
    BY <1>2, <1>3 DEF BaseInv, HandInv, PushInv, StopInv, writerVars, RingFill, InHand
<1> QED
    BY <1>5, <1>6 DEF BaseInv

LEMMA OtherPushesBase ==
    ASSUME BaseInv, PushRefused \/ PushDropped \/ StopDisables \/ StopClearsRecording
    PROVE  BaseInv'
<1>1. /\ UNCHANGED <<queueVars, pushes, accepted, writerVars, mishaps>>
      /\ \/ ppc = "ring" /\ ppc' = "spill" /\ tap' = tap
         \/ ppc = "spill" /\ ppc' = "idle" /\ tap' = tap
         \/ tap = "on" /\ tap' = "disabled" /\ ppc' = ppc
         \/ ppc = "idle" /\ tap' = "stopped" /\ ppc' = "idle"
    BY DEF PushRefused, PushDropped, StopDisables, StopClearsRecording, producerVars
<1>2. TypeOK'
    BY <1>1 DEF BaseInv, TypeOK, queueVars, writerVars
<1>3. HandInv' /\ PushInv' /\ StopInv'
    BY <1>1 DEF BaseInv, HandInv, PushInv, StopInv, queueVars, writerVars, RingFill, InHand
<1> QED
    BY <1>2, <1>3 DEF BaseInv

(* The writer's steps leave the producer alone.                            *)

LEMMA WriterTopBase == ASSUME BaseInv, WriterTop \/ RetryNotDue PROVE BaseInv'
<1>1. /\ UNCHANGED <<queueVars, tap, producerVars, from_ring, len, write_ok, block,
                     have_pending, file, failures, mishaps>>
      /\ wpc \in {"top", "retry"}
      /\ wpc' \in {"retry", "fill", "top"}
      /\ wpc' = "retry" => have_pending
      /\ wpc' = "fill" => ~have_pending
    BY DEF WriterTop, RetryNotDue
<1>2. stopping' \in BOOLEAN /\ (stopping' => tap = "stopped")
    <2>1. stopping \in BOOLEAN /\ (stopping => tap = "stopped")
        BY DEF BaseInv, TypeOK, StopInv
    <2>2. \/ (stopping' <=> tap = "stopped") /\ stopping' \in BOOLEAN
          \/ stopping' = stopping
        BY DEF WriterTop, RetryNotDue
    <2> QED
        BY <2>1, <2>2
<1>3. TypeOK'
    BY <1>1, <1>2 DEF BaseInv, TypeOK, queueVars, producerVars
<1>4. HandInv' /\ PushInv' /\ StopInv'
    BY <1>1, <1>2 DEF BaseInv, HandInv, PushInv, StopInv, queueVars, producerVars, RingFill,
        InHand
<1> QED
    BY <1>3, <1>4 DEF BaseInv

LEMMA RetryWritesBase == ASSUME BaseInv, RetryWrites PROVE BaseInv'
<1>1. /\ UNCHANGED <<queueVars, tap, producerVars, stopping, from_ring, len, write_ok, failures,
                     mishaps>>
      /\ wpc = "retry" /\ wpc' \in {"gave_up", "top"}
      /\ file' = file \o block /\ block' = <<>> /\ have_pending' = FALSE
    BY DEF RetryWrites, AfterRetry
<1>2. file' \in Seq(Nat \cup {NoChunk}) /\ block' \in Seq(Nat \cup {NoChunk})
    BY <1>1 DEF BaseInv, TypeOK
<1>3. TypeOK'
    BY <1>1, <1>2 DEF BaseInv, TypeOK, queueVars, producerVars
<1>4. HandInv' /\ PushInv' /\ StopInv'
    BY <1>1 DEF BaseInv, HandInv, PushInv, StopInv, queueVars, producerVars, RingFill, InHand
<1> QED
    BY <1>3, <1>4 DEF BaseInv

LEMMA RetryFailsBase == ASSUME BaseInv, RetryFails PROVE BaseInv'
<1>1. /\ UNCHANGED <<queueVars, tap, producerVars, stopping, from_ring, len, write_ok, block,
                     have_pending>>
      /\ wpc = "retry" /\ wpc' \in {"gave_up", "top"} /\ FailedWrite(block)
      /\ failures < MaxFileFailures /\ failures' = failures + 1
    BY DEF RetryFails, AfterRetry
<1>2. /\ file' \in Seq(Nat \cup {NoChunk})
      /\ mishaps' \subseteq {"gap", "reuse", "partial", "unread", "unpublished"}
    <2>1. block \in Seq(Chunks)
        BY DEF BaseInv, TypeOK, Chunks
    <2> QED
        BY <1>1, <2>1, FailedWriteTyped DEF Chunks
<1>3. TypeOK'
    <2>1. failures' \in 0 .. MaxFileFailures
        BY <1>1, DirectAssumption DEF BaseInv, TypeOK
    <2> QED
        BY <1>1, <1>2, <2>1 DEF BaseInv, TypeOK, queueVars, producerVars
<1>4. HandInv' /\ PushInv' /\ StopInv'
    BY <1>1 DEF BaseInv, HandInv, PushInv, StopInv, queueVars, producerVars, RingFill, InHand
<1> QED
    BY <1>3, <1>4 DEF BaseInv

LEMMA TakeFromRingBase == ASSUME BaseInv, TakeFromRing PROVE BaseInv'
<1>1. BaseTyped
    BY BaseIsTyped
<1>2. /\ UNCHANGED <<queueVars, tap, producerVars, stopping, write_ok, block, have_pending,
                     file, failures, mishaps>>
      /\ wpc = "fill"
      /\ \/ RingFill > 0 /\ from_ring' = TRUE /\ len' = Smaller(RingFill, MaxBlock)
            /\ wpc' = "write"
         \/ RingFill = 0 /\ wpc' = "backlog" /\ from_ring' = from_ring /\ len' = len
    BY <1>1 DEF TakeFromRing, BaseTyped
<1>3. ~have_pending /\ block = <<>>
    BY <1>2 DEF BaseInv, HandInv, InHand
<1>4. /\ len' \in 0 .. MaxBlock
      /\ wpc' = "write" => len' \in 1 .. MaxBlock /\ len' <= RingFill
    BY <1>1, <1>2 DEF Smaller, BaseInv, TypeOK, BaseTyped
<1>5. RingFill' = RingFill
    BY <1>2 DEF queueVars, RingFill
<1>6. TypeOK'
    BY <1>2, <1>4 DEF BaseInv, TypeOK, queueVars, producerVars
<1>7. HandInv'
    BY <1>2, <1>3, <1>4, <1>5 DEF HandInv, InHand
<1>8. PushInv' /\ StopInv'
    BY <1>2, <1>5 DEF BaseInv, PushInv, StopInv, queueVars, producerVars
<1> QED
    BY <1>6, <1>7, <1>8 DEF BaseInv

(* The block taken from the spill file, and what is left there.            *)
LEMMA SpillSplit ==
    ASSUME BaseInv, TakeFromSpill
    PROVE  /\ len' \in 1 .. MaxBlock /\ len' <= Len(spill) /\ len' \in Nat
           /\ block' \in Seq(Nat) /\ Len(block') = len'
           /\ \A i \in 1 .. len' : block'[i] = spill[i]
           /\ spill' \in Seq(Nat) /\ Len(spill') = Len(spill) - len'
           /\ \A i \in 1 .. Len(spill) - len' : spill'[i] = spill[len' + i]
<1>1. BaseTyped
    BY BaseIsTyped
<1>2. /\ spill # <<>>
      /\ len' = Smaller(Len(spill), MaxBlock)
      /\ block' = SubSeq(spill, 1, len')
      /\ spill' = SubSeq(spill, len' + 1, Len(spill))
    BY DEF TakeFromSpill
<1>4. len' \in 1 .. MaxBlock /\ len' <= Len(spill) /\ len' \in Nat
    <2>1. Len(spill) > 0
        BY <1>1, <1>2 DEF BaseTyped
    <2> QED
        BY <1>1, <1>2, <2>1 DEF Smaller, BaseTyped
<1>5. /\ block' \in Seq(Nat) /\ Len(block') = len'
      /\ \A i \in 1 .. len' : block'[i] = spill[i]
    BY SMTT(30), <1>1, <1>2, <1>4 DEF BaseTyped
<1>6. /\ spill' \in Seq(Nat) /\ Len(spill') = Len(spill) - len'
      /\ \A i \in 1 .. Len(spill) - len' : spill'[i] = spill[len' + i]
    <2> DEFINE k == len'
               n == Len(spill)
               rest == SubSeq(spill, k + 1, n)
    <2>1. k \in Nat /\ k <= n
        BY <1>4
    <2>2. spill \in Seq(Nat) /\ n \in Nat
        BY <1>1 DEF BaseTyped
    <2> HIDE DEF k
    <2>3. /\ rest \in Seq(Nat) /\ Len(rest) = n - k
          /\ \A i \in 1 .. n - k : rest[i] = spill[k + i]
        BY <2>1, <2>2
    <2> QED
        BY <1>2, <2>3 DEF k
<1> QED
    BY <1>4, <1>5, <1>6

LEMMA TakeFromSpillBase == ASSUME BaseInv, TakeFromSpill PROVE BaseInv'
<1>1. BaseTyped
    BY BaseIsTyped
<1>2. /\ UNCHANGED <<ring, rhead, rtail, tap, producerVars, stopping, write_ok, have_pending,
                     file, failures>>
      /\ wpc = "backlog" /\ spill # <<>> /\ from_ring' = FALSE /\ wpc' = "write"
      /\ mishaps' = mishaps \/ mishaps' = mishaps \cup {"gap"}
    BY DEF TakeFromSpill
<1>3. ~have_pending
    BY <1>2 DEF BaseInv, HandInv, InHand
<1>4. /\ len' \in 1 .. MaxBlock
      /\ block' \in Seq(Nat \cup {NoChunk}) /\ Len(block') = len'
      /\ spill' \in Seq(Nat)
    <2>1. Seq(Nat) \subseteq Seq(Nat \cup {NoChunk})
        OBVIOUS
    <2> QED
        BY <2>1, SpillSplit
<1>5. TypeOK'
    <2>1. len' \in 0 .. MaxBlock
        BY <1>1, <1>4 DEF BaseTyped
    <2>2. mishaps' \subseteq {"gap", "reuse", "partial", "unread", "unpublished"}
        BY <1>2 DEF BaseInv, TypeOK
    <2> QED
        BY <1>2, <1>4, <2>1, <2>2 DEF BaseInv, TypeOK, producerVars
<1>6. HandInv'
    BY <1>2, <1>3, <1>4 DEF HandInv, InHand
<1>7. PushInv' /\ StopInv'
    BY <1>2 DEF BaseInv, PushInv, StopInv, producerVars, RingFill
<1> QED
    BY <1>5, <1>6, <1>7 DEF BaseInv

LEMMA NothingTakenBase == ASSUME BaseInv, SpillReadFails \/ NothingToTake PROVE BaseInv'
<1>1. /\ UNCHANGED <<queueVars, tap, producerVars, stopping, from_ring, len, write_ok, block,
                     have_pending, file>>
      /\ wpc = "backlog" /\ wpc' = IF stopping THEN "exit" ELSE "top"
      /\ wpc' = "exit" => spill = <<>> \/ "unread" \in mishaps'
      /\ failures' = failures \/ (failures < MaxFileFailures /\ failures' = failures + 1)
      /\ mishaps' = mishaps \/ mishaps' = mishaps \cup {"unread"}
    BY DEF SpillReadFails, NothingToTake
<1>2. TypeOK'
    <2>1. failures' \in 0 .. MaxFileFailures
        BY <1>1, DirectAssumption DEF BaseInv, TypeOK
    <2>2. wpc' \in {"exit", "top"}
        BY <1>1
    <2>3. mishaps' \subseteq {"gap", "reuse", "partial", "unread", "unpublished"}
        BY <1>1 DEF BaseInv, TypeOK
    <2> QED
        BY <1>1, <2>1, <2>2, <2>3 DEF BaseInv, TypeOK, queueVars, producerVars
<1>3. ~have_pending
    BY <1>1 DEF BaseInv, HandInv
<1>4. HandInv' /\ PushInv' /\ StopInv'
    BY <1>1, <1>3 DEF BaseInv, HandInv, PushInv, StopInv, queueVars, producerVars, RingFill,
        InHand
<1> QED
    BY <1>2, <1>4 DEF BaseInv

LEMMA WriteSucceedsBase == ASSUME BaseInv, WriteSucceeds PROVE BaseInv'
<1>1. /\ UNCHANGED <<queueVars, tap, producerVars, stopping, from_ring, len, have_pending,
                     failures, mishaps>>
      /\ wpc = "write" /\ wpc' = "release" /\ write_ok' = TRUE
      /\ file' = file \o Data /\ block' = <<>>
    BY DEF WriteSucceeds
<1>2. file' \in Seq(Nat \cup {NoChunk}) /\ block' \in Seq(Nat \cup {NoChunk})
    BY <1>1, DataSequence DEF BaseInv, TypeOK, Chunks
<1>3. ~have_pending /\ len \in 1 .. MaxBlock /\ (from_ring => len <= RingFill)
    BY <1>1 DEF BaseInv, HandInv, InHand
<1>4. TypeOK'
    BY <1>1, <1>2 DEF BaseInv, TypeOK, queueVars, producerVars
<1>5. HandInv' /\ PushInv' /\ StopInv'
    BY <1>1, <1>3 DEF BaseInv, HandInv, PushInv, StopInv, queueVars, producerVars, RingFill,
        InHand
<1> QED
    BY <1>4, <1>5 DEF BaseInv

LEMMA WriteFailsBase == ASSUME BaseInv, WriteFails PROVE BaseInv'
<1>1. /\ UNCHANGED <<queueVars, tap, producerVars, stopping, from_ring, len, block,
                     have_pending>>
      /\ wpc = "write" /\ wpc' = "release" /\ write_ok' = FALSE /\ FailedWrite(Data)
      /\ failures < MaxFileFailures /\ failures' = failures + 1
    BY DEF WriteFails
<1>2. /\ file' \in Seq(Nat \cup {NoChunk})
      /\ mishaps' \subseteq {"gap", "reuse", "partial", "unread", "unpublished"}
    <2>1. Data \in Seq(Chunks)
        BY <1>1, DataSequence
    <2> QED
        BY <1>1, <2>1, FailedWriteTyped DEF Chunks
<1>3. TypeOK'
    <2>1. failures' \in 0 .. MaxFileFailures
        BY <1>1, DirectAssumption DEF BaseInv, TypeOK
    <2> QED
        BY <1>1, <1>2, <2>1 DEF BaseInv, TypeOK, queueVars, producerVars
<1>4. HandInv' /\ PushInv' /\ StopInv'
    BY <1>1 DEF BaseInv, HandInv, PushInv, StopInv, queueVars, producerVars, RingFill, InHand
<1> QED
    BY <1>3, <1>4 DEF BaseInv

LEMMA ReleaseBase == ASSUME BaseInv, Release PROVE BaseInv'
<1>1. BaseTyped
    BY BaseIsTyped
<1>2. /\ UNCHANGED <<ring, rtail, spill, tap, producerVars, stopping, from_ring, len, write_ok,
                     block, have_pending, file, failures, mishaps>>
      /\ wpc = "release" /\ wpc' = IF write_ok THEN "top" ELSE "hold"
      /\ rhead' = IF from_ring THEN rhead + len ELSE rhead
    BY DEF Release
<1>3. /\ ~have_pending /\ len \in 1 .. MaxBlock /\ (from_ring => len <= RingFill)
      /\ (~from_ring /\ ~write_ok => Len(block) = len)
      /\ (block # <<>> => ~from_ring /\ ~write_ok)
    BY <1>2 DEF BaseInv, HandInv, InHand
<1>4. /\ rhead' \in Nat /\ rtail \in rhead' .. rhead' + RingSlots /\ (from_ring => len <= rhead')
      /\ (RingFill = 0 => RingFill' = 0) /\ (RingFill < RingSlots => RingFill' < RingSlots)
    BY <1>1, <1>2, <1>3 DEF BaseTyped, RingFill
<1>5. TypeOK'
    BY <1>2, <1>4 DEF BaseInv, TypeOK, producerVars
<1>6. HandInv'
    BY <1>2, <1>3, <1>4 DEF HandInv, InHand
<1>7. PushInv' /\ StopInv'
    BY <1>2, <1>4 DEF BaseInv, PushInv, StopInv, producerVars
<1> QED
    BY <1>5, <1>6, <1>7 DEF BaseInv

LEMMA HoldBase == ASSUME BaseInv, Hold PROVE BaseInv'
<1>1. /\ UNCHANGED <<queueVars, tap, producerVars, stopping, from_ring, len, write_ok, file,
                     failures, mishaps>>
      /\ wpc = "hold" /\ wpc' = "top" /\ have_pending' = TRUE /\ block' = ReleasedData
    BY DEF Hold
<1>2. block' \in Seq(Nat \cup {NoChunk}) /\ Len(block') = len /\ len \in 1 .. MaxBlock
    BY <1>1, ReleasedSequence DEF BaseInv, HandInv, InHand, Chunks
<1>3. TypeOK'
    BY <1>1, <1>2 DEF BaseInv, TypeOK, queueVars, producerVars
<1>4. HandInv' /\ PushInv' /\ StopInv'
    BY <1>1, <1>2 DEF BaseInv, HandInv, PushInv, StopInv, queueVars, producerVars, RingFill,
        InHand
<1> QED
    BY <1>3, <1>4 DEF BaseInv

LEMMA NextBase == BaseInv /\ [Next]_vars => BaseInv'
<1> SUFFICES ASSUME BaseInv, [Next]_vars PROVE BaseInv'
    OBVIOUS
<1>1. CASE PushBegin \/ PushStep \/ StopDisables \/ StopClearsRecording
    BY <1>1, PushBeginBase, PushCopiesBase, PushPublishBase, PushSpillBase, OtherPushesBase
    DEF PushStep
<1>2. CASE WriterStep
    BY <1>2, WriterTopBase, RetryWritesBase, RetryFailsBase, TakeFromRingBase,
        TakeFromSpillBase, NothingTakenBase, WriteSucceedsBase, WriteFailsBase, ReleaseBase,
        HoldBase
    DEF WriterStep, RetryAttempt
<1>3. CASE UNCHANGED vars
    <2>1. UNCHANGED <<queueVars, tap, producerVars, writerVars, mishaps>>
        BY <1>3 DEF vars
    <2>2. TypeOK'
        BY <2>1 DEF BaseInv, TypeOK, queueVars, producerVars, writerVars
    <2>3. HandInv' /\ PushInv' /\ StopInv'
        BY <2>1 DEF BaseInv, HandInv, PushInv, StopInv, queueVars, producerVars, writerVars,
            RingFill, InHand
    <2> QED
        BY <2>2, <2>3 DEF BaseInv
<1> QED
    BY <1>1, <1>2, <1>3 DEF Next

-----------------------------------------------------------------------------
(* Until the first mishap: what each place holds.                          *)

Typed == BaseTyped /\ file \in Seq(Nat) /\ block \in Seq(Nat)

LEMMA DirectTyped == ASSUME DirectInv PROVE Typed
BY BaseIsTyped DEF DirectInv, DataInv, Typed

(* n chunks of the ring, from the i-th one that matters on.                *)
LEMMA RingChunks ==
    ASSUME DirectInv, NEW i \in Nat, NEW n \in Nat, i + n <= rtail - Oldest,
           First + i >= 0
    PROVE  /\ RingFrom(Oldest + i, n) \in Seq(Nat)
           /\ Len(RingFrom(Oldest + i, n)) = n
           /\ \A j \in 1 .. n : RingFrom(Oldest + i, n)[j] = First + i + j - 1
<1>1. Typed
    BY DirectTyped
<1>2. ASSUME NEW j \in 1 .. n
      PROVE  ring[(Oldest + i + j - 1) % RingSlots] = First + i + j - 1
    <2>1. i + j - 1 \in 0 .. (rtail - Oldest) - 1
        BY <1>1 DEF Typed, BaseTyped
    <2>2. Oldest + (i + j - 1) = Oldest + i + j - 1 /\ First + (i + j - 1) = First + i + j - 1
        BY <1>1 DEF Typed, BaseTyped
    <2> QED
        BY <2>1, <2>2 DEF DirectInv, DataInv
<1>3. RingFrom(Oldest + i, n) = [j \in 1 .. n |-> First + i + j - 1]
    BY <1>2 DEF RingFrom
<1>4. \A j \in 1 .. n : First + i + j - 1 \in Nat
    BY <1>1 DEF Typed, BaseTyped
<1>5. RingFrom(Oldest + i, n) \in [1 .. n -> Nat]
    BY <1>3, <1>4
<1>6. RingFrom(Oldest + i, n) \in Seq(Nat)
    BY <1>5, SeqDef
<1>7. Len(RingFrom(Oldest + i, n)) = n
    BY <1>3
<1> QED
    BY <1>3, <1>6, <1>7

(* The block the writer is about to write.                                 *)
LEMMA DataChunks ==
    ASSUME DirectInv, wpc = "write"
    PROVE  /\ Data \in Seq(Nat) /\ Len(Data) = len
           /\ \A j \in 1 .. len : Data[j] = Len(file) + j - 1
<1>1. Typed
    BY DirectTyped
<1>2. ReleasedUncopied = 0 /\ WrittenUnreleased = 0
    BY DEF ReleasedUncopied, WrittenUnreleased
<1>3. CASE from_ring
    <2>1. block = <<>> /\ len <= RingFill
        BY <1>3 DEF DirectInv, BaseInv, HandInv, InHand
    <2>2. Oldest + 0 = rhead /\ First = Len(file) /\ First + 0 = First
          /\ 0 + len <= rtail - Oldest /\ First + 0 >= 0
        BY <1>1, <1>2, <2>1 DEF Typed, BaseTyped
    <2>3. /\ RingFrom(Oldest + 0, len) \in Seq(Nat) /\ Len(RingFrom(Oldest + 0, len)) = len
          /\ \A j \in 1 .. len : RingFrom(Oldest + 0, len)[j] = First + 0 + j - 1
        BY <1>1, <2>2, RingChunks DEF Typed, BaseTyped
    <2> QED
        BY <1>3, <2>2, <2>3 DEF Data
<1>4. CASE ~from_ring
    <2>1. Data = block /\ Len(block) = len
        BY <1>4 DEF Data, DirectInv, BaseInv, HandInv, InHand
    <2> QED
        BY <1>1, <2>1 DEF DirectInv, DataInv, Typed, BaseTyped
<1> QED
    BY <1>3, <1>4

(* The block it copies aside, which the ring has released already.         *)
LEMMA ReleasedChunks ==
    ASSUME DirectInv, wpc = "hold"
    PROVE  /\ ReleasedData \in Seq(Nat) /\ Len(ReleasedData) = len
           /\ \A j \in 1 .. len : ReleasedData[j] = Len(file) + j - 1
<1>1. Typed
    BY DirectTyped
<1>2. WrittenUnreleased = 0
    BY DEF WrittenUnreleased
<1>3. CASE from_ring
    <2>1. block = <<>> /\ ReleasedUncopied = len
        BY <1>3 DEF DirectInv, BaseInv, HandInv, InHand, ReleasedUncopied
    <2>2. Oldest + 0 = rhead - len /\ First = Len(file) /\ First + 0 = First
          /\ 0 + len <= rtail - Oldest /\ First + 0 >= 0
        BY <1>1, <1>2, <2>1 DEF Typed, BaseTyped
    <2>3. /\ RingFrom(Oldest + 0, len) \in Seq(Nat) /\ Len(RingFrom(Oldest + 0, len)) = len
          /\ \A j \in 1 .. len : RingFrom(Oldest + 0, len)[j] = First + 0 + j - 1
        BY <1>1, <2>2, RingChunks DEF Typed, BaseTyped
    <2> QED
        BY <1>3, <2>2, <2>3 DEF ReleasedData
<1>4. CASE ~from_ring
    <2>1. ReleasedData = block /\ Len(block) = len
        BY <1>4 DEF ReleasedData, DirectInv, BaseInv, HandInv, InHand
    <2> QED
        BY <1>1, <2>1 DEF DirectInv, DataInv, Typed, BaseTyped
<1> QED
    BY <1>3, <1>4

(* A step of the writer that releases or takes over the k oldest chunks.   *)
LEMMA RingMoves ==
    ASSUME DirectInv, NEW k \in Nat, k <= rtail - Oldest,
           First' = First + k, Oldest' = Oldest + k,
           UNCHANGED <<ring, rtail, spill, accepted, ppc>>
    PROVE  /\ accepted' = First' + (rtail' - Oldest') + Len(spill')
           /\ rtail' - Oldest' <= RingSlots
           /\ \A i \in 0 .. (rtail' - Oldest') - 1 : ring'[(Oldest' + i) % RingSlots] = First' + i
           /\ \A i \in 1 .. Len(spill') : spill'[i] = First' + (rtail' - Oldest') + i - 1
           /\ ppc' = "publish" => /\ ring'[rtail' % RingSlots] = accepted'
                                  /\ rtail' - Oldest' < RingSlots
<1>1. Typed
    BY DirectTyped
<1>2. First' + (rtail' - Oldest') = First + (rtail - Oldest)
    BY <1>1 DEF Typed, BaseTyped
<1>3. ASSUME NEW i \in 0 .. (rtail' - Oldest') - 1
      PROVE  ring'[(Oldest' + i) % RingSlots] = First' + i
    <2>1. k + i \in 0 .. (rtail - Oldest) - 1
        BY <1>1 DEF Typed, BaseTyped
    <2>2. Oldest' + i = Oldest + (k + i) /\ First' + i = First + (k + i)
        BY <1>1 DEF Typed, BaseTyped
    <2> QED
        BY <2>1, <2>2 DEF DirectInv, DataInv
<1>4. /\ rtail' - Oldest' <= RingSlots
      /\ rtail - Oldest < RingSlots => rtail' - Oldest' < RingSlots
    BY <1>1 DEF DirectInv, DataInv, Typed, BaseTyped
<1> QED
    BY <1>2, <1>3, <1>4 DEF DirectInv, DataInv

LEMMA InitDirectInv == Init => DirectInv
<1> SUFFICES ASSUME Init PROVE DirectInv
    OBVIOUS
<1>1. BaseInv
    BY InitBase
<1>2. <<>> \in Seq(Nat)
    OBVIOUS
<1>3. DataInv
    BY <1>2, DirectAssumption DEF Init, DataInv, First, Oldest, WrittenUnreleased,
        ReleasedUncopied
<1> QED
    BY <1>1, <1>3 DEF DirectInv

(* No mishap is taken back.                                                *)
LEMMA UndamagedBefore == ASSUME [Next]_vars, Undamaged' PROVE Undamaged
<1>1. ASSUME FailedWrite(block) \/ FailedWrite(Data) PROVE mishaps \subseteq mishaps'
    BY <1>1 DEF FailedWrite
<1>2. mishaps \subseteq mishaps'
    BY <1>1 DEF Next, PushStep, WriterStep, RetryAttempt, PushBegin, PushCopies, PushRing,
        PushUnpublished, PushRefused, PushSpill, PushDropped, StopDisables,
        StopClearsRecording, WriterTop, RetryWrites, RetryFails, RetryNotDue, TakeFromRing,
        TakeFromSpill, SpillReadFails, NothingToTake, WriteSucceeds, WriteFails, Release, Hold,
        vars
<1> QED
    BY <1>2 DEF Undamaged

-----------------------------------------------------------------------------
(* The producer's steps.                                                   *)

(* Steps that move no chunk.                                               *)
LEMMA NothingMoves ==
    ASSUME DirectInv,
           UNCHANGED <<queueVars, accepted, from_ring, block, file>>,
           \/ UNCHANGED <<wpc, len, write_ok>>
           \/ wpc \notin {"release", "hold"} /\ wpc' \notin {"release", "hold"},
           ppc' = "publish" => ppc = "publish"
    PROVE  DataInv'
BY DEF DirectInv, DataInv, queueVars, First, Oldest, WrittenUnreleased, ReleasedUncopied

LEMMA ProducerWaits ==
    ASSUME DirectInv,
           PushBegin \/ PushRefused \/ PushDropped \/ StopDisables \/ StopClearsRecording
    PROVE  DataInv'
<1>1. /\ UNCHANGED <<queueVars, accepted, writerVars>>
      /\ ppc' = "publish" => ppc = "publish"
    BY DEF PushBegin, PushRefused, PushDropped, StopDisables, StopClearsRecording, producerVars
<1>2. UNCHANGED <<wpc, from_ring, len, write_ok, block, file>>
    BY <1>1 DEF writerVars
<1> QED
    BY <1>1, <1>2, NothingMoves

LEMMA PushCopiesData == ASSUME DirectInv, PushCopies, Undamaged' PROVE DataInv'
<1>1. Typed
    BY DirectTyped
<1>2. /\ UNCHANGED <<rhead, rtail, spill, accepted, writerVars>>
      /\ ppc = "ring" /\ ring' = [ring EXCEPT ![rtail % RingSlots] = accepted]
      /\ RingFill + ReleasedUncopied < RingSlots
    BY DEF PushCopies, Undamaged
<1>3. UNCHANGED <<wpc, from_ring, len, write_ok, block, file>>
    BY <1>2 DEF writerVars
<1>4. Oldest' = Oldest /\ First' = First
    BY <1>2, <1>3 DEF Oldest, First, ReleasedUncopied, WrittenUnreleased
<1> DEFINE n == rtail - Oldest
<1>5. n \in Nat /\ n < RingSlots /\ Oldest + n = rtail
    BY <1>1, <1>2 DEF Typed, BaseTyped
<1>6. \A i \in 0 .. n - 1 : ring[(Oldest + i) % RingSlots] = First + i
    BY DEF DirectInv, DataInv
<1>7. rtail % RingSlots \in DOMAIN ring /\ ring'[rtail % RingSlots] = accepted
    <2>1. rtail % RingSlots \in DOMAIN ring
        BY <1>1, SlotInRing DEF DirectInv, BaseInv, TypeOK, Typed, BaseTyped
    <2> QED
        BY <1>2, <2>1
<1> HIDE DEF n
<1>8. ASSUME NEW i \in 0 .. n - 1 PROVE ring'[(Oldest + i) % RingSlots] = First + i
    <2>1. /\ i \in Nat /\ Oldest + i \in Nat /\ rtail \in Nat
          /\ Oldest + i < rtail /\ rtail - (Oldest + i) < RingSlots
          /\ RingSlots \in Nat \ {0}
        BY <1>1, <1>5 DEF Typed, BaseTyped
    <2>2. (Oldest + i) % RingSlots # rtail % RingSlots
        BY <2>1, SlotsDiffer
    <2>3. (Oldest + i) % RingSlots \in DOMAIN ring
        BY <2>1, SlotInRing DEF DirectInv, BaseInv, TypeOK
    <2> QED
        BY <1>2, <1>6, <2>2, <2>3
<1>9. rtail' - Oldest' = n
    BY <1>2, <1>4 DEF n
<1> QED
    BY <1>2, <1>3, <1>4, <1>5, <1>7, <1>8, <1>9 DEF DirectInv, DataInv, n

LEMMA PushRingData == ASSUME DirectInv, PushRing PROVE DataInv'
<1>1. Typed
    BY DirectTyped
<1>2. /\ UNCHANGED <<ring, rhead, spill, writerVars>>
      /\ ppc = "publish" /\ rtail' = rtail + 1 /\ accepted' = accepted + 1 /\ ppc' = "idle"
    BY DEF PushRing
<1>3. spill = <<>> /\ Len(spill) = 0
    BY <1>2 DEF DirectInv, BaseInv, PushInv
<1>4. UNCHANGED <<wpc, from_ring, len, write_ok, block, file>>
    BY <1>2 DEF writerVars
<1>5. Oldest' = Oldest /\ First' = First
    BY <1>2, <1>4 DEF Oldest, First, ReleasedUncopied, WrittenUnreleased
<1> DEFINE n == rtail - Oldest
<1>6. n \in Nat /\ rtail' - Oldest' = n + 1 /\ Oldest + n = rtail
    BY <1>1, <1>2, <1>5 DEF Typed, BaseTyped
<1>7. n < RingSlots /\ ring[rtail % RingSlots] = accepted
    BY <1>2 DEF DirectInv, DataInv
<1>8. accepted = First + n
    BY <1>1, <1>3 DEF DirectInv, DataInv, Typed, BaseTyped
<1>9. \A i \in 0 .. n - 1 : ring[(Oldest + i) % RingSlots] = First + i
    BY DEF DirectInv, DataInv
<1> HIDE DEF n
<1>10. ASSUME NEW i \in 0 .. (n + 1) - 1 PROVE ring[(Oldest + i) % RingSlots] = First + i
    <2>1. CASE i = n
        BY <1>6, <1>7, <1>8, <2>1
    <2>2. CASE i # n
        <3>1. i \in 0 .. n - 1
            BY <1>6, <2>2
        <3> QED
            BY <1>9, <3>1
    <2> QED
        BY <2>1, <2>2
<1>11. accepted' = First + (n + 1) + Len(spill)
    BY <1>1, <1>2, <1>3, <1>6, <1>8 DEF Typed, BaseTyped
<1>12. \A i \in 1 .. Len(spill) : spill[i] = First + (n + 1) + i - 1
    BY <1>3
<1>13. n + 1 <= RingSlots
    BY <1>1, <1>6, <1>7 DEF Typed, BaseTyped
<1>14. /\ file \in Seq(Nat) /\ block \in Seq(Nat)
       /\ \A i \in 1 .. Len(file) : file[i] = i - 1
       /\ \A i \in 1 .. Len(block) : block[i] = Len(file) + i - 1
    BY DEF DirectInv, DataInv
<1> QED
    BY <1>2, <1>4, <1>5, <1>6, <1>10, <1>11, <1>12, <1>13, <1>14 DEF DataInv

LEMMA PushSpillData == ASSUME DirectInv, PushSpill PROVE DataInv'
<1>1. Typed
    BY DirectTyped
<1>2. /\ UNCHANGED <<ring, rhead, rtail, writerVars>>
      /\ spill' = Append(spill, accepted) /\ accepted' = accepted + 1 /\ ppc' = "idle"
    BY DEF PushSpill
<1>3. UNCHANGED <<wpc, from_ring, len, write_ok, block, file>>
    BY <1>2 DEF writerVars
<1>4. Oldest' = Oldest /\ First' = First
    BY <1>2, <1>3 DEF Oldest, First, ReleasedUncopied, WrittenUnreleased
<1>5. /\ Len(spill') = Len(spill) + 1
      /\ \A i \in 1 .. Len(spill) : spill'[i] = spill[i]
      /\ spill'[Len(spill) + 1] = accepted
    BY <1>1, <1>2 DEF Typed, BaseTyped
<1>6. accepted = First + (rtail - Oldest) + Len(spill)
    BY DEF DirectInv, DataInv
<1>7. \A i \in 1 .. Len(spill) : spill[i] = First + (rtail - Oldest) + i - 1
    BY DEF DirectInv, DataInv
<1>8. ASSUME NEW i \in 1 .. Len(spill') PROVE spill'[i] = First + (rtail - Oldest) + i - 1
    <2>1. CASE i = Len(spill) + 1
        BY <1>1, <1>5, <1>6, <2>1 DEF Typed, BaseTyped
    <2>2. CASE i # Len(spill) + 1
        <3>1. i \in 1 .. Len(spill)
            BY <1>1, <1>5, <2>2 DEF Typed, BaseTyped
        <3> QED
            BY <1>5, <1>7, <3>1
    <2> QED
        BY <2>1, <2>2
<1>9. accepted' = First + (rtail - Oldest) + Len(spill')
    BY <1>1, <1>2, <1>5, <1>6 DEF Typed, BaseTyped
<1> QED
    BY <1>2, <1>3, <1>4, <1>8, <1>9 DEF DirectInv, DataInv

-----------------------------------------------------------------------------
(* The writer's steps.                                                     *)

LEMMA WriterLooks ==
    ASSUME DirectInv,
           WriterTop \/ RetryNotDue \/ TakeFromRing \/ SpillReadFails \/ NothingToTake
    PROVE  DataInv'
<1>1. /\ UNCHANGED <<queueVars, producerVars, block, file>>
      /\ wpc \notin {"release", "hold"} /\ wpc' \notin {"release", "hold"}
    BY DEF WriterTop, RetryNotDue, TakeFromRing, SpillReadFails, NothingToTake
<1> QED
    BY <1>1 DEF DirectInv, DataInv, queueVars, producerVars, First, Oldest, WrittenUnreleased,
        ReleasedUncopied

LEMMA RetryWritesData ==
    ASSUME DirectInv, RetryWrites
    PROVE  DataInv' /\ Len(file') = Len(file) + Len(block)
<1>1. Typed
    BY DirectTyped
<1>2. /\ UNCHANGED <<queueVars, producerVars>>
      /\ wpc = "retry" /\ wpc' \in {"gave_up", "top"}
      /\ file' = file \o block /\ block' = <<>>
    BY DEF RetryWrites, AfterRetry
<1>3. /\ file' \in Seq(Nat) /\ Len(file') = Len(file) + Len(block)
      /\ \A i \in 1 .. Len(file') : file'[i] = i - 1
    <2>1. /\ \A i \in 1 .. Len(file) : file[i] = i - 1
          /\ \A i \in 1 .. Len(block) : block[i] = Len(file) + i - 1
        BY DEF DirectInv, DataInv
    <2> QED
        BY <1>1, <1>2, <2>1, Continued DEF Typed
<1>4. block' \in Seq(Nat) /\ Len(block') = 0
    BY <1>2
<1>5. First' = First + 0 /\ Oldest' = Oldest + 0 /\ 0 <= rtail - Oldest /\ 0 \in Nat
    <2>1. WrittenUnreleased = 0 /\ WrittenUnreleased' = 0
        BY <1>2 DEF WrittenUnreleased
    <2>2. ReleasedUncopied = 0 /\ ReleasedUncopied' = 0
        BY <1>2 DEF ReleasedUncopied
    <2> QED
        BY <1>1, <1>2, <1>3, <1>4, <2>1, <2>2 DEF First, Oldest, Typed, BaseTyped, queueVars
<1>6. UNCHANGED <<ring, rtail, spill, accepted, ppc>>
    BY <1>2 DEF queueVars, producerVars
<1> QED
    BY <1>3, <1>4, <1>5, <1>6, RingMoves DEF DataInv

(* A failed write that leaves nothing in the file.                         *)
LEMMA FailsData ==
    ASSUME DirectInv, RetryFails \/ WriteFails, Undamaged' PROVE DataInv' /\ file' = file
<1>1. /\ UNCHANGED <<queueVars, producerVars, from_ring, len, block>>
      /\ wpc \in {"retry", "write"} /\ wpc' \in {"gave_up", "top", "release"}
      /\ wpc' = "release" => write_ok' = FALSE
      /\ file' = file \/ "partial" \in mishaps'
    BY DEF RetryFails, WriteFails, AfterRetry, FailedWrite
<1>2. file' = file
    BY <1>1 DEF Undamaged
<1> QED
    BY <1>1, <1>2 DEF DirectInv, DataInv, queueVars, producerVars, First, Oldest,
        WrittenUnreleased, ReleasedUncopied

LEMMA TakeFromSpillData == ASSUME DirectInv, TakeFromSpill, Undamaged' PROVE DataInv'
<1>1. Typed
    BY DirectTyped
<1>2. /\ UNCHANGED <<ring, rhead, rtail, tap, producerVars, stopping, write_ok, have_pending,
                     file, failures>>
      /\ wpc = "backlog" /\ spill # <<>> /\ from_ring' = FALSE /\ wpc' = "write"
      /\ len' = Smaller(Len(spill), MaxBlock)
      /\ block' = SubSeq(spill, 1, len')
      /\ spill' = SubSeq(spill, len' + 1, Len(spill))
      /\ RingFill = 0
    BY DEF TakeFromSpill, Undamaged
<1>3. ~have_pending /\ block = <<>> /\ Len(block) = 0 /\ RingFill = 0
    BY <1>2 DEF DirectInv, BaseInv, HandInv, InHand
<1>4. len' \in 1 .. MaxBlock /\ len' <= Len(spill) /\ len' \in Nat
    BY SpillSplit DEF DirectInv
<1>5. /\ block' \in Seq(Nat) /\ Len(block') = len'
      /\ \A i \in 1 .. len' : block'[i] = spill[i]
    BY SpillSplit DEF DirectInv
<1>6. /\ spill' \in Seq(Nat) /\ Len(spill') = Len(spill) - len'
      /\ \A i \in 1 .. Len(spill) - len' : spill'[i] = spill[len' + i]
    BY SpillSplit DEF DirectInv
<1>7. RingFill' = 0 /\ ppc' = ppc /\ accepted' = accepted /\ pushes' = pushes
    BY <1>2, <1>3 DEF RingFill, producerVars
<1>11. /\ Oldest = rtail /\ Oldest' = rtail /\ First = Len(file) /\ First' = Len(file) + len'
    <2>1. /\ WrittenUnreleased = 0 /\ WrittenUnreleased' = 0
          /\ ReleasedUncopied = 0 /\ ReleasedUncopied' = 0
        BY <1>2 DEF WrittenUnreleased, ReleasedUncopied
    <2> QED
        BY <1>1, <1>2, <1>3, <1>4, <1>5, <2>1 DEF First, Oldest, Typed, BaseTyped
<1>12. /\ accepted = Len(file) + Len(spill)
       /\ \A i \in 1 .. Len(spill) : spill[i] = Len(file) + i - 1
    <2>1. rtail - rtail = 0 /\ Len(file) + 0 = Len(file)
        BY <1>1 DEF Typed, BaseTyped
    <2>2. /\ accepted = First + (rtail - Oldest) + Len(spill)
          /\ \A i \in 1 .. Len(spill) : spill[i] = First + (rtail - Oldest) + i - 1
        BY DEF DirectInv, DataInv
    <2> QED
        BY <1>11, <2>1, <2>2
<1>13. DataInv'
    <2>0. /\ Len(file) \in Nat /\ Len(spill) \in Nat /\ len' \in Nat /\ len' <= Len(spill)
          /\ rtail \in Nat
        BY <1>1, <1>4 DEF Typed, BaseTyped
    <2>1. \A i \in 1 .. Len(block') : block'[i] = Len(file) + i - 1
        <3>1. \A i \in 1 .. len' : i \in 1 .. Len(spill)
            BY <2>0
        <3> QED
            BY <1>5, <1>12, <3>1
    <2>2. ASSUME NEW i \in 1 .. Len(spill') PROVE spill'[i] = First' + (rtail - rtail) + i - 1
        <3>1. i \in 1 .. Len(spill) - len'
            BY <1>6
        <3> DEFINE k == len'
                   n == Len(spill)
        <3>2. k \in Nat /\ n \in Nat /\ k <= n /\ i \in 1 .. n - k
            BY <2>0, <3>1
        <3> HIDE DEF k, n
        <3>3. i \in Int /\ k + i \in 1 .. n
            BY <3>2
        <3>4. i \in 1 .. Len(spill) - len' /\ len' + i \in 1 .. Len(spill) /\ i \in Int
            BY <3>1, <3>3 DEF k, n
        <3>5. spill'[i] = Len(file) + (len' + i) - 1
            BY <1>6, <1>12, <3>4
        <3>6. First' = Len(file) + len' /\ rtail - rtail = 0
            BY <1>11, <2>0
        <3> HIDE DEF First
        <3> QED
            BY <2>0, <3>3, <3>5, <3>6 DEF k
    <2>3. accepted' = First' + (rtail - rtail) + Len(spill')
        BY <1>1, <1>4, <1>6, <1>7, <1>11, <1>12 DEF Typed, BaseTyped
    <2>4. rtail' = rtail /\ file' = file /\ rtail - rtail = 0 /\ 0 <= RingSlots
        BY <1>1, <1>2 DEF Typed, BaseTyped
    <2>5. \A i \in 1 .. Len(file) : file[i] = i - 1
        BY DEF DirectInv, DataInv
    <2>6. rtail' - Oldest' = rtail - rtail
        BY <1>11, <2>4
    <2>7. 0 .. (rtail' - Oldest') - 1 = {}
        BY <2>4, <2>6
    <2>8. ppc' # "publish"
        BY <1>2 DEF DirectInv, BaseInv, PushInv, producerVars
    <2>9. file \in Seq(Nat)
        BY <1>1 DEF Typed, BaseTyped
    <2> QED
        BY <1>5, <2>1, <2>2, <2>3, <2>4, <2>5, <2>6, <2>7, <2>8, <2>9 DEF DataInv
<1> QED
    BY <1>13

LEMMA WriteSucceedsData ==
    ASSUME DirectInv, WriteSucceeds
    PROVE  DataInv' /\ Len(file') = Len(file) + len
<1>1. Typed
    BY DirectTyped
<1>2. /\ UNCHANGED <<queueVars, tap, producerVars, stopping, from_ring, len, have_pending,
                     failures>>
      /\ wpc = "write" /\ wpc' = "release" /\ write_ok' = TRUE
      /\ file' = file \o Data /\ block' = <<>>
    BY DEF WriteSucceeds
<1>3. /\ file' \in Seq(Nat) /\ Len(file') = Len(file) + len
      /\ \A i \in 1 .. Len(file') : file'[i] = i - 1
    <2>1. /\ Data \in Seq(Nat) /\ Len(Data) = len
          /\ \A i \in 1 .. Len(Data) : Data[i] = Len(file) + i - 1
        BY <1>2, DataChunks
    <2>2. \A i \in 1 .. Len(file) : file[i] = i - 1
        BY DEF DirectInv, DataInv
    <2>3. file \in Seq(Nat)
        BY <1>1 DEF Typed, BaseTyped
    <2>4. /\ file \o Data \in Seq(Nat)
          /\ Len(file \o Data) = Len(file) + Len(Data)
          /\ \A i \in 1 .. Len(file) + Len(Data) : (file \o Data)[i] = i - 1
        BY <2>1, <2>2, <2>3, Continued
    <2> QED
        BY <1>2, <2>1, <2>4
<1>4. block' \in Seq(Nat) /\ Len(block') = 0
    BY <1>2
<1>5. ~have_pending /\ len \in 1 .. MaxBlock /\ (from_ring => len <= RingFill)
      /\ (~from_ring => Len(block) = len) /\ (from_ring => Len(block) = 0)
    BY <1>2 DEF DirectInv, BaseInv, HandInv, InHand
<1>6. First' = First + 0 /\ Oldest' = Oldest + 0 /\ 0 <= rtail - Oldest /\ 0 \in Nat
    <2>1. /\ WrittenUnreleased = 0 /\ WrittenUnreleased' = IF from_ring THEN len ELSE 0
          /\ ReleasedUncopied = 0 /\ ReleasedUncopied' = 0
        BY <1>2 DEF WrittenUnreleased, ReleasedUncopied
    <2>2. rhead' = rhead
        BY <1>2 DEF queueVars
    <2>3. First' = Len(file') + Len(block') - WrittenUnreleased'
        BY DEF First
    <2>4. Oldest' = rhead - ReleasedUncopied' /\ Oldest = rhead - ReleasedUncopied
        BY <2>2 DEF Oldest
    <2>5. First = Len(file) + Len(block) - WrittenUnreleased
        BY DEF First
    <2>6. /\ Len(file) \in Nat /\ Len(block) \in Nat /\ len \in Nat /\ rhead \in Nat
          /\ rtail - rhead \in Nat
        BY <1>1 DEF Typed, BaseTyped
    <2>7. First' = First
        BY SMTT(30), <1>3, <1>4, <1>5, <2>1, <2>3, <2>5, <2>6
    <2> QED
        BY <2>1, <2>4, <2>5, <2>6, <2>7
<1>9. DataInv'
    <2>1. UNCHANGED <<ring, rtail, spill, accepted, ppc>>
        BY <1>2 DEF queueVars, producerVars
    <2> QED
        BY <1>3, <1>4, <1>6, <2>1, RingMoves DEF DataInv
<1> QED
    BY <1>3, <1>9

LEMMA ReleaseData == ASSUME DirectInv, Release PROVE DataInv'
<1>1. Typed
    BY DirectTyped
<1>2. /\ UNCHANGED <<ring, rtail, spill, tap, producerVars, stopping, from_ring, len, write_ok,
                     block, have_pending, file, failures>>
      /\ wpc = "release" /\ wpc' = IF write_ok THEN "top" ELSE "hold"
      /\ rhead' = IF from_ring THEN rhead + len ELSE rhead
    BY DEF Release
<1>3. /\ ~have_pending /\ len \in 1 .. MaxBlock /\ (from_ring => len <= RingFill)
      /\ (~from_ring /\ ~write_ok => Len(block) = len)
      /\ (block # <<>> => ~from_ring /\ ~write_ok)
    BY <1>2 DEF DirectInv, BaseInv, HandInv, InHand
<1>4. rhead' \in Nat /\ rtail \in rhead' .. rhead' + RingSlots /\ (from_ring => len <= rhead')
      /\ (RingFill = 0 => RingFill' = 0)
    BY <1>1, <1>2, <1>3 DEF Typed, BaseTyped, RingFill
<1> DEFINE k == WrittenUnreleased
<1>8. /\ k \in Nat /\ k <= rtail - Oldest
      /\ First' = First + k /\ Oldest' = Oldest + k
    <2>1. /\ k = IF from_ring /\ write_ok THEN len ELSE 0
          /\ ReleasedUncopied = 0
          /\ WrittenUnreleased' = 0
          /\ ReleasedUncopied' = IF from_ring /\ ~write_ok THEN len ELSE 0
        BY <1>2 DEF WrittenUnreleased, ReleasedUncopied
    <2>2. First' = Len(file) + Len(block) - WrittenUnreleased'
        BY <1>2 DEF First
    <2>3. Oldest' = rhead' - ReleasedUncopied'
        BY DEF Oldest
    <2> HIDE DEF k
    <2> QED
        BY <1>1, <1>2, <1>3, <2>1, <2>2, <2>3 DEF Typed, BaseTyped, k
<1> HIDE DEF k
<1>9. DataInv'
    <2>1. UNCHANGED <<ring, rtail, spill, accepted, ppc>>
        BY <1>2 DEF producerVars
    <2>2. /\ file' \in Seq(Nat) /\ block' \in Seq(Nat)
          /\ \A i \in 1 .. Len(file') : file'[i] = i - 1
          /\ \A i \in 1 .. Len(block') : block'[i] = Len(file') + i - 1
        BY <1>2 DEF DirectInv, DataInv
    <2> QED
        BY <1>8, <2>1, <2>2, RingMoves DEF DataInv
<1> QED
    BY <1>9

LEMMA HoldData == ASSUME DirectInv, Hold PROVE DataInv'
<1>1. Typed
    BY DirectTyped
<1>2. /\ UNCHANGED <<queueVars, tap, producerVars, stopping, from_ring, len, write_ok, file,
                     failures>>
      /\ wpc = "hold" /\ wpc' = "top" /\ have_pending' = TRUE /\ block' = ReleasedData
    BY DEF Hold
<1>3. /\ block' \in Seq(Nat) /\ Len(block') = len
      /\ \A i \in 1 .. Len(block') : block'[i] = Len(file) + i - 1
    BY <1>2, ReleasedChunks
<1>4. /\ len \in 1 .. MaxBlock
      /\ (~from_ring => Len(block) = len) /\ (from_ring => Len(block) = 0)
    BY <1>2 DEF DirectInv, BaseInv, HandInv, InHand
<1> DEFINE k == ReleasedUncopied
<1>7. /\ k \in Nat /\ k <= rtail - Oldest
      /\ First' = First + k /\ Oldest' = Oldest + k
    <2>1. /\ k = IF from_ring THEN len ELSE 0
          /\ ReleasedUncopied' = 0
          /\ WrittenUnreleased = 0 /\ WrittenUnreleased' = 0
        BY <1>2 DEF WrittenUnreleased, ReleasedUncopied
    <2>2. First' = Len(file) + Len(block') - WrittenUnreleased'
        BY <1>2 DEF First
    <2>3. Oldest' = rhead - ReleasedUncopied'
        BY <1>2 DEF Oldest, queueVars
    <2> QED
        BY SMTT(30), <1>1, <1>3, <1>4, <2>1, <2>2, <2>3 DEF Typed, BaseTyped
<1> HIDE DEF k
<1>8. DataInv'
    <2>1. UNCHANGED <<ring, rtail, spill, accepted, ppc>>
        BY <1>2 DEF queueVars, producerVars
    <2>2. /\ file' \in Seq(Nat) /\ block' \in Seq(Nat)
          /\ \A i \in 1 .. Len(file') : file'[i] = i - 1
          /\ \A i \in 1 .. Len(block') : block'[i] = Len(file') + i - 1
        BY <1>2, <1>3 DEF DirectInv, DataInv
    <2> QED
        BY <1>7, <2>1, <2>2, RingMoves DEF DataInv
<1> QED
    BY <1>8

LEMMA NextDirectInv == DirectInv /\ [Next]_vars /\ Undamaged' => DirectInv'
<1> SUFFICES ASSUME DirectInv, [Next]_vars, Undamaged' PROVE DirectInv'
    OBVIOUS
<1>1. BaseInv'
    BY NextBase DEF DirectInv
<1>2. CASE PushBegin \/ PushStep \/ StopDisables \/ StopClearsRecording
    <2>1. ~PushUnpublished
        BY DEF PushUnpublished, Undamaged
    <2>2. DataInv'
        BY <1>2, <2>1, ProducerWaits, PushCopiesData, PushRingData, PushSpillData DEF PushStep
    <2> QED
        BY <1>1, <2>2 DEF DirectInv
<1>3. CASE WriterStep
    <2>1. DataInv'
        BY <1>3, WriterLooks, RetryWritesData, FailsData, TakeFromSpillData, WriteSucceedsData,
            ReleaseData, HoldData
        DEF WriterStep, RetryAttempt
    <2> QED
        BY <1>1, <2>1 DEF DirectInv
<1>4. CASE UNCHANGED vars
    <2>1. UNCHANGED <<queueVars, producerVars, writerVars>>
        BY <1>4 DEF vars
    <2>2. DataInv'
        BY <2>1, NothingMoves DEF producerVars, writerVars
    <2> QED
        BY <1>1, <2>2 DEF DirectInv
<1> QED
    BY <1>2, <1>3, <1>4 DEF Next

(* The two together: the base always, the data until the first mishap.     *)
PathInv == BaseInv /\ (Undamaged => DirectInv)

LEMMA InitPathInv == Init => PathInv
BY InitDirectInv DEF PathInv, DirectInv

LEMMA NextPathInv == PathInv /\ [Next]_vars => PathInv'
<1> SUFFICES ASSUME PathInv, [Next]_vars PROVE PathInv'
    OBVIOUS
<1>1. BaseInv'
    BY NextBase DEF PathInv
<1>2. ASSUME Undamaged' PROVE DirectInv'
    <2>1. DirectInv
        BY <1>2, UndamagedBefore DEF PathInv
    <2> QED
        BY <1>2, <2>1, NextDirectInv
<1> QED
    BY <1>1, <1>2 DEF PathInv

-----------------------------------------------------------------------------
(* What is outstanding, as one stretch of the stream.                      *)

(* The n numbers from a on, as a sequence.                                 *)
Stretch(a, n) == [j \in 1 .. n |-> a + j - 1]

LEMMA StretchSeq ==
    ASSUME NEW a \in Int, NEW n \in Nat
    PROVE  /\ Stretch(a, n) \in Seq(Int)
           /\ Len(Stretch(a, n)) = n
           /\ \A j \in 1 .. n : Stretch(a, n)[j] = a + j - 1
BY DEF Stretch

LEMMA StretchConcat ==
    ASSUME NEW a \in Int, NEW m \in Nat, NEW n \in Nat
    PROVE  Stretch(a, m) \o Stretch(a + m, n) = Stretch(a, m + n)
<1> DEFINE s == Stretch(a, m)
           t == Stretch(a + m, n)
           u == Stretch(a, m + n)
<1>1. s \in Seq(Int) /\ t \in Seq(Int) /\ u \in Seq(Int)
    BY StretchSeq
<1>2. Len(s) = m /\ Len(t) = n /\ Len(u) = m + n
    BY StretchSeq
<1> HIDE DEF s, t, u
<1>3. /\ s \o t \in Seq(Int)
      /\ Len(s \o t) = m + n
      /\ \A i \in 1 .. m + n : (s \o t)[i] = IF i <= m THEN s[i] ELSE t[i - m]
    BY <1>1, <1>2, ConcatProperties
<1>4. \A i \in 1 .. m + n : (s \o t)[i] = u[i]
    BY <1>3 DEF s, t, u, Stretch
<1> QED
    BY <1>1, <1>2, <1>3, <1>4, SeqEqual DEF s, t, u

LEMMA StretchSplit ==
    ASSUME NEW a \in Int, NEW n \in Nat, NEW k \in 0 .. n
    PROVE  /\ SubSeq(Stretch(a, n), 1, k) = Stretch(a, k)
           /\ SubSeq(Stretch(a, n), k + 1, n) = Stretch(a + k, n - k)
BY DEF Stretch

LEMMA AsStretch ==
    ASSUME NEW s \in Seq(Nat), NEW a \in Nat, \A j \in 1 .. Len(s) : s[j] = a + j - 1
    PROVE  s = Stretch(a, Len(s))
<1> DEFINE t == Stretch(a, Len(s))
<1>1. a \in Int /\ Len(s) \in Nat /\ s \in Seq(Int)
    OBVIOUS
<1>2. t \in Seq(Int) /\ Len(t) = Len(s) /\ \A j \in 1 .. Len(s) : t[j] = a + j - 1
    BY <1>1, StretchSeq
<1> HIDE DEF t
<1>3. s = t
    BY <1>1, <1>2, SeqEqual
<1> QED
    BY <1>3 DEF t

(* The block that is in neither a queue nor the file starts where the file *)
(* ends, and the rest of the ring starts where that block ends.            *)
LEMMA FrontNow ==
    ASSUME DirectInv
    PROVE  /\ InFlight \in Seq(Nat)
           /\ \A j \in 1 .. Len(InFlight) : InFlight[j] = Len(file) + j - 1
           /\ \E i, m \in Nat :
                 /\ i + m = rtail - Oldest
                 /\ First + i = Len(file) + Len(InFlight)
                 /\ RingUnwritten = RingFrom(Oldest + i, m)
<1>1. Typed
    BY DirectTyped
<1>2. CASE wpc = "hold"
    <2>1. /\ InFlight = ReleasedData /\ RingUnwritten = RingFrom(rhead, RingFill)
          /\ WrittenUnreleased = 0
        BY <1>2 DEF InFlight, RingUnwritten, WrittenUnreleased
    <2>2. /\ InFlight \in Seq(Nat) /\ Len(InFlight) = len
          /\ \A j \in 1 .. len : InFlight[j] = Len(file) + j - 1
        BY <1>2, <2>1, ReleasedChunks
    <2>3. First + ReleasedUncopied = Len(file) + len
        <3>1. /\ ReleasedUncopied = IF from_ring THEN len ELSE 0
              /\ (~from_ring => Len(block) = len) /\ (from_ring => Len(block) = 0)
            BY <1>2 DEF DirectInv, BaseInv, HandInv, InHand, ReleasedUncopied
        <3>2. /\ First = Len(file) + Len(block) - WrittenUnreleased
              /\ Len(file) \in Nat /\ len \in Nat
            BY <1>1 DEF Typed, BaseTyped
        <3>3. Len(block) + ReleasedUncopied = len
            BY <3>1, <3>2
        <3>4. Len(block) \in Nat /\ ReleasedUncopied \in Nat
            BY <1>1 DEF Typed, BaseTyped
        <3> QED
            BY <2>1, <3>2, <3>3, <3>4
    <2>4. /\ Oldest + ReleasedUncopied = rhead /\ ReleasedUncopied + RingFill = rtail - Oldest
          /\ ReleasedUncopied \in Nat /\ RingFill \in Nat
        BY <1>1 DEF Typed, BaseTyped
    <2> QED
        BY <2>1, <2>2, <2>3, <2>4
<1>3. CASE wpc # "hold" /\ wpc = "release" /\ from_ring /\ write_ok
    <2>1. ~have_pending /\ block = <<>> /\ len <= RingFill
        BY <1>3 DEF DirectInv, BaseInv, HandInv, InHand
    <2>2. /\ InFlight = <<>> /\ RingUnwritten = RingFrom(rhead + len, RingFill - len)
          /\ WrittenUnreleased = len /\ ReleasedUncopied = 0
        BY <1>3, <2>1 DEF InFlight, RingUnwritten, WrittenUnreleased, ReleasedUncopied
    <2>3. /\ Oldest + len = rhead + len /\ len + (RingFill - len) = rtail - Oldest
          /\ len \in Nat /\ RingFill - len \in Nat
        BY <1>1, <2>1, <2>2 DEF Typed, BaseTyped
    <2>4. Len(InFlight) = 0 /\ InFlight \in Seq(Nat)
        BY <2>2
    <2>5. First + len = Len(file) + Len(InFlight)
        <3>1. Len(block) = 0
            BY <2>1
        <3> QED
            BY <1>1, <2>2, <2>4, <3>1 DEF Typed, BaseTyped
    <2> QED
        BY <2>2, <2>3, <2>4, <2>5
<1>4. CASE wpc # "hold" /\ ~(wpc = "release" /\ from_ring /\ write_ok)
    <2>1. InFlight = block
        BY <1>4 DEF InFlight, DirectInv, BaseInv, HandInv
    <2>2. /\ RingUnwritten = RingFrom(rhead, RingFill)
          /\ WrittenUnreleased = 0 /\ ReleasedUncopied = 0
        BY <1>4 DEF RingUnwritten, WrittenUnreleased, ReleasedUncopied
    <2>3. /\ Oldest + 0 = rhead /\ 0 + RingFill = rtail - Oldest
          /\ 0 \in Nat /\ RingFill \in Nat /\ First + 0 = Len(file) + Len(block)
        BY <1>1, <2>2 DEF Typed, BaseTyped
    <2>4. block \in Seq(Nat) /\ \A j \in 1 .. Len(block) : block[j] = Len(file) + j - 1
        BY <1>1 DEF Typed, BaseTyped, DirectInv, DataInv
    <2> QED
        BY <2>1, <2>2, <2>3, <2>4
<1> QED
    BY <1>2, <1>3, <1>4

HoldsStretches ==
    /\ accepted - Len(file) \in Nat
    /\ Outstanding = Stretch(Len(file), accepted - Len(file))
    /\ file = Stretch(0, Len(file))

LEMMA OutstandingNow == DirectInv => HoldsStretches
<1> SUFFICES ASSUME DirectInv PROVE HoldsStretches
    OBVIOUS
<1>1. Typed
    BY DirectTyped
<1> DEFINE f == Len(file)
           a == Len(InFlight)
           n == Len(spill)
<1>2. /\ InFlight \in Seq(Nat) /\ a \in Nat
      /\ \A j \in 1 .. a : InFlight[j] = f + j - 1
    BY FrontNow
<1>3. PICK i \in Nat, m \in Nat :
        /\ i + m = rtail - Oldest
        /\ First + i = f + a
        /\ RingUnwritten = RingFrom(Oldest + i, m)
    BY FrontNow
<1>4. f \in Nat /\ n \in Nat /\ spill \in Seq(Nat) /\ file \in Seq(Nat) /\ First \in Int
      /\ rtail \in Int /\ Oldest \in Int
    BY <1>1 DEF Typed, BaseTyped
<1>5. InFlight = Stretch(f, a)
    BY <1>2, <1>4, AsStretch
<1>6. RingUnwritten = Stretch(f + a, m)
    <2>1. /\ RingUnwritten \in Seq(Nat) /\ Len(RingUnwritten) = m
          /\ \A j \in 1 .. m : RingUnwritten[j] = First + i + j - 1
        <3>1. i + m <= rtail - Oldest /\ First + i >= 0
            BY <1>2, <1>3, <1>4
        <3> QED
            BY <1>3, <3>1, RingChunks
    <2>2. f + a \in Nat
        BY <1>2, <1>4
    <2> HIDE DEF f, a
    <2>3. \A j \in 1 .. Len(RingUnwritten) : RingUnwritten[j] = (f + a) + j - 1
        BY <1>3, <2>1
    <2> QED
        BY <2>1, <2>2, <2>3, AsStretch
<1>7. spill = Stretch((f + a) + m, n) /\ accepted - f = (a + m) + n
    <2>1. /\ accepted = First + (rtail - Oldest) + n
          /\ \A j \in 1 .. n : spill[j] = First + (rtail - Oldest) + j - 1
        BY DEF DirectInv, DataInv
    <2> HIDE DEF f, a, n
    <2>2. First + (rtail - Oldest) = (f + a) + m /\ (f + a) + m \in Nat
        BY <1>2, <1>3, <1>4
    <2>3. accepted - f = (a + m) + n
        BY <1>2, <1>3, <1>4, <2>1, <2>2
    <2>4. spill = Stretch((f + a) + m, n)
        BY <1>4, <2>1, <2>2, AsStretch DEF n
    <2> QED
        BY <2>3, <2>4
<1>8. Outstanding = (Stretch(f, a) \o Stretch(f + a, m)) \o Stretch((f + a) + m, n)
    BY <1>5, <1>6, <1>7 DEF Outstanding
<1> HIDE DEF f, a, n
<1>9. Stretch(f, a) \o Stretch(f + a, m) = Stretch(f, a + m)
    <2>1. f \in Int /\ a \in Nat /\ m \in Nat
        BY <1>2, <1>4
    <2> QED
        BY <2>1, StretchConcat
<1>10. Stretch(f, a + m) \o Stretch((f + a) + m, n) = Stretch(f, (a + m) + n)
    <2>1. (f + a) + m = f + (a + m) /\ a + m \in Nat /\ f \in Int
        BY <1>2, <1>3, <1>4
    <2>2. Stretch(f, a + m) \o Stretch(f + (a + m), n) = Stretch(f, (a + m) + n)
        BY <1>4, <2>1, StretchConcat
    <2> QED
        BY <2>1, <2>2
<1>11. file = Stretch(0, f)
    <2>1. \A j \in 1 .. Len(file) : file[j] = 0 + j - 1
        BY DEF DirectInv, DataInv
    <2> QED
        BY <1>4, <2>1, AsStretch DEF f
<1>12. (a + m) + n \in Nat
    BY <1>2, <1>3, <1>4
<1> QED
    BY <1>7, <1>8, <1>9, <1>10, <1>11, <1>12 DEF HoldsStretches, f

LEMMA OutstandingNext == DirectInv' => HoldsStretches'
<1>1. DirectInv => HoldsStretches
    BY OutstandingNow
<1> QED
    BY <1>1, PTL

-----------------------------------------------------------------------------
(* The values of every variable of gui_record_direct.c stay in their types, *)
(* in every schedule: the ring is never overfilled, no counter runs ahead   *)
(* of what it counts.                                                       *)
THEOREM DirectTypeCorrect == Spec => []TypeOK
<1>1. PathInv => TypeOK
    BY DEF PathInv, BaseInv
<1> QED
    BY <1>1, InitPathInv, NextPathInv, PTL DEF Spec

(* The ordering contract of gui_record_direct.h:12-18, for any ring and    *)
(* block size and in every schedule: until a mishap of four named kinds    *)
(* happens, what gui_record_direct_push_inner accepted is the file, the    *)
(* block in hand, the ring and the spill file, in this order, each chunk   *)
(* once, through every failed write and every switch between the queues.   *)
THEOREM AcceptedStaysInOrder == Spec => []InOrder
<1>1. ASSUME DirectInv PROVE Straight
    <2> DEFINE f == Len(file)
               n == accepted - f
               z == 0
    <2>1. n \in Nat /\ Outstanding = Stretch(f, n) /\ file = Stretch(z, f)
        BY <1>1, OutstandingNow DEF HoldsStretches
    <2>2. f \in Nat /\ accepted \in Nat /\ z \in Int /\ z + f = f /\ f + n = accepted
        BY <1>1, DirectTyped DEF Typed, BaseTyped
    <2> HIDE DEF f, n, z
    <2>3. Stretch(z, f) \o Stretch(z + f, n) = Stretch(z, f + n)
        BY <2>1, <2>2, StretchConcat
    <2>4. file \o Outstanding = Stretch(z, accepted)
        BY <2>1, <2>2, <2>3
    <2>5. Stretch(z, accepted) = [i \in 1 .. accepted |-> i - 1]
        BY <2>2 DEF Stretch, z
    <2> QED
        BY <2>4, <2>5 DEF Straight
<1>2. PathInv => InOrder
    BY <1>1 DEF PathInv, InOrder
<1> QED
    BY <1>2, InitPathInv, NextPathInv, PTL DEF Spec

(* The tail drain, in every schedule: gui_record_direct_writer_thread      *)
(* leaves the loop by its ordinary exit only after the stop, with nothing  *)
(* left in the ring or in hand, and with the spill file read to its end    *)
(* unless a read of it failed at the stop.                                 *)
THEOREM ExitLeavesNothing == Spec => []DrainedAtExit
<1>1. ASSUME BaseInv, wpc = "exit"
      PROVE  /\ tap = "stopped" /\ InFlight = <<>> /\ RingUnwritten = <<>>
             /\ spill = <<>> \/ "unread" \in mishaps
    <2>1. /\ RingFill = 0 /\ tap = "stopped" /\ block = <<>>
          /\ spill = <<>> \/ "unread" \in mishaps
        BY <1>1 DEF BaseInv, StopInv, HandInv, InHand
    <2>2. InFlight = <<>>
        BY <1>1, <2>1 DEF InFlight
    <2>3. RingUnwritten = <<>>
        BY <1>1, <2>1 DEF RingUnwritten, RingFrom
    <2> QED
        BY <2>1, <2>2, <2>3
<1>2. PathInv => DrainedAtExit
    BY <1>1 DEF PathInv, DrainedAtExit
<1> QED
    BY <1>2, InitPathInv, NextPathInv, PTL DEF Spec

-----------------------------------------------------------------------------
(* The direct path implements ByteFifo.                                    *)

(* An accepted chunk is a put, whether the ring or the spill file took it. *)
LEMMA AcceptIsPut ==
    ASSUME DirectInv, DirectInv', accepted' = accepted + 1, file' = file
    PROVE  Fifo!Next
<1> DEFINE f == Len(file)
           n == accepted - f
<1>1. Typed /\ HoldsStretches /\ HoldsStretches'
    BY DirectTyped, OutstandingNow, OutstandingNext
<1>2. f \in Nat /\ f \in Int /\ n \in Nat /\ MaxPushes \in Nat /\ MaxBlock \in Nat \ {0}
    BY <1>1 DEF Typed, BaseTyped, HoldsStretches
<1>3. n + 1 <= MaxPushes
    <2>1. accepted' \in 0 .. pushes' /\ pushes' \in 0 .. MaxPushes
        BY DEF DirectInv, BaseInv, TypeOK
    <2>2. accepted + 1 <= MaxPushes
        BY <1>2, <2>1
    <2>3. accepted \in Nat
        BY <1>1 DEF Typed, BaseTyped
    <2> QED
        BY <1>2, <2>2, <2>3
<1>4. /\ Outstanding = Stretch(f, n)
      /\ Outstanding' = Stretch(f, n + 1)
    <2>1. Outstanding' = Stretch(Len(file'), accepted' - Len(file'))
        BY <1>1 DEF HoldsStretches, Stretch
    <2>2. accepted' - Len(file') = n + 1 /\ Len(file') = f
        BY <1>1, <1>2 DEF Typed, BaseTyped
    <2> QED
        BY <1>1, <2>1, <2>2 DEF HoldsStretches
<1> HIDE DEF n
<1>5. Len(Outstanding) = n
    BY <1>2, <1>4, StretchSeq
<1>6. Fifo!NextBytes(1) = Stretch(f + n, 1)
    BY <1>5 DEF Fifo!NextBytes, Stretch
<1>7. Outstanding' = Outstanding \o Fifo!NextBytes(1)
    <2>1. Stretch(f, n) \o Stretch(f + n, 1) = Stretch(f, n + 1)
        BY <1>2, StretchConcat
    <2> QED
        BY <1>4, <1>6, <2>1
<1>8. Len(Fifo!NextBytes(1)) = 1
    BY DEF Fifo!NextBytes
<1>9. Fifo!Put(Fifo!NextBytes(1))
    BY <1>3, <1>5, <1>7, <1>8 DEF Fifo!Put
<1>10. 1 \in 1 .. MaxBlock
    BY <1>2
<1> QED
    BY <1>9, <1>10 DEF Fifo!Next

(* A block that reaches the file is a get, held before or not.             *)
LEMMA WriteIsGet ==
    ASSUME DirectInv, DirectInv', accepted' = accepted,
           NEW k \in 1 .. MaxBlock, Len(file') = Len(file) + k
    PROVE  Fifo!Next
<1> DEFINE f == Len(file)
           n == accepted - f
           z == 0
<1>1. Typed /\ HoldsStretches /\ HoldsStretches'
    BY DirectTyped, OutstandingNow, OutstandingNext
<1>2. f \in Nat /\ f \in Int /\ n \in Nat /\ z \in Int /\ z + f = f /\ k \in Nat
    BY <1>1, DirectAssumption DEF Typed, BaseTyped, HoldsStretches
<1>3. accepted' - Len(file') = n - k /\ n - k \in Nat
    <2>1. accepted' - Len(file') \in Nat
        BY <1>1 DEF HoldsStretches
    <2>2. accepted \in Nat
        BY <1>1 DEF Typed, BaseTyped
    <2> QED
        BY <1>2, <2>1, <2>2
<1>4. /\ Outstanding = Stretch(f, n) /\ Outstanding' = Stretch(f + k, n - k)
      /\ file = Stretch(z, f) /\ file' = Stretch(z, f + k)
    <2>1. /\ Outstanding' = Stretch(Len(file'), accepted' - Len(file'))
          /\ file' = Stretch(0, Len(file'))
        BY <1>1 DEF HoldsStretches, Stretch
    <2> QED
        BY <1>1, <1>3, <2>1 DEF HoldsStretches
<1> HIDE DEF f, n, z
<1>5. Len(Outstanding) = n /\ k \in 0 .. n
    BY <1>2, <1>3, <1>4, StretchSeq
<1>6. /\ SubSeq(Outstanding, 1, k) = Stretch(f, k)
      /\ SubSeq(Outstanding, k + 1, n) = Stretch(f + k, n - k)
    BY <1>2, <1>4, <1>5, StretchSplit
<1>7. file' = file \o SubSeq(Outstanding, 1, k)
    <2>1. Stretch(z, f) \o Stretch(z + f, k) = Stretch(z, f + k)
        BY <1>2, StretchConcat
    <2> QED
        BY <1>2, <1>4, <1>6, <2>1
<1>8. Outstanding' = SubSeq(Outstanding, k + 1, Len(Outstanding))
    BY <1>4, <1>5, <1>6
<1>9. k <= Len(Outstanding)
    BY <1>2, <1>5
<1>10. Fifo!Get(k)
    BY <1>7, <1>8, <1>9 DEF Fifo!Get
<1> QED
    BY <1>10 DEF Fifo!Next

LEMMA OthersStutter ==
    ASSUME DirectInv, DirectInv', accepted' = accepted, file' = file
    PROVE  UNCHANGED Fifo!vars
<1>1. HoldsStretches /\ Outstanding' = Stretch(Len(file'), accepted' - Len(file'))
    BY OutstandingNow, OutstandingNext DEF HoldsStretches, Stretch
<1>2. Outstanding' = Outstanding
    BY <1>1 DEF HoldsStretches
<1> QED
    BY <1>2 DEF Fifo!vars

LEMMA StepsRefine ==
    ASSUME DirectInv, DirectInv', [Next]_vars, Undamaged'
    PROVE  Fifo!Next \/ UNCHANGED Fifo!vars
<1>1. CASE PushRing \/ PushSpill
    <2>1. accepted' = accepted + 1 /\ file' = file
        BY <1>1 DEF PushRing, PushSpill, writerVars
    <2> QED
        BY <2>1, AcceptIsPut
<1>2. CASE RetryWrites
    <2>1. Len(block) \in 1 .. MaxBlock
        BY <1>2 DEF RetryWrites, DirectInv, BaseInv, HandInv
    <2>2. accepted' = accepted
        BY <1>2 DEF RetryWrites, producerVars
    <2> QED
        BY <1>2, <2>1, <2>2, RetryWritesData, WriteIsGet
<1>3. CASE WriteSucceeds
    <2>1. len \in 1 .. MaxBlock
        BY <1>3 DEF WriteSucceeds, DirectInv, BaseInv, HandInv, InHand
    <2>2. accepted' = accepted
        BY <1>3 DEF WriteSucceeds, producerVars
    <2> QED
        BY <1>3, <2>1, <2>2, WriteSucceedsData, WriteIsGet
<1>4. CASE RetryFails \/ WriteFails
    <2>1. accepted' = accepted /\ file' = file
        BY <1>4, FailsData DEF RetryFails, WriteFails, producerVars
    <2> QED
        BY <2>1, OthersStutter
<1>5. CASE PushUnpublished
    BY <1>5 DEF PushUnpublished, Undamaged
<1>6. CASE \/ PushBegin \/ PushCopies \/ PushRefused \/ PushDropped
           \/ StopDisables \/ StopClearsRecording
           \/ WriterTop \/ RetryNotDue \/ TakeFromRing \/ TakeFromSpill \/ SpillReadFails
           \/ NothingToTake \/ Release \/ Hold
    <2>1. accepted' = accepted /\ file' = file
        BY <1>6 DEF PushBegin, PushCopies, PushRefused, PushDropped, StopDisables,
            StopClearsRecording, WriterTop, RetryNotDue, TakeFromRing, TakeFromSpill,
            SpillReadFails, NothingToTake, Release, Hold, producerVars, writerVars
    <2> QED
        BY <2>1, OthersStutter
<1>7. CASE UNCHANGED vars
    BY <1>7, OthersStutter DEF vars, producerVars, writerVars
<1> QED
    BY <1>1, <1>2, <1>3, <1>4, <1>5, <1>6, <1>7 DEF Next, PushStep, WriterStep, RetryAttempt

LEMMA InitRefines == ASSUME Init PROVE Fifo!Init
<1>1. InFlight = <<>> /\ RingUnwritten = <<>> /\ spill = <<>> /\ file = <<>>
    BY DEF Init, InFlight, RingUnwritten, RingFrom, RingFill
<1> QED
    BY <1>1 DEF Fifo!Init, Outstanding

(* The ring, the spill file and the held block together are one lossless   *)
(* queue from gui_record_direct_push to the output file, whatever their    *)
(* sizes, in every schedule and however often the file or a spill read     *)
(* fails, until one of the four mishaps that damage it.                    *)
THEOREM DirectIsFifo == Spec => ImplementsFifo
<1>1. Init => PathInv /\ Fifo!Init
    BY InitPathInv, InitRefines
<1>2. PathInv /\ [Next]_vars => PathInv'
    BY NextPathInv
<1>3. PathInv /\ PathInv' /\ [Next]_vars
          => [~Undamaged' \/ Fifo!Next \/ UNCHANGED Fifo!vars]_vars
    BY UndamagedBefore, StepsRefine DEF PathInv
<1> QED
    BY <1>1, <1>2, <1>3, PTL DEF Spec, ImplementsFifo

-----------------------------------------------------------------------------
(* The handshake by which a recording starts and stops: RecordTaps.        *)

(* The places of the capture thread at which it holds a latched decision   *)
(* it has still to act on.                                                 *)
Latched ==
    [A |-> {<<"enter", "B">>, <<"latch", "B">>, <<"push", "A">>, <<"push", "B">>},
     B |-> {<<"push", "A">>, <<"push", "B">>}]

Inflight(c) == IF gate[c] /\ cap \in CountedIn[c] THEN 1 ELSE 0

(* The places two threads can be at: stages without a channel use "A".     *)
Places ==
    /\ cap[1] = "idle" => cap[2] = "A"
    /\ ctl[1] \in {"idle", "mark", "recording", "unmark", "drain"} => ctl[2] = "A"

(* The counter of a channel is the count of the iteration under way, or    *)
(* one less when a reset has hit it.                                       *)
CountInv ==
    /\ TapsTypeOK
    /\ Places
    /\ \A c \in Channels : tap_inflight[c] - Inflight(c) \in {-1, 0}

LEMMA InitCountInv == TapsInit => CountInv
<1> SUFFICES ASSUME TapsInit PROVE CountInv
    OBVIOUS
<1>1. TapsTypeOK
    <2>1. /\ ctl \in ControlStages \X Channels
          /\ cap \in CaptureStages \X Channels
          /\ tap_inflight \in [Channels -> -1 .. 1]
          /\ pushed \in [Channels -> Nat]
          /\ iterations \in Nat /\ sessions \in Nat
        BY DEF TapsInit, Channels, ControlStages, CaptureStages
    <2>2. /\ tap_enabled \in [Channels -> BOOLEAN]
          /\ active \in [Channels -> BOOLEAN]
          /\ is_recording \in BOOLEAN
          /\ straddled \in BOOLEAN
          /\ gate \in [Channels -> BOOLEAN]
          /\ on \in [Channels -> BOOLEAN]
        BY DEF TapsInit
    <2> QED
        BY <2>1, <2>2 DEF TapsTypeOK
<1>2. Places
    BY DEF TapsInit, Places
<1>3. \A c \in Channels : tap_inflight[c] - Inflight(c) \in {-1, 0}
    BY DEF TapsInit, Inflight, Channels
<1> QED
    BY <1>1, <1>2, <1>3 DEF CountInv

(* Where the record layer goes next.                                       *)
LEMMA ControlPlaces ==
    ASSUME CountInv, RecordLayer \/ StartRecording \/ RequestStop
    PROVE  /\ ctl' \in ControlStages \X Channels
           /\ Places'
           /\ cap' = cap /\ gate' = gate
<1> USE DEF Places, After, captureVars, tapVars, ControlStages, Channels
<1>1. CASE StartRecording \/ RequestStop
    BY <1>1 DEF StartRecording, RequestStop, CountInv
<1>2. CASE MarkRecording \/ ClearRecording \/ WritersJoined
    BY <1>2 DEF MarkRecording, ClearRecording, WritersJoined, CountInv
<1>3. ASSUME NEW c \in Channels, RecordStep(c)
      PROVE  ctl' \in ControlStages \X Channels
    BY <1>3 DEF RecordStep, ClearContext, ResetInflight, Activate, Deactivate,
        WaitIdle, EnableTap, DisableTap, DisarmTap
<1>4. ASSUME NEW c \in Channels, RecordStep(c)
      PROVE  cap' = cap /\ gate' = gate
    BY <1>4 DEF RecordStep, ClearContext, ResetInflight, Activate, Deactivate,
        WaitIdle, EnableTap, DisableTap, DisarmTap
<1>5. ASSUME NEW c \in Channels, RecordStep(c)
      PROVE  ctl'[1] \in {"idle", "mark", "recording", "unmark", "drain"}
                => ctl'[2] = "A"
    BY <1>5 DEF RecordStep, ClearContext, ResetInflight, Activate, Deactivate,
        WaitIdle, EnableTap, DisableTap, DisarmTap
<1> QED
    BY <1>1, <1>2, <1>3, <1>4, <1>5 DEF RecordLayer, CountInv

LEMMA ControlCountInv ==
    ASSUME CountInv, RecordLayer \/ StartRecording \/ RequestStop
    PROVE  CountInv'
<1>1. /\ ctl' \in ControlStages \X Channels
      /\ Places'
      /\ cap' = cap /\ gate' = gate
    BY ControlPlaces
<1>2. ASSUME NEW c \in Channels PROVE Inflight(c)' = Inflight(c) /\ Inflight(c) \in {0, 1}
    BY <1>1 DEF Inflight
<1>3. /\ tap_enabled' \in [Channels -> BOOLEAN]
      /\ active' \in [Channels -> BOOLEAN]
      /\ is_recording' \in BOOLEAN
      /\ sessions' \in Nat
      /\ straddled' \in BOOLEAN
      /\ UNCHANGED captureVars
    <2>1. \/ tap_enabled' = tap_enabled
          \/ \E d \in Channels, v \in BOOLEAN : tap_enabled' = [tap_enabled EXCEPT ![d] = v]
        BY DEF RecordLayer, RecordStep, StartRecording, RequestStop, MarkRecording,
        ClearRecording, WritersJoined, ClearContext, ResetInflight, Activate,
        Deactivate, WaitIdle, EnableTap, DisableTap, DisarmTap, tapVars
    <2>2. \/ active' = active
          \/ \E d \in Channels, v \in BOOLEAN : active' = [active EXCEPT ![d] = v]
        BY DEF RecordLayer, RecordStep, StartRecording, RequestStop, MarkRecording,
        ClearRecording, WritersJoined, ClearContext, ResetInflight, Activate,
        Deactivate, WaitIdle, EnableTap, DisableTap, DisarmTap
    <2>3. is_recording' = is_recording \/ is_recording' \in BOOLEAN
        BY DEF RecordLayer, RecordStep, StartRecording, RequestStop, MarkRecording,
        ClearRecording, WritersJoined, ClearContext, ResetInflight, Activate,
        Deactivate, WaitIdle, EnableTap, DisableTap, DisarmTap
    <2>4. (sessions' = sessions \/ sessions' = sessions + 1) /\ UNCHANGED captureVars
        BY DEF RecordLayer, RecordStep, StartRecording, RequestStop, MarkRecording,
        ClearRecording, WritersJoined, ClearContext, ResetInflight, Activate,
        Deactivate, WaitIdle, EnableTap, DisableTap, DisarmTap
    <2>5. straddled' = straddled \/ straddled' \in BOOLEAN
        BY DEF RecordLayer, RecordStep, StartRecording, RequestStop, MarkRecording,
        ClearRecording, WritersJoined, ClearContext, ResetInflight, Activate,
        Deactivate, WaitIdle, EnableTap, DisableTap, DisarmTap
    <2> QED
        BY <2>1, <2>2, <2>3, <2>4, <2>5 DEF CountInv, TapsTypeOK
<1>4. \/ tap_inflight' = tap_inflight
      \/ \E d \in Channels : tap_inflight' = [tap_inflight EXCEPT ![d] = 0]
    BY DEF RecordLayer, RecordStep, StartRecording, RequestStop, MarkRecording,
        ClearRecording, WritersJoined, ClearContext, ResetInflight, Activate,
        Deactivate, WaitIdle, EnableTap, DisableTap, DisarmTap, tapVars
<1>5. /\ tap_inflight' \in [Channels -> -1 .. 1]
      /\ \A c \in Channels : tap_inflight'[c] - Inflight(c) \in {-1, 0}
    BY <1>2, <1>4 DEF CountInv, TapsTypeOK
<1>6. TapsTypeOK'
    BY <1>1, <1>3, <1>5 DEF CountInv, TapsTypeOK, captureVars
<1> QED
    BY <1>1, <1>2, <1>5, <1>6 DEF CountInv

LEMMA CaptureCountInv ==
    ASSUME CountInv, BeginIteration \/ Iteration PROVE CountInv'
<1> USE DEF CountInv, TapsTypeOK, Places, Channels, CaptureStages, Inflight,
        After, CountedIn, controlVars, tapVars
<1>1. CASE BeginIteration
    BY <1>1 DEF BeginIteration
<1>2. ASSUME NEW c \in Channels, LoadFlag(c) PROVE CountInv'
    BY <1>2 DEF LoadFlag
<1>3. ASSUME NEW c \in Channels, EnterTap(c) PROVE CountInv'
    BY <1>3 DEF EnterTap
<1>4. ASSUME NEW c \in Channels, LatchTap(c) PROVE CountInv'
    BY <1>4 DEF LatchTap
<1>5. ASSUME NEW c \in Channels, PushLatched(c) PROVE CountInv'
    BY <1>5 DEF PushLatched
<1>6. ASSUME NEW c \in Channels, LeaveTap(c) PROVE CountInv'
    BY <1>6 DEF LeaveTap
<1> QED
    BY <1>1, <1>2, <1>3, <1>4, <1>5, <1>6 DEF Iteration, IterationStep

LEMMA NextCountInv == CountInv /\ [TapsNext]_tapsVars => CountInv'
<1>1. CountInv /\ UNCHANGED tapsVars => CountInv'
    BY DEF tapsVars, tapVars, controlVars, captureVars, CountInv, TapsTypeOK, Places,
        Inflight
<1> QED
    BY <1>1, ControlCountInv, CaptureCountInv DEF TapsNext

(* The counters stay in -1 .. 1 and every place is one of the stages,      *)
(* whether or not an iteration straddles an enable.                        *)
THEOREM TapsTypeCorrect == TapsSpec => []TapsTypeOK
<1>1. CountInv => TapsTypeOK
    BY DEF CountInv
<1> QED
    BY <1>1, InitCountInv, NextCountInv, PTL DEF TapsSpec

-----------------------------------------------------------------------------
(* What follows holds until an iteration straddles the enabling of a tap.  *)

(* That is not taken back.                                                 *)
LEMMA StraddledStays == ASSUME [TapsNext]_tapsVars, ~straddled' PROVE ~straddled
BY DEF TapsNext, RecordLayer, RecordStep, StartRecording, RequestStop, MarkRecording,
    ClearRecording, WritersJoined, ClearContext, ResetInflight, Activate, Deactivate,
    WaitIdle, EnableTap, DisableTap, DisarmTap, BeginIteration, Iteration, IterationStep,
    LoadFlag, EnterTap, LatchTap, PushLatched, LeaveTap, tapsVars

(* From the reset of channel A to the join of the writers.                 *)
Session == {<<"enable", "A">>, <<"reset", "B">>, <<"enable", "B">>,
            <<"recording", "A">>, <<"disable", "A">>, <<"disable", "B">>,
            <<"wait", "A">>, <<"wait", "B">>, <<"unmark", "A">>,
            <<"drain", "A">>}

(* The places of the record layer at which a channel is active, its tap is *)
(* enabled, its counter is exact, and an iteration may still act on a      *)
(* decision to record it took while the tap was enabled.                   *)
ActiveAt ==
    [A |-> Session \cup {<<"activate", "B">>, <<"mark", "A">>, <<"reset", "A">>,
                         <<"deactivate", "A">>},
     B |-> Session \cup {<<"mark", "A">>, <<"reset", "A">>,
                         <<"deactivate", "A">>, <<"deactivate", "B">>}]

EnabledAt ==
    [A |-> {<<"reset", "B">>, <<"enable", "B">>, <<"recording", "A">>,
            <<"disable", "A">>},
     B |-> {<<"recording", "A">>, <<"disable", "A">>, <<"disable", "B">>}]

ExactAt ==
    [A |-> Session,
     B |-> Session \ {<<"enable", "A">>, <<"reset", "B">>}]

DecidedAt ==
    [A |-> {<<"reset", "B">>, <<"enable", "B">>, <<"recording", "A">>,
            <<"disable", "A">>, <<"disable", "B">>, <<"wait", "A">>},
     B |-> {<<"recording", "A">>, <<"disable", "A">>, <<"disable", "B">>,
            <<"wait", "A">>, <<"wait", "B">>}]

Flags(c) ==
    /\ active[c] <=> ctl \in ActiveAt[c]
    /\ tap_enabled[c] <=> ctl \in EnabledAt[c]

Exact(c) == ctl \in ExactAt[c] => tap_inflight[c] = Inflight(c)

(* An iteration under way in a session that has found one flag clear found *)
(* both so, before the session.                                            *)
Gated(c) ==
    ctl \in Session /\ cap \in Loaded[c] /\ ~gate[c]
        => \A d \in Channels : cap \in Loaded[d] /\ ~gate[d]

(* A decision to record holds the stopper at the wait for this channel.    *)
Decided(c) == cap \in Latched[c] /\ gate[c] /\ on[c] => ctl \in DecidedAt[c]

ArmInv ==
    /\ CountInv
    /\ \A c \in Channels : Flags(c) /\ Exact(c) /\ Gated(c) /\ Decided(c)

LEMMA InitArmInv == TapsInit => ArmInv
<1> SUFFICES ASSUME TapsInit PROVE ArmInv
    OBVIOUS
<1>1. CountInv
    BY InitCountInv
<1>2. ASSUME NEW c \in Channels PROVE Flags(c) /\ Exact(c) /\ Gated(c) /\ Decided(c)
    BY DEF TapsInit, Flags, Exact, Gated, Decided, Channels, ActiveAt, EnabledAt,
        ExactAt, DecidedAt, Session, Loaded, Latched
<1> QED
    BY <1>1, <1>2 DEF ArmInv

LEMMA ControlArmInv ==
    ASSUME ArmInv, RecordLayer \/ StartRecording \/ RequestStop, ~straddled'
    PROVE  ArmInv'
<1>1. CountInv /\ CountInv'
    BY NextCountInv DEF ArmInv, TapsNext
<1>2. cap' = cap /\ gate' = gate /\ on' = on
    BY <1>1, ControlPlaces DEF RecordLayer, RecordStep, StartRecording,
        RequestStop, MarkRecording, ClearRecording, WritersJoined,
        ClearContext, ResetInflight, Activate, Deactivate, WaitIdle, EnableTap,
        DisableTap, DisarmTap, captureVars
<1>3. ASSUME NEW c \in Channels PROVE Flags(c)'
    <2> USE <1>1 DEF ArmInv, Flags, ActiveAt, EnabledAt, Session, Channels, After,
            CountInv, TapsTypeOK, tapVars
    <2>1. CASE \/ StartRecording \/ RequestStop
               \/ MarkRecording \/ ClearRecording \/ WritersJoined
        BY <2>1 DEF StartRecording, RequestStop, MarkRecording, ClearRecording,
            WritersJoined
    <2>2. ASSUME NEW d \in Channels, ClearContext(d) \/ ResetInflight(d) \/ WaitIdle(d)
          PROVE  Flags(c)'
        BY <2>2 DEF ClearContext, ResetInflight, WaitIdle
    <2>3. ASSUME NEW d \in Channels, Activate(d) \/ Deactivate(d)
          PROVE  Flags(c)'
        BY <2>3 DEF Activate, Deactivate
    <2>4. ASSUME NEW d \in Channels, EnableTap(d) \/ DisableTap(d) \/ DisarmTap(d)
          PROVE  Flags(c)'
        BY <2>4 DEF EnableTap, DisableTap, DisarmTap
    <2> QED
        BY <2>1, <2>2, <2>3, <2>4 DEF RecordLayer, RecordStep
<1>4. ASSUME NEW c \in Channels PROVE Exact(c)'
    <2> USE <1>1, <1>2 DEF ArmInv, Exact, ExactAt, Session, Channels, After,
            CountInv, TapsTypeOK, tapVars, Inflight
    <2>1. CASE \/ StartRecording \/ RequestStop
               \/ MarkRecording \/ ClearRecording \/ WritersJoined
        BY <2>1 DEF StartRecording, RequestStop, MarkRecording, ClearRecording,
            WritersJoined
    <2>2. ASSUME NEW d \in Channels, ClearContext(d) \/ WaitIdle(d)
          PROVE  Exact(c)'
        BY <2>2 DEF ClearContext, WaitIdle
    <2>3. ASSUME NEW d \in Channels, ResetInflight(d)
          PROVE  Exact(c)'
        BY <2>3 DEF ResetInflight, InflightAt
    <2>4. ASSUME NEW d \in Channels, Activate(d) \/ Deactivate(d)
          PROVE  Exact(c)'
        BY <2>4 DEF Activate, Deactivate
    <2>5. ASSUME NEW d \in Channels, EnableTap(d) \/ DisableTap(d) \/ DisarmTap(d)
          PROVE  Exact(c)'
        BY <2>5 DEF EnableTap, DisableTap, DisarmTap
    <2> QED
        BY <2>1, <2>2, <2>3, <2>4, <2>5 DEF RecordLayer, RecordStep
<1>5. ASSUME NEW c \in Channels PROVE Gated(c)'
    <2>0. ASSUME NEW d \in Channels, ResetInflight(d) PROVE ~OneSided
        BY <2>0 DEF ResetInflight
    <2>2. ASSUME ctl' \in Session, ctl \notin Session PROVE \E d \in Channels : ResetInflight(d)
        BY <2>2 DEF RecordLayer, RecordStep, StartRecording, RequestStop,
            MarkRecording, ClearRecording, WritersJoined, ClearContext,
            Activate, Deactivate, WaitIdle, EnableTap,
            DisableTap, DisarmTap, Session, After, Channels
    <2>1. ctl' \in Session => ctl \in Session \/ ~OneSided
        BY <2>0, <2>2
    <2> QED
        BY <1>2, <2>1 DEF ArmInv, Gated, OneSided
<1>6. ASSUME NEW c \in Channels, cap \in Latched[c], gate[c], on[c]
      PROVE  ctl' \in DecidedAt[c]
    <2>1. ctl \in DecidedAt[c]
        BY <1>6 DEF ArmInv, Decided
    <2>2. cap # <<"idle", "A">>
        BY <1>6 DEF Latched, Channels
    <2>3. ctl \in ExactAt[c]
        BY <2>1 DEF DecidedAt, ExactAt, Session, Channels
    <2>4. tap_inflight[c] = 1
        BY <1>6, <2>3 DEF ArmInv, Exact, Inflight, Latched, CountedIn, Channels
    <2> QED
        BY <2>1, <2>2, <2>4 DEF RecordLayer, RecordStep, StartRecording,
            RequestStop, MarkRecording, ClearRecording, WritersJoined,
            ClearContext, ResetInflight, Activate, Deactivate, WaitIdle,
            EnableTap, DisableTap, DisarmTap, DecidedAt, After, Channels
<1>7. ASSUME NEW c \in Channels PROVE Decided(c)'
    BY <1>2, <1>6 DEF Decided
<1> QED
    BY <1>1, <1>3, <1>4, <1>5, <1>7 DEF ArmInv

LEMMA CaptureArmInv ==
    ASSUME ArmInv, BeginIteration \/ Iteration PROVE ArmInv'
<1>1. CountInv /\ CountInv'
    BY NextCountInv DEF ArmInv, TapsNext
<1>2. ctl' = ctl /\ active' = active /\ tap_enabled' = tap_enabled
    BY DEF BeginIteration, Iteration, IterationStep, LoadFlag, EnterTap,
        LatchTap, PushLatched, LeaveTap, controlVars, tapVars
<1>3. ASSUME NEW c \in Channels PROVE Flags(c)'
    BY <1>2 DEF ArmInv, Flags
<1>4. ASSUME NEW c \in Channels PROVE Exact(c)'
    <2> USE <1>1, <1>2 DEF ArmInv, Exact, Channels, After, CountInv, TapsTypeOK,
            tapVars, Inflight, CountedIn
    <2>1. CASE BeginIteration
        BY <2>1 DEF BeginIteration
    <2>2. ASSUME NEW d \in Channels, LoadFlag(d) PROVE Exact(c)'
        BY <2>2 DEF LoadFlag
    <2>3. ASSUME NEW d \in Channels, EnterTap(d) \/ LeaveTap(d) PROVE Exact(c)'
        BY <2>3 DEF EnterTap, LeaveTap
    <2>4. ASSUME NEW d \in Channels, LatchTap(d) \/ PushLatched(d) PROVE Exact(c)'
        BY <2>4 DEF LatchTap, PushLatched
    <2> QED
        BY <2>1, <2>2, <2>3, <2>4 DEF Iteration, IterationStep
<1>5. ASSUME NEW c \in Channels PROVE Gated(c)'
    <2> USE <1>1, <1>2 DEF ArmInv, Gated, Channels, After, Loaded, CountInv, TapsTypeOK
    <2>1. CASE BeginIteration
        BY <2>1 DEF BeginIteration
    <2>2. ASSUME NEW d \in Channels, LoadFlag(d) PROVE Gated(c)'
        BY <2>2 DEF LoadFlag, Flags, ActiveAt
    <2>3. ASSUME NEW d \in Channels,
                 EnterTap(d) \/ LeaveTap(d) \/ LatchTap(d) \/ PushLatched(d)
          PROVE Gated(c)'
        BY <2>3 DEF EnterTap, LeaveTap, LatchTap, PushLatched
    <2> QED
        BY <2>1, <2>2, <2>3 DEF Iteration, IterationStep
<1>6. ASSUME NEW c \in Channels PROVE Decided(c)'
    <2> USE <1>1, <1>2 DEF ArmInv, Decided, Channels, After, Latched, CountInv, TapsTypeOK
    <2>1. CASE BeginIteration
        BY <2>1 DEF BeginIteration
    <2>2. ASSUME NEW d \in Channels, LatchTap(d) PROVE Decided(c)'
        BY <2>2 DEF LatchTap, Flags, EnabledAt, DecidedAt
    <2>3. ASSUME NEW d \in Channels,
                 LoadFlag(d) \/ EnterTap(d) \/ LeaveTap(d) \/ PushLatched(d)
          PROVE Decided(c)'
        BY <2>3 DEF LoadFlag, EnterTap, LeaveTap, PushLatched
    <2> QED
        BY <2>1, <2>2, <2>3 DEF Iteration, IterationStep
<1> QED
    BY <1>1, <1>3, <1>4, <1>5, <1>6 DEF ArmInv

LEMMA NextArmInv == ArmInv /\ [TapsNext]_tapsVars /\ ~straddled' => ArmInv'
<1> SUFFICES ASSUME ArmInv, [TapsNext]_tapsVars, ~straddled' PROVE ArmInv'
    OBVIOUS
<1>1. CASE UNCHANGED tapsVars
    <2>1. CountInv'
        BY <1>1, NextCountInv DEF ArmInv
    <2> QED
        BY <1>1, <2>1 DEF ArmInv, Flags, Exact, Gated, Decided, Inflight, tapsVars,
            tapVars, controlVars, captureVars
<1> QED
    BY <1>1, ControlArmInv, CaptureArmInv DEF TapsNext

(* No decision to record survives the wait for idle taps.                  *)
LEMMA ArmQuiet == ArmInv => Quiet
<1> SUFFICES ASSUME ArmInv, NEW c \in Channels, WillPush(c),
                    ctl[1] \in {"unmark", "drain", "deactivate", "disarm",
                               "idle", "clear"}
             PROVE  FALSE
    BY DEF Quiet
<1>1. cap \in Latched[c] /\ gate[c] /\ on[c]
    BY DEF WillPush, Recorded, Latched, Channels
<1>2. ctl \in DecidedAt[c]
    BY <1>1 DEF ArmInv, Decided
<1> QED
    BY <1>2 DEF DecidedAt, Channels

(* The writers' final drain has no producer beside it: once the stopper    *)
(* has seen both taps idle, no latched push is left                        *)
(* (gui_record_direct.h:112-115), in every schedule up to an iteration that*)
(* straddles the enabling of a tap.                                        *)
THEOREM StopIsQuiet == TapsSpec => []QuietAfterStop
<1>1. TapsInit => straddled \/ ArmInv
    BY InitArmInv
<1>2. (straddled \/ ArmInv) /\ [TapsNext]_tapsVars => (straddled \/ ArmInv)'
    BY StraddledStays, NextArmInv
<1>3. straddled \/ ArmInv => QuietAfterStop
    BY ArmQuiet DEF QuietAfterStop
<1> QED
    BY <1>1, <1>2, <1>3, PTL DEF TapsSpec

(* Between the pushes of one iteration channel A may be one chunk ahead.   *)
PairInv ==
    /\ ArmInv
    /\ pushed["A"] = pushed["B"]
          + (IF cap = <<"push", "B">> /\ Recorded("A") THEN 1 ELSE 0)

(* Both channels act on the same decision.                                 *)
LEMMA SameDecision ==
    ArmInv /\ cap = <<"push", "B">> => (Recorded("A") <=> Recorded("B"))
<1> SUFFICES ASSUME ArmInv, cap = <<"push", "B">>, on["A"], on["B"],
                    NEW c \in Channels, gate[c], NEW d \in Channels
             PROVE  gate[d]
    BY DEF Recorded, Channels
<1>1. ctl \in DecidedAt[c]
    BY DEF ArmInv, Decided, Latched, Channels
<1>2. ctl \in Session
    BY <1>1 DEF DecidedAt, Session, Channels
<1> QED
    BY <1>2 DEF ArmInv, Gated, Loaded, Channels

LEMMA NextPairInv == PairInv /\ [TapsNext]_tapsVars /\ ~straddled' => PairInv'
<1> SUFFICES ASSUME PairInv, [TapsNext]_tapsVars, ~straddled' PROVE PairInv'
    OBVIOUS
<1>1. ArmInv /\ ArmInv'
    BY NextArmInv DEF PairInv
<1>2. pushed["A"] \in Nat /\ pushed["B"] \in Nat
    BY <1>1 DEF ArmInv, CountInv, TapsTypeOK, Channels
<1>3. CASE \/ UNCHANGED tapsVars \/ StartRecording \/ RequestStop \/ RecordLayer
    <2>1. cap' = cap /\ gate' = gate /\ on' = on /\ pushed' = pushed
        BY <1>3 DEF tapsVars, captureVars, RecordLayer, RecordStep, StartRecording,
            RequestStop, MarkRecording, ClearRecording, WritersJoined,
            ClearContext, ResetInflight, Activate, Deactivate, WaitIdle,
            EnableTap, DisableTap, DisarmTap
    <2> QED
        BY <1>1, <2>1 DEF PairInv, Recorded
<1>4. CASE \/ BeginIteration
           \/ \E c \in Channels :
                  LoadFlag(c) \/ EnterTap(c) \/ LatchTap(c) \/ LeaveTap(c)
    <2>1. pushed' = pushed /\ cap # <<"push", "B">> /\ cap' # <<"push", "B">>
        BY <1>4 DEF BeginIteration, LoadFlag, EnterTap, LatchTap, LeaveTap,
            After, Channels
    <2> QED
        BY <1>1, <2>1 DEF PairInv
<1>5. CASE PushLatched("A")
    <2>1. cap = <<"push", "A">> /\ cap' = <<"push", "B">> /\ gate' = gate /\ on' = on
        BY <1>5 DEF PushLatched, After
    <2>2. /\ pushed'["A"] = IF Recorded("A") THEN pushed["A"] + 1 ELSE pushed["A"]
          /\ pushed'["B"] = pushed["B"]
        BY <1>1, <1>5 DEF PushLatched, Channels, ArmInv, CountInv, TapsTypeOK
    <2> QED
        BY <1>1, <1>2, <2>1, <2>2 DEF PairInv, Recorded
<1>6. CASE PushLatched("B")
    <2>1. cap = <<"push", "B">> /\ cap' = <<"leave", "A">>
        BY <1>6 DEF PushLatched, After
    <2>2. /\ pushed'["B"] = IF Recorded("B") THEN pushed["B"] + 1 ELSE pushed["B"]
          /\ pushed'["A"] = pushed["A"]
        BY <1>1, <1>6 DEF PushLatched, Channels, ArmInv, CountInv, TapsTypeOK
    <2>3. Recorded("A") <=> Recorded("B")
        BY <1>1, <2>1, SameDecision
    <2> QED
        BY <1>1, <1>2, <2>1, <2>2, <2>3 DEF PairInv
<1> QED
    BY <1>3, <1>4, <1>5, <1>6 DEF TapsNext, Iteration, IterationStep, Channels

(* A recording starts and stops on the same chunk of both channels         *)
(* (gui_record_direct.h:105-109), in every schedule up to an iteration that*)
(* straddles the enabling of a tap.                                        *)
THEOREM ChannelsStayInLockstep == TapsSpec => []Lockstep
<1>1. TapsInit => straddled \/ PairInv
    BY InitArmInv DEF TapsInit, PairInv, Channels
<1>2. (straddled \/ PairInv) /\ [TapsNext]_tapsVars => (straddled \/ PairInv)'
    BY StraddledStays, NextPairInv
<1>3. straddled \/ PairInv => Lockstep
    BY DEF PairInv, Lockstep, Paired, ArmInv, CountInv, TapsTypeOK, Channels
<1> QED
    BY <1>1, <1>2, <1>3, PTL DEF TapsSpec

-----------------------------------------------------------------------------
(* The handshake gives RecordDirect the producer and the stop it assumes.  *)

(* Places of the capture thread past its push of a channel.                *)
Ahead ==
    [A |-> {<<"idle", "A">>, <<"push", "B">>, <<"leave", "A">>, <<"leave", "B">>},
     B |-> {<<"idle", "A">>, <<"leave", "A">>, <<"leave", "B">>}]

(* An iteration pushes at most one chunk of each channel.                  *)
BoundInv ==
    /\ ArmInv
    /\ iterations <= MaxIterations
    /\ \A c \in Channels :
           pushed[c] + (IF cap \in Ahead[c] THEN 0 ELSE 1) <= iterations

LEMMA InitBoundInv == TapsInit => BoundInv
<1> SUFFICES ASSUME TapsInit PROVE BoundInv
    OBVIOUS
<1>1. ArmInv
    BY InitArmInv
<1>2. iterations <= MaxIterations
    BY TapsAssumption DEF TapsInit
<1>3. ASSUME NEW c \in Channels
      PROVE  pushed[c] + (IF cap \in Ahead[c] THEN 0 ELSE 1) <= iterations
    BY DEF TapsInit, Ahead, Channels
<1> QED
    BY <1>1, <1>2, <1>3 DEF BoundInv

LEMMA NextBoundInv == BoundInv /\ [TapsNext]_tapsVars /\ ~straddled' => BoundInv'
<1> SUFFICES ASSUME BoundInv, [TapsNext]_tapsVars, ~straddled' PROVE BoundInv'
    OBVIOUS
<1>1. ArmInv /\ ArmInv'
    BY NextArmInv DEF BoundInv
<1>2. /\ pushed["A"] \in Nat /\ pushed["B"] \in Nat /\ iterations \in Nat
      /\ MaxIterations \in Nat
      /\ pushed \in [Channels -> Nat]
    BY <1>1, TapsAssumption DEF ArmInv, CountInv, TapsTypeOK, Channels
<1>3. CASE \/ UNCHANGED tapsVars \/ StartRecording \/ RequestStop \/ RecordLayer
    <2>1. cap' = cap /\ pushed' = pushed /\ iterations' = iterations
        BY <1>3 DEF tapsVars, captureVars, RecordLayer, RecordStep, StartRecording,
            RequestStop, MarkRecording, ClearRecording, WritersJoined,
            ClearContext, ResetInflight, Activate, Deactivate, WaitIdle,
            EnableTap, DisableTap, DisarmTap
    <2> QED
        BY <1>1, <2>1 DEF BoundInv
<1>4. CASE BeginIteration
    BY <1>1, <1>2, <1>4 DEF BeginIteration, BoundInv, Ahead, Channels
<1>5. ASSUME NEW c \in Channels, LoadFlag(c) \/ EnterTap(c) \/ LatchTap(c) \/ LeaveTap(c)
      PROVE  BoundInv'
    <2>1. pushed' = pushed /\ iterations' = iterations
        BY <1>5 DEF LoadFlag, EnterTap, LatchTap, LeaveTap
    <2>2. ASSUME NEW d \in Channels PROVE cap' \in Ahead[d] <=> cap \in Ahead[d]
        BY <1>5 DEF LoadFlag, EnterTap, LatchTap, LeaveTap, After, Ahead, Channels
    <2> QED
        BY <1>1, <2>1, <2>2 DEF BoundInv
<1>6. ASSUME NEW c \in Channels, PushLatched(c) PROVE BoundInv'
    <2>1. iterations' = iterations
        BY <1>6 DEF PushLatched
    <2>2. ASSUME NEW d \in Channels
          PROVE  pushed'[d] + (IF cap' \in Ahead[d] THEN 0 ELSE 1)
                     <= pushed[d] + (IF cap \in Ahead[d] THEN 0 ELSE 1)
        BY <1>2, <1>6 DEF PushLatched, After, Ahead, Channels
    <2>3. ASSUME NEW d \in Channels
          PROVE  pushed'[d] + (IF cap' \in Ahead[d] THEN 0 ELSE 1) <= iterations'
        <3>1. pushed'[d] \in Nat
            BY <1>1 DEF ArmInv, CountInv, TapsTypeOK
        <3> QED
            BY <1>2, <2>1, <2>2, <3>1 DEF BoundInv
    <2> QED
        BY <1>1, <2>1, <2>3 DEF BoundInv
<1> QED
    BY <1>3, <1>4, <1>5, <1>6 DEF TapsNext, Iteration, IterationStep

(* With the same chunks pushed and the same push under way, the spill file *)
(* and the counters of the mapping are the same.                           *)
LEMMA SameMapping ==
    ASSUME NEW c \in Channels, pushed'[c] = pushed[c],
           WillPush(c)' <=> WillPush(c)
    PROVE  UNCHANGED <<SpillOf(c), PushOf(c), Begun(c), pushed[c]>>
<1>1. SpillOf(c)' = SpillOf(c)
    BY DEF SpillOf
<1>2. PushOf(c)' = PushOf(c)
    BY DEF PushOf
<1>3. Begun(c)' = Begun(c)
    BY DEF Begun
<1> QED
    BY <1>1, <1>2, <1>3

LEMMA ControlDirect ==
    ASSUME ArmInv, RecordLayer \/ StartRecording \/ RequestStop,
           NEW c \in Channels
    PROVE  \/ Direct(c)!Next
           \/ NextRecording(c)
           \/ UNCHANGED <<TapOf, PushOf(c), pushed[c]>>
<1>1. UNCHANGED captureVars
    BY DEF RecordLayer, RecordStep, StartRecording, RequestStop, MarkRecording,
        ClearRecording, WritersJoined, ClearContext, ResetInflight, Activate,
        Deactivate, WaitIdle, EnableTap, DisableTap, DisarmTap, captureVars
<1>2. /\ pushed'[c] = pushed[c]
      /\ WillPush(c)' <=> WillPush(c)
    BY <1>1 DEF captureVars, WillPush, Recorded
<1>3. UNCHANGED <<SpillOf(c), PushOf(c), Begun(c), pushed[c]>>
    BY <1>2, SameMapping
<1>4. CASE StartRecording
    <2>1. TapOf = "stopped" /\ TapOf' = "on"
        BY <1>4 DEF StartRecording, TapOf
    <2>2. ~WillPush(c)
        BY <1>4, ArmQuiet DEF StartRecording, Quiet
    <2> QED
        BY <1>3, <2>1, <2>2 DEF NextRecording
<1>5. CASE ClearRecording
    <2>1. TapOf = "disabled" /\ TapOf' = "stopped"
        BY <1>5 DEF ClearRecording, TapOf
    <2>2. PushOf(c) = "idle"
        BY <1>5, ArmQuiet DEF ClearRecording, Quiet, PushOf
    <2>3. Direct(c)!StopClearsRecording
        BY <1>3, <2>1, <2>2 DEF Direct!StopClearsRecording, Direct!queueVars,
            Direct!producerVars, Direct!writerVars
    <2> QED
        BY <2>3 DEF Direct!Next
<1>6. CASE DisableTap("B")
    <2>1. TapOf = "on" /\ TapOf' = "disabled"
        BY <1>6 DEF DisableTap, TapOf, After
    <2>2. Direct(c)!StopDisables
        BY <1>3, <2>1 DEF Direct!StopDisables, Direct!queueVars,
            Direct!producerVars, Direct!writerVars
    <2> QED
        BY <2>2 DEF Direct!Next
<1>7. CASE \/ RequestStop \/ MarkRecording \/ WritersJoined \/ DisableTap("A")
    <2>1. TapOf' = TapOf
        BY <1>7 DEF RequestStop, MarkRecording, WritersJoined, DisableTap, TapOf, After
    <2> QED
        BY <1>3, <2>1
<1>8. ASSUME NEW d \in Channels,
             \/ ClearContext(d) \/ Activate(d) \/ ResetInflight(d)
             \/ EnableTap(d) \/ WaitIdle(d) \/ Deactivate(d) \/ DisarmTap(d)
      PROVE  UNCHANGED <<TapOf, PushOf(c), pushed[c]>>
    <2>1. TapOf' = TapOf
        BY <1>8 DEF ClearContext, Activate, ResetInflight, EnableTap, WaitIdle,
            Deactivate, DisarmTap, TapOf, After, Channels
    <2> QED
        BY <1>3, <2>1
<1> QED
    BY <1>4, <1>5, <1>6, <1>7, <1>8 DEF RecordLayer, RecordStep, Channels

(* A latched decision to record both channels was taken while the taps     *)
(* were on.                                                                *)
LEMMA LatchedOn ==
    ASSUME ArmInv, LatchTap("B"), NEW c \in Channels, WillPush(c)'
    PROVE  TapOf = "on"
<1>1. /\ cap = <<"latch", "B">> /\ gate' = gate
      /\ on' = [on EXCEPT !["B"] = gate["B"] => tap_enabled["B"]]
    BY DEF LatchTap
<1>2. gate[c] /\ on'["A"] /\ on'["B"]
    BY <1>1 DEF WillPush, Recorded
<1>3. on'["A"] = on["A"] /\ (on'["B"] <=> (gate["B"] => tap_enabled["B"]))
    BY <1>1 DEF ArmInv, CountInv, TapsTypeOK, Channels
<1>4. CASE gate["B"]
    <2>1. tap_enabled["B"]
        BY <1>2, <1>3, <1>4
    <2>2. ctl \in EnabledAt["B"]
        BY <2>1 DEF ArmInv, Flags, Channels
    <2> QED
        BY <2>2 DEF EnabledAt, TapOf
<1>5. CASE ~gate["B"]
    <2>1. gate["A"]
        BY <1>2, <1>5 DEF Channels
    <2>2. ctl \in DecidedAt["A"]
        BY <1>1, <1>2, <1>3, <2>1 DEF ArmInv, Decided, Latched, Channels
    <2>3. ctl \in Session
        BY <2>2 DEF DecidedAt, Session
    <2> QED
        BY <1>1, <1>5, <2>1, <2>3 DEF ArmInv, Gated, Loaded, Channels
<1> QED
    BY <1>4, <1>5

LEMMA CaptureDirect ==
    ASSUME BoundInv, BoundInv', BeginIteration \/ Iteration,
           NEW c \in Channels
    PROVE  Direct(c)!Next \/ UNCHANGED <<TapOf, PushOf(c), pushed[c]>>
<1>1. TapOf' = TapOf
    BY DEF BeginIteration, Iteration, IterationStep, LoadFlag, EnterTap,
        LatchTap, PushLatched, LeaveTap, controlVars, TapOf
<1>2. /\ pushed[c] \in Nat /\ pushed'[c] \in Nat
      /\ pushed \in [Channels -> Nat]
      /\ MaxIterations \in Nat
      /\ iterations \in Nat /\ iterations <= MaxIterations
    BY TapsAssumption DEF BoundInv, ArmInv, CountInv, TapsTypeOK
<1>3. CASE BeginIteration
    <2>1. pushed' = pushed /\ ~WillPush(c) /\ ~WillPush(c)'
        BY <1>3 DEF BeginIteration, WillPush
    <2> QED
        BY <1>1, <2>1, SameMapping
<1>4. ASSUME NEW d \in Channels, LoadFlag(d) \/ EnterTap(d) \/ LeaveTap(d)
      PROVE  UNCHANGED <<TapOf, PushOf(c), pushed[c]>>
    <2>1. pushed' = pushed /\ ~WillPush(c) /\ ~WillPush(c)'
        BY <1>4 DEF LoadFlag, EnterTap, LeaveTap, After, Channels, WillPush
    <2> QED
        BY <1>1, <2>1, SameMapping
<1>5. CASE LatchTap("A") \/ (LatchTap("B") /\ ~WillPush(c)')
    <2>1. pushed' = pushed /\ ~WillPush(c) /\ ~WillPush(c)'
        BY <1>5 DEF LatchTap, After, Channels, WillPush
    <2> QED
        BY <1>1, <2>1, SameMapping
<1>6. CASE LatchTap("B") /\ WillPush(c)'
    <2>1. /\ cap = <<"latch", "B">> /\ pushed' = pushed /\ ~WillPush(c)
        BY <1>6 DEF LatchTap, WillPush
    <2>2. TapOf = "on"
        BY <1>6, LatchedOn DEF BoundInv
    <2>3. pushed[c] < MaxIterations
        BY <1>2, <2>1 DEF BoundInv, Ahead, Channels
    <2>4. /\ PushOf(c) = "idle" /\ PushOf(c)' = "spill"
          /\ Begun(c) = pushed[c] /\ Begun(c)' = Begun(c) + 1 /\ Begun(c) \in Nat
        BY <1>2, <1>6, <2>1 DEF PushOf, Begun
    <2>5. SpillOf(c)' = SpillOf(c) /\ SpillOf(c) # <<>>
        <3>1. Len(SpillOf(c)) = pushed[c] + 1 /\ Len(<<>>) = 0
            BY <1>2 DEF SpillOf
        <3> QED
            BY <1>2, <2>1, <3>1 DEF SpillOf
    <2>7. /\ Begun(c) + 1 < MaxIterations + 1
          /\ Begun(c)' + 1 = (Begun(c) + 1) + 1
        BY <1>2, <2>3, <2>4
    <2>6. Direct(c)!PushBegin
        BY <1>1, <2>1, <2>2, <2>4, <2>5, <2>7 DEF Direct!PushBegin,
            Direct!queueVars, Direct!writerVars
    <2> QED
        BY <2>6 DEF Direct!Next
<1>7. ASSUME NEW d \in Channels, PushLatched(d)
      PROVE  Direct(c)!Next \/ UNCHANGED <<TapOf, PushOf(c), pushed[c]>>
    <2>1. /\ cap = <<"push", d>> /\ gate' = gate /\ on' = on
          /\ cap' = After(d, "push", "leave")
          /\ pushed' = [pushed EXCEPT ![d] = IF Recorded(d) THEN @ + 1 ELSE @]
        BY <1>7 DEF PushLatched
    <2>2. CASE c # d \/ ~Recorded(c)
        <3>1. pushed'[c] = pushed[c]
            BY <1>2, <2>1, <2>2
        <3>2. WillPush(c)' <=> WillPush(c)
            BY <2>1, <2>2 DEF WillPush, Recorded, After, Channels
        <3> QED
            BY <1>1, <3>1, <3>2, SameMapping
    <2>3. CASE c = d /\ Recorded(c)
        <3>1. pushed'[c] = pushed[c] + 1
            BY <1>2, <2>1, <2>3
        <3>2. WillPush(c) /\ ~WillPush(c)'
            BY <2>1, <2>3 DEF WillPush, After, Channels
        <3>4. /\ PushOf(c) = "spill" /\ PushOf(c)' = "idle"
              /\ Begun(c) = pushed[c] + 1 /\ Begun(c)' = Begun(c)
            BY <1>2, <3>1, <3>2 DEF PushOf, Begun
        <3>6. SpillOf(c)' = Append(SpillOf(c), pushed[c] + 1)
            <4> DEFINE n == pushed[c] + 1
                       m == pushed'[c] + 1
            <4>1. n \in Nat /\ m = n + 1
                BY <1>2, <3>1
            <4> HIDE DEF n, m
            <4>2. [j \in 1 .. m |-> j - 1] = Append([j \in 1 .. n |-> j - 1], n)
                BY <4>1
            <4> QED
                BY <4>2 DEF SpillOf, n, m
        <3>8. Direct(c)!PushSpill
            BY <1>1, <1>2, <3>1, <3>4, <3>6 DEF Direct!PushSpill, Direct!writerVars
        <3> QED
            BY <3>8 DEF Direct!Next, Direct!PushStep
    <2> QED
        BY <2>2, <2>3
<1> QED
    BY <1>3, <1>4, <1>5, <1>6, <1>7 DEF Iteration, IterationStep, Channels

(* Every step of the handshake is, for each channel, a step RecordDirect   *)
(* allows: no push begins after both taps are disabled, and is_recording   *)
(* is not cleared while one is in flight (gui_record_direct.h:105-115), in *)
(* every schedule up to an iteration that straddles the enabling of a tap. *)
THEOREM HandshakeIsDirect == TapsSpec => ImplementsDirect
<1>1. ASSUME BoundInv, BoundInv', [TapsNext]_tapsVars, NEW c \in Channels
      PROVE  \/ Direct(c)!Next
             \/ NextRecording(c)
             \/ UNCHANGED <<TapOf, PushOf(c), pushed[c]>>
    <2>1. CASE UNCHANGED tapsVars
        BY <2>1 DEF tapsVars, tapVars, controlVars, captureVars, TapOf, PushOf,
            WillPush, Recorded
    <2>2. CASE RecordLayer \/ StartRecording \/ RequestStop
        BY <1>1, <2>2, ControlDirect DEF BoundInv
    <2>3. CASE BeginIteration \/ Iteration
        BY <2>3, <1>1, CaptureDirect
    <2> QED
        BY <1>1, <2>1, <2>2, <2>3 DEF TapsNext
<1>2. ASSUME straddled \/ BoundInv, [TapsNext]_tapsVars
      PROVE  /\ straddled' \/ BoundInv'
             /\ \/ straddled'
                \/ \A c \in Channels :
                       \/ Direct(c)!Next
                       \/ NextRecording(c)
                       \/ UNCHANGED <<TapOf, PushOf(c), pushed[c]>>
    BY <1>1, <1>2, StraddledStays, NextBoundInv
<1>3. TapsInit => straddled \/ BoundInv
    BY InitBoundInv
<1>4. (straddled \/ BoundInv) /\ [TapsNext]_tapsVars => (straddled \/ BoundInv)'
    BY <1>2
<1>5. (straddled \/ BoundInv) /\ [TapsNext]_tapsVars
          => [\/ straddled'
              \/ \A c \in Channels :
                     \/ Direct(c)!Next
                     \/ NextRecording(c)
                     \/ UNCHANGED <<TapOf, PushOf(c), pushed[c]>>]_tapsVars
    BY <1>2
<1> QED
    BY <1>3, <1>4, <1>5, PTL DEF TapsSpec, ImplementsDirect
=============================================================================
